------------------------------ MODULE Cyclebuf ------------------------------
(***************************************************************************)
(* cy_buf (src/lib/impl/cyclebuf.c) as pipes, ptys and input drivers use   *)
(* it: a ring of Size bytes under a spinlock and two auto-reset events     *)
(* that are fired outside it.  A section under the spinlock is one step,   *)
(* and so is a load or an update of a counter and a call on an event,      *)
(* which is taken from AbsCond.  The poll subscriptions are not part of    *)
(* this state.                                                             *)
(***************************************************************************)
EXTENDS Integers, Sequences, FiniteSets

CONSTANTS Readers, Writers,   \* the tasks, each with at most one end open
          Bytes,              \* the byte values
          Size,               \* b->buf_size
          MaxLen              \* bound on the length of one call

ASSUME SizeAssumption == Size \in Nat \ {0}
ASSUME MaxLenAssumption == MaxLen \in Nat \ {0}
ASSUME EndsAssumption == Readers \cap Writers = {}
ASSUME FiniteAssumption == IsFiniteSet(Readers) /\ IsFiniteSet(Writers)

Tasks == Readers \cup Writers

VARIABLES buf, length, read_idx, write_idx,
          read_event, write_event,            \* the words of the two events
          reader_count, writer_count, ref_count,
          named,                              \* a device keeps a reference
          pc,
          src,                                \* the bytes a write has still to put
          dst                                 \* the bytes a read has received

ring == <<buf, length, read_idx, write_idx>>
events == <<read_event, write_event>>
counts == <<reader_count, writer_count, ref_count, named>>
vars == <<buf, length, read_idx, write_idx, read_event, write_event,
          reader_count, writer_count, ref_count, named, pc, src, dst>>

Step(t, from, to) == pc[t] = from /\ pc' = [pc EXCEPT ![t] = to]

OnRead == INSTANCE AbsCond WITH lock <- read_event,
                                waiting <- {t \in Readers : pc[t] = "r_wait"}
OnWrite == INSTANCE AbsCond WITH lock <- write_event,
                                 waiting <- {t \in Writers : pc[t] = "w_wait"}

-----------------------------------------------------------------------------
(* The ring. *)
At(i) == IF i >= Size THEN i - Size ELSE i

Least(a, b) == IF a < b THEN a ELSE b

(* Mutant: the index wraps one byte late. *)
WrapLate(s) ==
    LET end == write_idx + Len(s)
    IN  /\ buf' = [i \in 0..Size - 1 |->
                     IF i \in write_idx..end - 1 THEN s[i - write_idx + 1]
                     ELSE IF i < end - Size THEN s[i + Size - write_idx + 1] ELSE buf[i]]
        /\ write_idx' = IF end > Size THEN end - Size ELSE end
        /\ length' = length + Len(s)
        /\ UNCHANGED read_idx

(* Mutant: the second copy starts at the front of the source again. *)
CopyTwice(s) ==
    LET first == Least(Size - write_idx, Len(s))
    IN  /\ buf' = [i \in 0..Size - 1 |->
                     IF i \in write_idx..write_idx + first - 1
                     THEN s[i - write_idx + 1]
                     ELSE IF i < Len(s) - first THEN s[i + 1] ELSE buf[i]]
        /\ write_idx' = At(write_idx + Len(s))
        /\ length' = length + Len(s)
        /\ UNCHANGED read_idx

cyb_copy_in(s) ==
    LET first == Least(Size - write_idx, Len(s))
    IN  /\ buf' = [i \in 0..Size - 1 |->
                     IF i \in write_idx..write_idx + first - 1
                     THEN s[i - write_idx + 1]
                     ELSE IF i < Len(s) - first THEN s[first + i + 1] ELSE buf[i]]
        /\ write_idx' = At(write_idx + Len(s))
        /\ length' = length + Len(s)
        /\ UNCHANGED read_idx

cyb_copy_out(t, n) ==
    LET first == Least(Size - read_idx, n)
    IN  /\ dst' = [dst EXCEPT ![t] = [i \in 1..n |-> IF i <= first
                                                     THEN buf[read_idx + i - 1]
                                                     ELSE buf[i - first - 1]]]
        /\ read_idx' = At(read_idx + n)
        /\ length' = length - n
        /\ UNCHANGED <<buf, write_idx>>

-----------------------------------------------------------------------------
(* cyb_putbuf, under pipe_write, which refuses a pipe nobody reads. *)
pipe_write(t, s) ==
    /\ \/ /\ reader_count = 0
          /\ Step(t, "idle", "idle")
          /\ UNCHANGED src
       \/ /\ reader_count # 0
          /\ \E start \in {"w_loop", "w_try"} : Step(t, "idle", start)
          /\ src' = [src EXCEPT ![t] = s]
    /\ UNCHANGED <<ring, events, counts, dst>>

(* Where a put goes on: to the notification if the ring was empty, and then *)
(* to the caller or, when the call blocks, to the next round.               *)
AfterPut(t, i) ==
    LET more == pc[t] = "w_loop" /\ Len(src[t]) > i
    IN  IF length = 0 /\ i > 0 THEN IF more THEN "w_notify_more" ELSE "w_notify"
                               ELSE IF more THEN "w_more" ELSE "idle"

(* The section of cyb_putbuf: put what fits, and arm the event if full. *)
put(t) ==
    LET i == Least(Size - length, Len(src[t]))
    IN  /\ pc[t] \in {"w_loop", "w_try"}
        /\ cyb_copy_in(SubSeq(src[t], 1, i))
        /\ write_event' = IF length + i = Size THEN 1 ELSE write_event
        /\ pc' = [pc EXCEPT ![t] = AfterPut(t, i)]
        /\ src' = [src EXCEPT ![t] = IF AfterPut(t, i) \in {"w_more", "w_notify_more"}
                                     THEN SubSeq(@, i + 1, Len(@)) ELSE <<>>]
        /\ UNCHANGED <<read_event, counts, dst>>

cyb_put_record(t, s) ==
    /\ Step(t, "idle", "w_record")
    /\ src' = [src EXCEPT ![t] = s]
    /\ UNCHANGED <<ring, events, counts, dst>>

(* Its section: the whole record or nothing. *)
put_record(t) ==
    /\ \/ /\ Len(src[t]) > Size - length
          /\ Step(t, "w_record", "idle")
          /\ UNCHANGED <<ring, write_event>>
       \/ /\ Len(src[t]) <= Size - length
          /\ cyb_copy_in(src[t])
          /\ write_event' = IF length + Len(src[t]) = Size THEN 1 ELSE write_event
          /\ Step(t, "w_record", IF length = 0 THEN "w_notify" ELSE "idle")
    /\ src' = [src EXCEPT ![t] = <<>>]
    /\ UNCHANGED <<read_event, counts, dst>>

notify_read(t) ==
    /\ Step(t, "w_notify", "idle") \/ Step(t, "w_notify_more", "w_more")
    /\ OnRead!Notify
    /\ UNCHANGED <<ring, write_event, counts, src, dst>>

(* More to put: give up without readers, or wait for room. *)
check_readers(t) ==
    /\ Step(t, "w_more", IF reader_count = 0 THEN "idle" ELSE "w_event")
    /\ src' = IF reader_count = 0 THEN [src EXCEPT ![t] = <<>>] ELSE src
    /\ UNCHANGED <<ring, events, counts, dst>>

wait_write(t) ==
    /\ \/ Step(t, "w_event", "w_loop") /\ OnWrite!Try(t)
       \/ Step(t, "w_event", "w_wait") /\ OnWrite!Wait(t)
       \/ Step(t, "w_wait", "w_loop") /\ OnWrite!Take(t)
    /\ UNCHANGED <<ring, read_event, counts, src, dst>>

interrupt_write(t) ==
    /\ Step(t, "w_wait", "idle")
    /\ OnWrite!Leave(t)
    /\ src' = [src EXCEPT ![t] = <<>>]
    /\ UNCHANGED <<ring, read_event, counts, dst>>

-----------------------------------------------------------------------------
(* cyb_getbuf, under pipe_read. *)
pipe_read(t) ==
    /\ \E start \in {"r_loop", "r_try"} : Step(t, "idle", start)
    /\ UNCHANGED <<ring, events, counts, src, dst>>

(* Its section: take what is there, at most n bytes, and arm the event when *)
(* the ring is drained; without bytes, return or go on to wait.             *)
get(t, n) ==
    /\ pc[t] \in {"r_loop", "r_try"}
    /\ length > 0
    /\ cyb_copy_out(t, Least(length, n))
    /\ read_event' = IF length <= n THEN 1 ELSE read_event
    /\ pc' = [pc EXCEPT ![t] = IF length = Size THEN "r_notify" ELSE "r_done"]
    /\ UNCHANGED <<write_event, counts, src>>

get_empty(t) ==
    /\ length = 0
    /\ \/ Step(t, "r_try", "idle")
       \/ Step(t, "r_loop", IF writer_count = 0 THEN "idle" ELSE "r_event")
    /\ UNCHANGED <<ring, events, counts, src, dst>>

(* Mutant: a reader of a full ring does not tell the writers. *)
NotifyLost(t) ==
    /\ Step(t, "r_notify", "r_done") \/ Step(t, "f_notify", "idle")
    /\ UNCHANGED <<ring, events, counts, src, dst>>

notify_write(t) ==
    /\ Step(t, "r_notify", "r_done") \/ Step(t, "f_notify", "idle")
    /\ OnWrite!Notify
    /\ UNCHANGED <<ring, read_event, counts, src, dst>>

return_read(t) ==
    /\ Step(t, "r_done", "idle")
    /\ dst' = [dst EXCEPT ![t] = <<>>]
    /\ UNCHANGED <<ring, events, counts, src>>

wait_read(t) ==
    /\ \/ Step(t, "r_event", "r_loop") /\ OnRead!Try(t)
       \/ Step(t, "r_event", "r_wait") /\ OnRead!Wait(t)
       \/ Step(t, "r_wait", "r_loop") /\ OnRead!Take(t)
    /\ UNCHANGED <<ring, write_event, counts, src, dst>>

interrupt_read(t) ==
    /\ Step(t, "r_wait", "r_intr")
    /\ OnRead!Leave(t)
    /\ UNCHANGED <<ring, write_event, counts, src, dst>>

(* An interrupted reader looks once more for the end of the stream. *)
recheck_writers(t) ==
    /\ Step(t, "r_intr", IF writer_count = 0 THEN "r_loop" ELSE "idle")
    /\ UNCHANGED <<ring, events, counts, src, dst>>

(* Terminals flush their buffers, pipes never do. *)
cyb_flush(t) ==
    /\ named
    /\ Step(t, "idle", IF length = Size THEN "f_notify" ELSE "idle")
    /\ read_idx' = write_idx
    /\ length' = 0
    /\ read_event' = 1
    /\ UNCHANGED <<buf, write_idx, write_event, counts, src, dst>>

-----------------------------------------------------------------------------
(* The ends.  The three counters of an open are one step: the reference of  *)
(* the end or device that is opened keeps ref_count above 0 meanwhile.      *)
Open(t) ==
    /\ named \/ \E u \in Tasks : pc[u] \notin {"closed", "c_notify", "c_destroy"}
    /\ Step(t, "closed", "idle")
    /\ ref_count' = ref_count + 1
    /\ UNCHANGED <<ring, events, named, src, dst>>

cyb_reader_open(t) ==
    Open(t) /\ reader_count' = reader_count + 1 /\ UNCHANGED writer_count

cyb_writer_open(t) ==
    Open(t) /\ writer_count' = writer_count + 1 /\ UNCHANGED reader_count

(* Mutant: the reference is dropped with the count, before the wakeup. *)
DestroyFirst(t) ==
    /\ Step(t, "idle", "c_notify")
    /\ writer_count' = writer_count - 1
    /\ ref_count' = ref_count - 1
    /\ UNCHANGED <<ring, events, reader_count, named, src, dst>>

cyb_writer_close(t) ==
    /\ Step(t, "idle", "c_notify")
    /\ writer_count' = writer_count - 1
    /\ UNCHANGED <<ring, events, reader_count, ref_count, named, src, dst>>

cyb_reader_close(t) ==
    /\ Step(t, "idle", "c_notify")
    /\ reader_count' = reader_count - 1
    /\ UNCHANGED <<ring, events, writer_count, ref_count, named, src, dst>>

(* Mutant: nobody is told that an end was closed. *)
CloseQuietly(t) ==
    /\ Step(t, "c_notify", "c_destroy")
    /\ UNCHANGED <<ring, events, counts, src, dst>>

close_notify(t) ==
    /\ Step(t, "c_notify", "c_destroy")
    /\ IF t \in Writers THEN OnRead!Notify /\ UNCHANGED write_event
                         ELSE OnWrite!Notify /\ UNCHANGED read_event
    /\ UNCHANGED <<ring, counts, src, dst>>

cyb_destroy(t) ==
    /\ Step(t, "c_destroy", "closed")
    /\ ref_count' = ref_count - 1
    /\ UNCHANGED <<ring, events, reader_count, writer_count, named, src, dst>>

-----------------------------------------------------------------------------
(* A pipe starts with one open end of each kind, a device with none. *)
cyb_create ==
    /\ named = FALSE
    /\ reader_count = 1 /\ writer_count = 1 /\ ref_count = 2
    /\ \E r \in Readers, w \in Writers :
          pc = [t \in Tasks |-> IF t \in {r, w} THEN "idle" ELSE "closed"]

cyb_create_named ==
    /\ named = TRUE
    /\ reader_count = 0 /\ writer_count = 0 /\ ref_count = 1
    /\ pc = [t \in Tasks |-> "closed"]

Init ==
    /\ buf \in [0..Size - 1 -> Bytes]
    /\ length = 0 /\ read_idx = 0 /\ write_idx = 0
    /\ read_event = 1 /\ write_event = 0
    /\ cyb_create \/ cyb_create_named
    /\ src = [t \in Writers |-> <<>>]
    /\ dst = [t \in Readers |-> <<>>]

Call(t) ==
    \/ t \in Readers /\ (pipe_read(t) \/ cyb_reader_open(t) \/ cyb_reader_close(t))
    \/ /\ t \in Writers
       /\ \/ \E len \in 1..MaxLen : \E s \in [1..len -> Bytes] :
                 pipe_write(t, s) \/ cyb_put_record(t, s)
          \/ cyb_writer_open(t)
          \/ cyb_writer_close(t)
    \/ cyb_flush(t)

Interrupt(t) ==
    \/ t \in Readers /\ interrupt_read(t)
    \/ t \in Writers /\ interrupt_write(t)

(* What t does once it has called in. *)
Proceed(t) ==
    \/ /\ t \in Readers
       /\ \/ \E n \in 1..MaxLen : get(t, n)
          \/ get_empty(t) \/ return_read(t) \/ wait_read(t) \/ recheck_writers(t)
    \/ /\ t \in Writers
       /\ put(t) \/ put_record(t) \/ notify_read(t) \/ check_readers(t) \/ wait_write(t)
    \/ notify_write(t) \/ close_notify(t) \/ cyb_destroy(t)

Next == \E t \in Tasks : Call(t) \/ Proceed(t) \/ Interrupt(t)

Spec == Init /\ [][Next]_vars

(* Tasks inside the code run on; an event that stays fired is consumed by   *)
(* its waiters, as AbsCond promises.  Nobody has to call in.                *)
FairSpec == Spec /\ \A t \in Tasks : WF_vars(Proceed(t))

-----------------------------------------------------------------------------
PCs == {"closed", "idle", "r_loop", "r_try", "r_event", "r_wait", "r_intr", "r_notify",
        "r_done", "w_loop", "w_try", "w_record", "w_notify", "w_notify_more", "w_more", "w_event",
        "w_wait", "f_notify", "c_notify", "c_destroy"}

(* The types of the state of one cy_buf. *)
TypeOK ==
    /\ buf \in [0..Size - 1 -> Bytes]
    /\ length \in 0..Size /\ read_idx \in 0..Size - 1 /\ write_idx \in 0..Size - 1
    /\ read_event \in {0, 1} /\ write_event \in {0, 1}
    /\ reader_count \in Nat /\ writer_count \in Nat /\ ref_count \in Nat
    /\ named \in BOOLEAN
    /\ pc \in [Tasks -> PCs]
    /\ src \in [Writers -> Seq(Bytes)]
    /\ dst \in [Readers -> Seq(Bytes)]

(* The ring is a queue: what a reader gets is what was put first, across    *)
(* the end of the buffer, partial transfers and concurrent calls.           *)
queue == [i \in 1..length |-> buf[At(read_idx + i - 1)]]

Fifo == INSTANCE AbsFifo

ImplementsAbsFifo == Fifo!Spec

(* The buffer is freed when its last user is through with it: closing       *)
(* touches the events after the count of its end has dropped.               *)
NoUseAfterFree == ref_count = 0 => \A t \in Tasks : pc[t] = "closed"

(* "blocking until at least one byte is available.  Returns the number of   *)
(* bytes read, or 0 on EOF (no writers remain)" (src/lib/cyclebuf.h): no    *)
(* reader sleeps for ever before bytes that stay, or with no writer left.   *)
ReaderReturns ==
    \A r \in Readers : ~<>[](pc[r] = "r_wait" /\ (length > 0 \/ writer_count = 0))

(* "blocks when full until all bytes are written" (src/lib/cyclebuf.h): no  *)
(* writer sleeps for ever while there is room, or when no reader is left.  *)
WriterReturns ==
    \A w \in Writers : ~<>[](pc[w] = "w_wait" /\ (length < Size \/ reader_count = 0))

-----------------------------------------------------------------------------
(* The inductive invariant: the write index is where the queue ends, the    *)
(* counters count the ends that are open or being closed, and only a task   *)
(* inside a write has bytes to put.                                         *)
OpenEnds(S) == {t \in S : pc[t] \notin {"closed", "c_notify", "c_destroy"}}

Referrers == {t \in Tasks : pc[t] # "closed"}

CountInv ==
    /\ reader_count = Cardinality(OpenEnds(Readers))
    /\ writer_count = Cardinality(OpenEnds(Writers))
    /\ ref_count = Cardinality(Referrers) + (IF named THEN 1 ELSE 0)

Putting == {"w_loop", "w_try", "w_record", "w_more", "w_notify_more", "w_event", "w_wait"}

CycInv ==
    /\ TypeOK
    /\ write_idx = At(read_idx + length)
    /\ CountInv
    /\ \A w \in Writers : pc[w] \notin Putting => src[w] = <<>>
=============================================================================
