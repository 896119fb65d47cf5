------------------------------ MODULE MCFiles ------------------------------
(* Small programs, one per way in which calls meet.  Their state spaces do  *)
(* not mix: a run chooses one program in its initial state.                 *)
EXTENDS Files, TLC

CONSTANTS t1, t2, t3, f1, f2, e1, p1, p2, o1, o2, tm

MCTasks == {t1, t2, t3}
MCGroup == t1 :> p1 @@ t2 :> p2 @@ t3 :> p2

P(a, b, c) == t1 :> a @@ t2 :> b @@ t3 :> c

Wait(timeout, fault) ==
    [op |-> "epoll_wait", files |-> {e1}, timeout |-> timeout, max |-> 1, fault |-> fault]
Add(f, ev) == [op |-> "add", item |-> <<e1, f>>, events |-> ev]
Mod(f, ev) == [op |-> "mod", item |-> <<e1, f>>, events |-> ev]
Del(f) == [op |-> "del", item |-> <<e1, f>>, events |-> "level"]
Read(f, timeout) == [op |-> "read", files |-> {f}, timeout |-> timeout]
Write(f, timeout) == [op |-> "write", files |-> {f}, timeout |-> timeout, val |-> 2]
Poll(F, timeout) == [op |-> "poll", files |-> F, timeout |-> timeout]
Select(F, timeout) == [op |-> "select", files |-> F, timeout |-> timeout]
Close(f) == [op |-> "close", file |-> f]
Create(f) == [op |-> "create", file |-> f]
Sig == [op |-> "signal"]
Service == [op |-> "service"]
SetTime(due, interval, abs, old) ==
    [op |-> "settime", files |-> {tm}, old |-> old, abs |-> abs, realtime |-> FALSE,
     cancel |-> FALSE, due |-> due, interval |-> interval]
SetWall(due, interval) ==
    [op |-> "settime", files |-> {tm}, old |-> FALSE, abs |-> TRUE, realtime |-> TRUE,
     cancel |-> TRUE, due |-> due, interval |-> interval]
GetTime == [op |-> "gettime", files |-> {tm}, old |-> TRUE]
SetClock(w) == [op |-> "clock_settime", wall |-> w]
Range(f, op, type, first, len) ==
    [op |-> op, file |-> f, type |-> type, base |-> 0, l_start |-> first, l_len |-> len]
Flock(f, type, nonblock) == [op |-> "flock", file |-> f, type |-> type, nonblock |-> nonblock]
FsClose(f) == [op |-> "fs_close", file |-> f]

MCPrograms == {
    \* an interest that comes, changes and goes
    P({Wait("none", FALSE), Add(f1, "oneshot")}, {Write(f1, "zero")}, {Mod(f1, "oneshot"), Del(f1)}),
    \* edges and signals
    P({Wait("none", FALSE), Add(f1, "edge")}, {Write(f1, "zero")}, {Read(f1, "zero")}),
    P({Wait("none", FALSE), Sig}, {}, {Add(f1, "edge"), Write(f1, "zero")}),
    \* two waiters for one report
    P({Wait("none", FALSE)}, {Wait("none", FALSE), Add(f1, "oneshot")}, {Write(f1, "zero")}),
    \* two ready files and room for one report
    P({Wait("none", FALSE), Add(f1, "level"), Add(f2, "level"), Write(f1, "zero")}, {},
      {Write(f2, "zero")}),
    \* a set that is polled, and a report that cannot be copied out
    P({Poll({e1}, "none"), Add(f1, "edge")}, {Wait("zero", TRUE)}, {Write(f1, "zero")}),
    \* a counter and a semaphore with two readers
    P({Read(f1, "none")}, {Read(f1, "zero")}, {Write(f1, "none")}),
    P({Read(f2, "none")}, {Read(f2, "none")}, {Write(f2, "zero")}),
    \* files and sets closed under waiters
    P({Poll({f1, f2}, "finite")}, {Write(f1, "zero")}, {Close(f1), Create(f1)}),
    P({Wait("none", FALSE), Add(f1, "level")}, {Write(f1, "zero"), Close(f1), Create(f1)},
      {Close(e1), Create(e1)}),
    P({Poll({e1}, "none"), Add(f1, "level")}, {Close(e1), Create(e1)}, {Write(f1, "zero")}),
    P({Select({f1}, "finite")}, {Close(f1), Create(f1)}, {Write(f1, "zero")}),
    \* timers that are read, rearmed, asked for and disarmed
    P({Read(tm, "none")}, {SetTime(1, 1, FALSE, FALSE), SetTime(0, 0, FALSE, TRUE)}, {Service}),
    P({Read(tm, "none"), Sig}, {SetTime(1, 2, TRUE, TRUE), GetTime}, {Service}),
    P({Read(tm, "none"), Read(tm, "zero")}, {SetWall(2, 1), SetClock(1), SetClock(3)}, {Service}),
    \* timers that are polled and closed
    P({Poll({tm}, "finite")}, {SetTime(1, 0, FALSE, FALSE), Close(tm), Create(tm)}, {Service}),
    P({Wait("none", FALSE), Add(tm, "edge")}, {SetTime(2, 1, TRUE, FALSE)}, {Service}),
    P({Wait("none", FALSE)},
      {Add(tm, "level"), Mod(tm, "edge"), SetTime(1, 0, TRUE, TRUE)}, {Service}),
    \* ranges that overlap, split and go with a descriptor
    P({Range(o1, "setlkw", "WRLCK", 0, 0), Range(o1, "setlk", "UNLCK", 3, -2), Sig},
      {Range(o1, "setlkw", "RDLCK", 1, 2), Sig}, {FsClose(o1)}),
    P({Range(o1, "setlk", "RDLCK", 0, 2), Range(o1, "setlk", "WRLCK", 0, 0),
       Range(o1, "setlk", "UNLCK", 3, -2)},
      {Range(o1, "setlk", "RDLCK", 1, 2)}, {FsClose(o1)}),
    \* whole-file locks that are converted, shared by two threads and closed
    P({Flock(o1, "SH", FALSE), Flock(o1, "EX", FALSE), Flock(o1, "UN", FALSE), Sig},
      {Flock(o2, "SH", TRUE), Flock(o2, "EX", FALSE)}, {Flock(o2, "UN", FALSE)}),
    P({Flock(o1, "EX", FALSE), FsClose(o1)},
      {Flock(o2, "SH", FALSE), Flock(o1, "SH", TRUE), Range(o1, "getlk", "RDLCK", 0, 0)},
      {Flock(o2, "UN", FALSE), FsClose(o1)})}

\* a descriptor of a select is closed while the call registers
SelectPrograms == {P({Select({f1, f2}, "finite")}, {Close(f1)}, {Write(f2, "zero")})}
=============================================================================
