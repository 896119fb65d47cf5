------------------------------ MODULE MCMemory ------------------------------
(***************************************************************************)
(* Instance: three CPUs, two address spaces, four frames of which one is   *)
(* the zero page.  The programs cover the ways the parts meet.             *)
(***************************************************************************)
EXTENDS Memory, TLC

CONSTANTS c1, c2, c3, A, B, k1, k2, k3, i1

MCCPUs == {c1, c2, c3}
MCSpaces == {A, B}
MCFaultLocks == {k1, k2, k3}
MCAnonIds == {i1}

Ld(v) == [op |-> "load", v |-> v]
St(v, x) == [op |-> "store", v |-> v, val |-> x]
Fork == [op |-> "fork"]
Exit == [op |-> "exit"]
Clone == [op |-> "clone_vm"]
Mmap(v, prot, shared) == [op |-> "mmap", v |-> v, prot |-> prot, shared |-> shared]
Munmap(v) == [op |-> "munmap", v |-> v]
Mprotect(v, prot) == [op |-> "mprotect", v |-> v, prot |-> prot]

Private == Region(NoAnon, "rw", k1)
ReadOnly == Region(NoAnon, "r", k1)
Shared == Region(i1, "rw", k1)

Prog(threads, r1, r2, o1, o2, o3) ==
    [memory |-> [c \in MCCPUs |-> IF c \in threads THEN A ELSE NoSpace],
     region |-> (A :> (1 :> r1 @@ 2 :> r2) @@ B :> (1 :> NoRegion @@ 2 :> NoRegion)),
     ops |-> (c1 :> o1 @@ c2 :> o2 @@ c3 :> o3),
     nomem |-> FALSE, switch |-> FALSE, orders |-> {}]

(* Copy on write between parent and child, with a second parent thread.     *)
CopyOnWrite ==
    Prog({c1, c2}, Private, NoRegion, {Fork, St(1, 1)}, {Ld(1)}, {St(1, 0), Exit})

(* Three threads and a page that is replaced by a copy under them.          *)
Threads ==
    Prog({c1, c2, c3}, ReadOnly, NoRegion,
         {Ld(1), Mprotect(1, "rw"), St(1, 1)}, {Ld(1), St(1, 1)}, {Ld(1), Mprotect(1, "r")})

(* A shared page, touched first by either side of a fork, and unmapped.     *)
SharedPage ==
    Prog({c1, c2}, Shared, NoRegion, {Fork, St(1, 1)}, {Ld(1), Munmap(1)}, {St(1, 0), Exit})

(* Mappings come and go under a second thread, which is also switched out.  *)
Remapping ==
    [Prog({c1}, Private, NoRegion,
          {Clone, Munmap(1), Mmap(1, "rw", FALSE), Mmap(1, "rw", TRUE), Exit},
          {Ld(1), St(1, 1), Exit}, {Exit})
     EXCEPT !.switch = TRUE]

(* Two pages, and a fork that fails for want of a page table.               *)
FailedFork ==
    [Prog({c1}, Private, [Shared EXCEPT !.lock = k2],
          {Ld(1), St(2, 1), Fork}, {Exit}, {}) EXCEPT !.nomem = TRUE]

(* The kernel takes blocks of two sizes, so that frames run out and blocks  *)
(* merge next to frames that are being mapped.                              *)
Shortage ==
    [Prog({c1}, Private, [ReadOnly EXCEPT !.lock = k2],
          {St(1, 1), Ld(2), Mprotect(2, "rw"), St(2, 1), Exit}, {}, {})
     EXCEPT !.orders = {0, 1}]

(* A shared region that may only be read. *)
SharedReadOnly ==
    Prog({c1, c2}, [Shared EXCEPT !.prot = "r"], NoRegion, {Ld(1)}, {Ld(1), St(1, 1)}, {})

ReadOnlyPrograms == {SharedReadOnly}
MCPrograms == {CopyOnWrite, Threads, SharedPage, Remapping, FailedFork, Shortage}
=============================================================================
