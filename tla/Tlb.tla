-------------------------------- MODULE Tlb --------------------------------
(***************************************************************************)
(* Translation caches and their shootdown (arch/x64/ps/impl/smp.c).        *)
(*                                                                         *)
(* A CPU caches translations of the address space whose root it runs on.   *)
(* A CPU that has changed an entry asks every CPU on that root to flush    *)
(* and waits until each has acknowledged; one request is under way at a    *)
(* time.  The generations the code compares are kept as the set of CPUs    *)
(* that have not yet acknowledged the current one: a CPU that is no target *)
(* catches up with the generation later, on a cache that cannot hold what  *)
(* the request was about.                                                  *)
(***************************************************************************)
EXTENDS Naturals

CONSTANTS CPUs,        \* each runs one thread at a time
          Spaces,      \* address spaces, named by their page-table root
          Pages,       \* user page addresses
          KernelRoot,  \* the root a CPU is on when it runs no user thread
          NoEntry,     \* no translation
          NoCPU        \* nobody holds the lock

VARIABLES active_root,  \* per CPU: its root
          tlb,          \* per CPU and page: the cached translation
          tlb_lock,     \* the CPU whose request is under way
          tlb_root,     \* the root the request is about
          tlb_pending   \* targets that have not acknowledged it

tlbVars == <<active_root, tlb, tlb_lock, tlb_root, tlb_pending>>

Flushed == [v \in Pages |-> NoEntry]

TlbInit(root) ==
    /\ active_root = root
    /\ tlb = [c \in CPUs |-> Flushed]
    /\ tlb_lock = NoCPU
    /\ tlb_root = KernelRoot
    /\ tlb_pending = {}

(* The CPU moves to another root, which empties its cache.  It does so      *)
(* holding tlb_lock, so never while a request is under way.                 *)
smp_mm_activate(c, root) ==
    /\ tlb_lock = NoCPU
    /\ active_root' = [active_root EXCEPT ![c] = root]
    /\ tlb' = [tlb EXCEPT ![c] = Flushed]
    /\ UNCHANGED <<tlb_lock, tlb_root, tlb_pending>>

(* Mutant: the CPUs on the root are asked, and their answer not awaited.    *)
FlushUnawaited(c, root) ==
    /\ tlb_lock = NoCPU
    /\ tlb' = IF active_root[c] = root THEN [tlb EXCEPT ![c] = Flushed] ELSE tlb
    /\ tlb_root' = root
    /\ tlb_pending' = {}
    /\ UNCHANGED <<tlb_lock, active_root>>

(* CPU c flushes its own cache, picks the targets and publishes the         *)
(* request; with no target it is complete at once.                          *)
tlb_flush(c, root) ==
    LET targets == {i \in CPUs \ {c} : active_root[i] = root}
    IN  /\ tlb_lock = NoCPU
        /\ tlb' = IF active_root[c] = root THEN [tlb EXCEPT ![c] = Flushed] ELSE tlb
        /\ tlb_root' = root
        /\ tlb_pending' = targets
        /\ tlb_lock' = IF targets = {} THEN NoCPU ELSE c
        /\ UNCHANGED active_root

(* Every target has answered. *)
tlb_flushed(c) ==
    /\ tlb_lock = c
    /\ tlb_pending = {}
    /\ tlb_lock' = NoCPU
    /\ UNCHANGED <<active_root, tlb, tlb_root, tlb_pending>>

(* A target answers from its interrupt handler or while it spins on a lock. *)
smp_tlb_poll(c) ==
    /\ c \in tlb_pending
    /\ tlb' = IF active_root[c] = tlb_root THEN [tlb EXCEPT ![c] = Flushed] ELSE tlb
    /\ tlb_pending' = tlb_pending \ {c}
    /\ UNCHANGED <<active_root, tlb_lock, tlb_root>>
=============================================================================
