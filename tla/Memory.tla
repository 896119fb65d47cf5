------------------------------- MODULE Memory -------------------------------
(***************************************************************************)
(* Memory as the threads of processes see it: user accesses, the system    *)
(* calls that change an address space, the scheduler that moves threads on *)
(* and off their CPU, and the kernel's own blocks, which come from the     *)
(* same frames (AddressSpace, PageTables, Tlb, Phymm).                     *)
(***************************************************************************)
EXTENDS AddressSpace

CONSTANTS Programs  \* the spaces of the CPUs, their regions, and what each thread may do

VARIABLES program,  \* the program that runs
          buffers   \* heads of the blocks the kernel has allocated

vars == <<phymmVars, tlbVars, ptVars, spaceVars, program, buffers>>

(* After pf_init: frame 0 is the zero page, the first frame vm_alloc hands  *)
(* out, and the other frames hold what they held before.                    *)
PhymmInit ==
    /\ buddy_lists = [k \in Orders |-> IF k < MAX_BUDDY_ORDER THEN <<2 ^ k>> ELSE <<>>]
    /\ order = [f \in Frames |-> IF \E k \in Orders : f = 2 ^ k
                                 THEN CHOOSE k \in Orders : f = 2 ^ k ELSE 0]
    /\ buddy_free_pages = PHYMM_END - 1
    /\ ref_count = [f \in Frames |-> IF f = zero_page THEN 1 ELSE 0]

Init ==
    /\ program \in Programs
    /\ PhymmInit
    /\ TlbInit([c \in CPUs |-> KernelRoot])
    /\ memory = program.memory
    /\ pt = [m \in Spaces |-> [v \in Pages |-> NoEntry]]
    /\ mm_lock = NoCPU
    /\ pc = [c \in CPUs |-> "user"]
    /\ loc = [c \in CPUs |-> NoCall]
    /\ region = program.region
    /\ mapping_lock = [m \in Spaces |-> NoCPU]
    /\ fault_lock = [k \in FaultLocks |-> NoCPU]
    /\ anon_shared_map = <<>>
    /\ anon_shared_refs =
          [id \in AnonIds |->
              Cardinality({p \in Spaces \X Pages : /\ region[p[1]][p[2]] # NoRegion
                                                   /\ region[p[1]][p[2]].anon = id})]
    /\ content \in [Frames -> Values]
    /\ content[zero_page] = 0
    /\ \A f \in Frames \ {zero_page} : content[f] # 0
    /\ buffers = {}

-----------------------------------------------------------------------------
(* The scheduler takes the thread off its CPU, or puts it back. *)
ps_switch(c) ==
    /\ At(c, "user") /\ memory[c] # NoSpace
    /\ smp_mm_activate(c, IF active_root[c] = KernelRoot THEN memory[c] ELSE KernelRoot)
    /\ UNCHANGED <<phymmVars, ptVars, spaceVars>>

Unused == {m \in Spaces : \A c \in CPUs : memory[c] # m /\ loc[c].space # m}

(* CPUs that no thread and no child under way has. *)
FreeCPUs == Cardinality({d \in CPUs : memory[d] = NoSpace /\ At(d, "user")})
            - Cardinality({d \in CPUs : loc[d].op = "fork"})

(* The calls that change an address space.  An mmap names its page          *)
(* (MAP_FIXED) and replaces what is there.                                  *)
do_mmap_kernel(c, o) ==
    /\ o.op = "mmap"
    /\ StartCall(c, [NoCall EXCEPT !.op = "mmap", !.v = o.v, !.prot = o.prot, !.shared = o.shared])

do_munmap(c, o) == o.op = "munmap" /\ StartCall(c, [NoCall EXCEPT !.op = "munmap", !.v = o.v])

sys_mprotect(c, o) ==
    /\ o.op = "mprotect"
    /\ StartCall(c, [NoCall EXCEPT !.op = "mprotect", !.v = o.v, !.prot = o.prot])

fork(c, o) ==
    /\ o.op = "fork" /\ Unused # {} /\ FreeCPUs > 0
    /\ StartCall(c, [NoCall EXCEPT !.op = "fork", !.space = CHOOSE m \in Unused : TRUE,
                                   !.rest = Pages])

syscall(c, o) ==
    /\ Running(c)
    /\ do_mmap_kernel(c, o) \/ do_munmap(c, o) \/ sys_mprotect(c, o) \/ fork(c, o)
    /\ UNCHANGED tlbVars

(* CLONE_VM: another thread of the same space starts on a free CPU. *)
clone_vm(c) ==
    /\ Running(c)
    /\ \E d \in CPUs :
          /\ memory[d] = NoSpace /\ At(d, "user")
          /\ FreeCPUs > 0
          /\ memory' = [memory EXCEPT ![d] = memory[c]]
    /\ UNCHANGED <<phymmVars, tlbVars, pt, mm_lock, pc, loc, spaceVars>>

(* The kernel's own blocks: vm_alloc references every frame of the block,   *)
(* vm_free drops them and gives the block back with the order kept on it.   *)
vm_alloc(o) ==
    LET b == phymm_alloc_kernel(o) IN
    /\ buddy_take(b, o)
    /\ ref_count' = [f \in Frames |-> IF f \in Block(b.idx, o) THEN ref_count[f] + 1
                                      ELSE ref_count[f]]
    /\ buffers' = buffers \cup {b.idx}
    /\ UNCHANGED <<tlbVars, ptVars, spaceVars>>

vm_free ==
    \E f \in buffers :
        /\ buddy_free_block(f, order[f],
                            [g \in Frames |-> IF g \in Block(f, order[f]) THEN ref_count[g] - 1
                                              ELSE ref_count[g]])
        /\ buffers' = buffers \ {f}
        /\ UNCHANGED <<tlbVars, ptVars, spaceVars>>

-----------------------------------------------------------------------------
User(c) ==
    \E o \in program.ops[c] :
        \/ o.op = "load" /\ (load(c, o.v) \/ pf_process(c, o.v, FALSE))
        \/ o.op = "store" /\ (store(c, o.v, o.val) \/ pf_process(c, o.v, TRUE))
        \/ syscall(c, o)
        \/ o.op = "clone_vm" /\ clone_vm(c)
        \/ o.op = "exit" /\ exit(c)

Kernel(c) ==
    \/ MapSteps(c, program.nomem) /\ UNCHANGED spaceVars
    \/ FaultSteps(c)
    \/ SpaceSteps(c, program.nomem)

Shootdown(c) == poll(c) /\ UNCHANGED spaceVars

Switch(c) == ps_switch(c) /\ (active_root[c] = KernelRoot \/ program.switch)

Buffers ==
    \/ vm_free
    \/ buffers = {} /\ \E o \in program.orders : vm_alloc(o)

Next ==
    \/ /\ \E c \in CPUs : User(c) \/ Kernel(c) \/ Shootdown(c) \/ Switch(c)
       /\ UNCHANGED <<program, buffers>>
    \/ Buffers /\ UNCHANGED program

(* A CPU inside the kernel goes on when it can, and a target of a shootdown *)
(* takes the interrupt or polls.  No lock is handed over in the order of    *)
(* arrival: mapping_lock and the fault locks let a newcomer in first, and a *)
(* spinlock goes to whoever finds it free.  No thread has to do anything in *)
(* user mode.                                                               *)
Fairness ==
    \A c \in CPUs : /\ WF_vars(Kernel(c) /\ UNCHANGED <<program, buffers>>)
                    /\ WF_vars(Shootdown(c) /\ UNCHANGED <<program, buffers>>)

Spec == Init /\ [][Next]_vars /\ Fairness

-----------------------------------------------------------------------------
Live(m) == \E c \in CPUs : memory[c] = m

(* CPU c is in a call on page v of space m, at one of the points S.         *)
Doing(c, m, v, S) == memory[c] = m /\ loc[c].v = v /\ pc[c] \in S

(* The frame behind page v of space m: that of the entry or, while          *)
(* mm_unmap_page waits for its flush, that of the entry it has cleared.     *)
Unmapping(c, m, v) == Doing(c, m, v, {"flush", "acks"}) /\ loc[c].ret = "release"
FramesAt(m, v) ==
    IF pt[m][v] # NoEntry THEN {pt[m][v].frame}
    ELSE {loc[c].old : c \in {d \in CPUs : Unmapping(d, m, v)}}

(* The page is mapped for its first touch and not yet cleared.              *)
Filling(m, v) ==
    \E c \in CPUs : /\ Doing(c, m, v, {"reference", "zero"}) /\ loc[c].fresh
                    /\ pt[m][v] # NoEntry

(* A copy has replaced the frame, and the old translations are not flushed. *)
Replacing(c, m, v) ==
    /\ Doing(c, m, v, {"flush", "acks"})
    /\ loc[c].ret = "reference"

(* Who counts on frame f: entries, the shared cache, kernel blocks, a pin,  *)
(* and the entry a call has cleared or replaced and not yet dropped; less   *)
(* an entry it has written and not yet counted.                             *)
Users(f) ==
      Cardinality({p \in Spaces \X Pages : pt[p[1]][p[2]] # NoEntry /\ pt[p[1]][p[2]].frame = f})
    + Cardinality({k \in DOMAIN anon_shared_map : anon_shared_map[k] = f})
    + Cardinality({b \in buffers : f \in Block(b, order[b])})
    + Cardinality({c \in CPUs : loc[c].old = f /\ pc[c] \in {"copy_alloc", "copy", "unpin",
                                                            "reference", "drop", "release"}})
    + Cardinality({c \in CPUs : loc[c].old = f /\ pc[c] \in {"flush", "acks"}})
    + (IF f = zero_page THEN 1 ELSE 0)

Uncounted(f) == Cardinality({c \in CPUs :
    /\ loc[c].f = f
    /\ \/ pc[c] = "reference"
       \/ pc[c] \in {"flush", "acks"} /\ loc[c].ret = "reference"})

FreeFrames == UNION {UNION {Block(f, k) : f \in Elems(buddy_lists[k])} : k \in Orders}

(* Allocated for a mapping that is not written, or not counted, yet. *)
Claimed(f) == \E c \in CPUs : loc[c].f = f /\ pc[c] \notin {"leave", "unhandled"}

(* Every frame is free in exactly one block, or counted by exactly those    *)
(* that use it: none is freed in use, leaked, or handed out twice; buddies  *)
(* that are both free are one block, and the free count is right.           *)
FramesExact ==
    /\ \A f \in Frames : ref_count[f] + Uncounted(f) = Users(f)
    /\ FreeFrames = {f \in Frames : ref_count[f] = 0 /\ ~Claimed(f)}
    /\ buddy_free_pages = Cardinality(FreeFrames)
    /\ \A k \in Orders : Distinct(buddy_lists[k])
    /\ \A j, k \in Orders : \A a \in Elems(buddy_lists[j]), b \in Elems(buddy_lists[k]) :
          /\ a % 2 ^ j = 0
          /\ <<a, j>> # <<b, k>> => Block(a, j) \cap Block(b, k) = {}
          /\ j = k /\ j < MAX_BUDDY_ORDER => b # BuddyOf(a, j)

(* What an access uses: the frame is the one behind the page, or the one a  *)
(* copy is replacing (still readable); it is never free; and a translation  *)
(* that allows writing is the entry, or one whose flush is under way.       *)
Flushing(m) == \E c \in CPUs : memory[c] = m /\ pc[c] \in {"clone", "flush", "acks"}

NoStaleTranslation ==
    LET free == FreeFrames IN
    \A c \in CPUs, v \in Pages :
        LET m == active_root[c]
            e == tlb[c][v]
        IN  e # NoEntry =>
                /\ m # KernelRoot /\ e.frame \notin free
                /\ \/ e.frame \in FramesAt(m, v)
                   \/ ~e.w /\ \E d \in CPUs : Replacing(d, m, v) /\ loc[d].old = e.frame
                /\ e.w => Flushing(m) \/ pt[m][v] = e

InKernel == {c \in CPUs : pc[c] # "user"}

(* The calls go on: those that are in the kernel are never the same ones    *)
(* for ever.  So nobody waits for ever for mapping_lock, a fault lock,      *)
(* mm_lock or the answers to a shootdown, unless the calls of others end    *)
(* again and again meanwhile and take the lock first.                       *)
CallsEnd == \A S \in SUBSET CPUs \ {{}} : []<>(InKernel # S)

-----------------------------------------------------------------------------
(* What the processes see: a page goes when its translations are flushed    *)
(* (mm_unmap_page), a child comes when it can run, a space goes when its    *)
(* last thread leaves it.                                                   *)
Mapped(m, v) ==
    /\ Live(m) /\ region[m][v] # NoRegion
    /\ ~\E c \in CPUs : Doing(c, m, v, {"release", "remove"})

MapAt(m, v) ==
    IF ~Mapped(m, v) THEN NoRegion
    ELSE IF region[m][v].anon = NoAnon THEN "private" ELSE region[m][v].anon

AbsMaps == [m \in Spaces |-> [v \in Pages |-> MapAt(m, v)]]

(* A page is read-only when mprotect has flushed the writable entry. *)
Narrowing(m, v) == \E c \in CPUs : /\ Doing(c, m, v, {"set_flag", "flush", "acks"})
                                   /\ loc[c].op = "mprotect"

AbsProt ==
    [m \in Spaces |-> [v \in Pages |->
        IF ~Mapped(m, v) THEN "r" ELSE IF Narrowing(m, v) THEN "rw" ELSE region[m][v].prot]]

(* Shared anonymous pages "are mapped read-only; write faults go through    *)
(* pf_handle_permission" (pagefault.c), where the region's permission is    *)
(* checked: so no entry of a shared region that may only be read allows     *)
(* writing.                                                                 *)
SharedMappedReadOnly ==
    \A m \in Spaces, v \in Pages :
        /\ MapAt(m, v) \in AnonIds
        /\ AbsProt[m][v] = "r"
        /\ pt[m][v] # NoEntry
        => ~pt[m][v].w

AbsFilling == {p \in Spaces \X Pages : Mapped(p[1], p[2]) /\ Filling(p[1], p[2])}

(* The frames that hold the page p of the abstract memory, none before its  *)
(* first touch is over.                                                     *)
Holds(m, p) ==
    /\ Mapped(m, p[2]) /\ ~Filling(m, p[2])
    /\ p[1] = IF MapAt(m, p[2]) = "private" THEN m ELSE MapAt(m, p[2])

Holding(p) ==
    UNION {FramesAt(m, p[2]) : m \in {n \in Spaces : Holds(n, p)}}
    \cup {anon_shared_map[k] : k \in {p} \cap DOMAIN anon_shared_map}

AbsMem ==
    [p \in (Spaces \cup AnonIds) \X Pages |->
        LET holding == Holding(p) IN
        IF \/ p[1] \in Spaces /\ MapAt(p[1], p[2]) # "private"
           \/ p[1] \in AnonIds /\ \A m \in Spaces : MapAt(m, p[2]) # p[1]
           \/ holding = {}
        THEN 0 ELSE content[CHOOSE f \in holding : TRUE]]

AbsStale ==
    {<<memory[c], loc[c].v, content[loc[c].old]>> :
        c \in {d \in CPUs : Replacing(d, memory[d], loc[d].v)}}

(* A load uses the translation its CPU has cached, or the page table.       *)
AbsLoads ==
    UNION {{<<active_root[c], v, content[e.frame]>> :
               e \in {tlb[c][v], pt[active_root[c]][v]} \ {NoEntry}} :
           c \in {d \in CPUs : active_root[d] # KernelRoot}, v \in Pages}

Abs == INSTANCE AbsMemory WITH maps <- AbsMaps, prot <- AbsProt, mem <- AbsMem,
                               filling <- AbsFilling, stale <- AbsStale, loads <- AbsLoads,
                               NoMap <- NoRegion

(* Page faults, copy on write, fork, munmap and the shootdowns together     *)
(* give processes the memory of AbsMemory: what a thread can load through   *)
(* any translation of its CPU is what was stored in that page last, or zero *)
(* if nothing was, and no store reaches a page that may not be written.     *)
ImplementsAbsMemory == Abs!Init /\ [][Abs!Next]_(Abs!vars)
=============================================================================
