---------------------------- MODULE AddressSpace ----------------------------
(***************************************************************************)
(* Anonymous memory of processes (src/mm/impl: mmap.c, pagefault.c,        *)
(* cache.c; src/ps/impl: ps_fork.c, ps_context.c): regions, page faults,   *)
(* copy on write, shared anonymous pages, mmap, munmap, mprotect, fork and *)
(* the end of an address space.                                            *)
(*                                                                         *)
(* A region is one page.  A call takes mapping_lock of its space, then the *)
(* fault lock of the region, which the region's clones in other spaces     *)
(* share.  Files, stack growth and mremap are not modelled.                *)
(***************************************************************************)
EXTENDS PageTables

CONSTANTS Values,     \* what a page can hold: 0 and others
          FaultLocks, \* identities of fault locks
          AnonIds,    \* ids of shared anonymous regions
          NoRegion, NoAnon

VARIABLES region,           \* per space and page
          mapping_lock,     \* per space: the CPU that holds it
          fault_lock,       \* per fault lock: the CPU that holds it
          anon_shared_map,  \* frames of shared anonymous pages, by id and page
          anon_shared_refs, \* per id: regions that use it
          content           \* per frame: what it holds

regionVars == <<region, mapping_lock, fault_lock, anon_shared_map, anon_shared_refs>>
spaceVars == <<regionVars, content>>

ASSUME ValuesAssumption == 0 \in Values /\ Pages \subseteq Nat /\ 0 \notin Pages

zero_page == 0
NoPage(id, v) == <<id, v>> \notin DOMAIN anon_shared_map

Region(anon, prot, lk) == [anon |-> anon, prot |-> prot, lock |-> lk]
RegionAt(c) == region[memory[c]][loc[c].v]
Regions == {region[m][v] : m \in Spaces, v \in Pages} \ {NoRegion}

-----------------------------------------------------------------------------
(* Shared anonymous pages (cache.c). *)

mm_anon_shared_add(c) ==
    LET key == <<RegionAt(c).anon, loc[c].v>>
    IN  IF key \in DOMAIN anon_shared_map
        THEN UNCHANGED <<anon_shared_map, phymmVars>>
        ELSE /\ anon_shared_map' = [k \in DOMAIN anon_shared_map \cup {key} |->
                                       IF k = key THEN loc[c].f ELSE anon_shared_map[k]]
             /\ phymm_reference_page(loc[c].f)

mm_anon_shared_get(id) ==
    anon_shared_refs' = IF id = NoAnon THEN anon_shared_refs
                        ELSE [anon_shared_refs EXCEPT ![id] = @ + 1]

(* The last region gone, the pages of the id leave the cache.  The regions  *)
(* here have one page, so an id has at most one page in the cache.          *)
mm_anon_shared_put(id, v) ==
    IF id = NoAnon THEN UNCHANGED <<anon_shared_refs, anon_shared_map, phymmVars>>
    ELSE /\ anon_shared_refs' = [anon_shared_refs EXCEPT ![id] = @ - 1]
         /\ IF anon_shared_refs[id] = 1 /\ ~NoPage(id, v)
            THEN /\ anon_shared_map' = [k \in DOMAIN anon_shared_map \ {<<id, v>>} |->
                                           anon_shared_map[k]]
                 /\ phymm_dereference_page(anon_shared_map[<<id, v>>])
            ELSE UNCHANGED <<anon_shared_map, phymmVars>>

-----------------------------------------------------------------------------
(* Entry and exit of every call: mapping_lock, then the region's lock.      *)
enter(c) ==
    LET m == memory[c] IN
    /\ At(c, "enter") /\ mapping_lock[m] = NoCPU
    /\ mapping_lock' = [mapping_lock EXCEPT ![m] = c]
    /\ Goto(c, CASE loc[c].op = "fork" -> "clone"
                 [] loc[c].op = "munmap" -> IF RegionAt(c) = NoRegion THEN "leave" ELSE "unmap"
                 [] loc[c].op = "mmap" -> IF RegionAt(c) = NoRegion THEN "insert" ELSE "region"
                 [] loc[c].op = "mprotect" -> IF RegionAt(c) = NoRegion THEN "leave" ELSE "region"
                 [] OTHER -> IF RegionAt(c) = NoRegion THEN "unhandled" ELSE "region")
    /\ UNCHANGED <<phymmVars, tlbVars, memory, pt, mm_lock, loc, region, fault_lock,
                   anon_shared_map, anon_shared_refs, content>>

(* A fault that could not be handled goes on with its signal. *)
leave(c) ==
    /\ pc[c] \in {"leave", "unhandled"}
    /\ mapping_lock' = [mapping_lock EXCEPT ![memory[c]] = NoCPU]
    /\ fault_lock' = [k \in FaultLocks |-> IF fault_lock[k] = c THEN NoCPU ELSE fault_lock[k]]
    /\ Become(c, NoCall, IF At(c, "leave") THEN "user" ELSE "sigsegv")
    /\ UNCHANGED <<phymmVars, tlbVars, memory, pt, mm_lock, region, anon_shared_map,
                   anon_shared_refs, content>>

(* What to map for the first touch: the shared page if it is there, the     *)
(* zero page for a private page that is not to be written, or a new frame.  *)
pf_handle_invalid_memory(c) ==
    LET r == RegionAt(c)
        hit == r.anon # NoAnon /\ ~NoPage(r.anon, loc[c].v)
        map(f) == Become(c, [loc[c] EXCEPT !.f = f, !.w = FALSE], "install")
    IN  IF hit THEN map(anon_shared_map[<<r.anon, loc[c].v>>])
        ELSE IF r.anon = NoAnon /\ r.prot = "r" THEN map(zero_page)
        ELSE Become(c, [loc[c] EXCEPT !.w = TRUE, !.fresh = TRUE], "alloc")

(* A fault on an absent page: unhandled if the access is not allowed, and   *)
(* over if the page has come meanwhile.                                     *)
pf_handle_page_invalid(c) ==
    IF loc[c].w /\ RegionAt(c).prot = "r" THEN Goto(c, "unhandled") /\ UNCHANGED loc
    ELSE IF Here(c) # NoEntry THEN Goto(c, "leave") /\ UNCHANGED loc
    ELSE pf_handle_invalid_memory(c)

(* A write to a page that is mapped read-only: a private page that others   *)
(* use is copied, any other is made writable.                               *)
do_wp_page(c) ==
    LET r == RegionAt(c) IN
    IF r.prot = "r" \/ Here(c) = NoEntry THEN Goto(c, "unhandled") /\ UNCHANGED loc
    ELSE IF Here(c).w THEN Goto(c, "leave") /\ UNCHANGED loc
    ELSE IF r.anon = NoAnon /\ phymm_is_cow(Here(c).frame)
    THEN Become(c, [loc[c] EXCEPT !.w = TRUE, !.old = Here(c).frame], "pin")
    ELSE Become(c, [loc[c] EXCEPT !.w = TRUE], "set_flag")

(* The region changes under the fault lock, which is free again before the  *)
(* entry is narrowed; a wider entry waits for the write fault.              *)
vm_mprotect(c) ==
    /\ region' = [region EXCEPT ![memory[c]][loc[c].v].prot = loc[c].prot]
    /\ Become(c, [loc[c] EXCEPT !.w = Here(c) # NoEntry /\ Here(c).w /\ loc[c].prot = "rw"],
              "set_flag")
    /\ UNCHANGED fault_lock

(* The fault lock is taken. *)
vm_region_lock_fault(c) ==
    LET lk == RegionAt(c).lock
        take == fault_lock' = [fault_lock EXCEPT ![lk] = c] /\ UNCHANGED region
    IN  /\ At(c, "region") /\ fault_lock[lk] = NoCPU
        /\ CASE loc[c].op = "mprotect" -> vm_mprotect(c)
             [] loc[c].op = "invalid" -> take /\ pf_handle_page_invalid(c)
             [] loc[c].op = "wp" -> take /\ do_wp_page(c)
             [] loc[c].op = "mmap" -> take /\ Goto(c, "unmap") /\ UNCHANGED loc
        /\ UNCHANGED <<phymmVars, tlbVars, memory, pt, mm_lock, mapping_lock, anon_shared_map,
                       anon_shared_refs, content>>

-----------------------------------------------------------------------------
(* First touch: allocate, map (install, reference), clear, and for a shared *)
(* region register the page.                                                *)
alloc(c) ==
    /\ At(c, "alloc")
    /\ IF phymm_alloc_user = NoBlock
       THEN Goto(c, "unhandled") /\ UNCHANGED <<loc, phymmVars>>
       ELSE /\ buddy_take(phymm_alloc_user, 0)
            /\ Become(c, [loc[c] EXCEPT !.f = phymm_alloc_user.idx], "install")
            /\ UNCHANGED ref_count
    /\ UNCHANGED <<tlbVars, memory, pt, mm_lock, spaceVars>>

(* The page is cleared through its mapping, which is in place by then. *)
zero(c) ==
    /\ At(c, "zero")
    /\ content' = [content EXCEPT ![loc[c].f] = 0]
    /\ Goto(c, IF RegionAt(c).anon = NoAnon THEN "leave" ELSE "register")
    /\ UNCHANGED <<phymmVars, tlbVars, memory, pt, mm_lock, loc, regionVars>>

register(c) ==
    /\ At(c, "register")
    /\ mm_anon_shared_add(c)
    /\ Goto(c, "leave")
    /\ UNCHANGED <<tlbVars, memory, pt, mm_lock, loc, region, mapping_lock, fault_lock,
                   anon_shared_refs, content>>

(* wp_page_copy: the old frame is pinned while a new one is found and       *)
(* filled; the new one replaces it in the entry, and the old one loses the  *)
(* reference of the entry.                                                  *)
pin(c) ==
    /\ At(c, "pin")
    /\ phymm_reference_page(loc[c].old)
    /\ Goto(c, "copy_alloc")
    /\ UNCHANGED <<tlbVars, memory, pt, mm_lock, loc, spaceVars>>

copy_alloc(c) ==
    /\ At(c, "copy_alloc")
    /\ IF phymm_alloc_user = NoBlock
       THEN Goto(c, "unpin") /\ UNCHANGED <<loc, phymmVars>>
       ELSE /\ buddy_take(phymm_alloc_user, 0)
            /\ Become(c, [loc[c] EXCEPT !.f = phymm_alloc_user.idx], "copy")
            /\ UNCHANGED ref_count
    /\ UNCHANGED <<tlbVars, memory, pt, mm_lock, spaceVars>>

mm_copy_phys_page(c) ==
    /\ At(c, "copy")
    /\ content' = [content EXCEPT ![loc[c].f] = content[loc[c].old]]
    /\ Goto(c, "unpin")
    /\ UNCHANGED <<phymmVars, tlbVars, memory, pt, mm_lock, loc, regionVars>>

unpin(c) ==
    /\ At(c, "unpin")
    /\ phymm_dereference_page(loc[c].old)
    /\ Goto(c, IF loc[c].f = NoFrame THEN "unhandled" ELSE "install")
    /\ UNCHANGED <<tlbVars, memory, pt, mm_lock, loc, spaceVars>>

drop(c) ==
    /\ At(c, "drop")
    /\ phymm_dereference_page(loc[c].old)
    /\ Goto(c, "leave")
    /\ UNCHANGED <<tlbVars, memory, pt, mm_lock, loc, spaceVars>>

FaultSteps(c) ==
    \/ enter(c) \/ leave(c) \/ vm_region_lock_fault(c) \/ alloc(c) \/ zero(c) \/ register(c)
    \/ pin(c) \/ copy_alloc(c) \/ mm_copy_phys_page(c) \/ unpin(c) \/ drop(c)

-----------------------------------------------------------------------------
(* The region leaves the tree, for munmap under its fault lock and for mmap *)
(* with the lock it has held since before the pages went.                   *)
vm_tree_remove(c) ==
    LET r == RegionAt(c) IN
    /\ At(c, "remove") /\ fault_lock[r.lock] \in {NoCPU, c}
    /\ region' = [region EXCEPT ![memory[c]][loc[c].v] = NoRegion]
    /\ mm_anon_shared_put(r.anon, loc[c].v)
    /\ fault_lock' = [fault_lock EXCEPT ![r.lock] = NoCPU]
    /\ Goto(c, IF loc[c].op = "mmap" THEN "insert" ELSE "leave")
    /\ UNCHANGED <<tlbVars, memory, pt, mm_lock, loc, mapping_lock, content>>

(* A new region has a fault lock of its own and, if shared, an id that no   *)
(* region has: g_anon_id_next does not wrap.                                *)
vm_tree_insert(c) ==
    LET id == IF loc[c].shared THEN CHOOSE i \in AnonIds : anon_shared_refs[i] = 0 ELSE NoAnon
        lk == CHOOSE k \in FaultLocks : \A r \in Regions : r.lock # k
    IN  /\ At(c, "insert")
        /\ region' = [region EXCEPT ![memory[c]][loc[c].v] = Region(id, loc[c].prot, lk)]
        /\ mm_anon_shared_get(id)
        /\ Goto(c, "leave")
        /\ UNCHANGED <<phymmVars, tlbVars, memory, pt, mm_lock, loc, mapping_lock, fault_lock,
                       anon_shared_map, content>>

-----------------------------------------------------------------------------
(* fork: region by region the child gets a clone and, under mm_lock, the    *)
(* entry; a private page becomes read-only on both sides.  A table that     *)
(* cannot be had ends the walk.                                             *)
Child(c) == loc[c].space

(* Mutant: the parent keeps its writable entry. *)
ParentWrites(e, r) == e

ParentEntry(e, r) == IF r.anon = NoAnon THEN [e EXCEPT !.w = FALSE] ELSE e

copy_vma_callback(c, nomem) ==
    LET v == Min(loc[c].rest)
        r == region[memory[c]][v]
        e == pt[memory[c]][v]
        go(rest, ok) == Become(c, [loc[c] EXCEPT !.rest = rest, !.ok = ok], "clone")
    IN  /\ At(c, "clone") /\ loc[c].rest # {} /\ mm_lock = NoCPU
        /\ IF r = NoRegion
           THEN UNCHANGED <<region, anon_shared_refs>>
           ELSE /\ region' = [region EXCEPT ![Child(c)][v] = r]
                /\ mm_anon_shared_get(r.anon)
        /\ \/ /\ e = NoEntry
              /\ go(loc[c].rest \ {v}, TRUE)
              /\ UNCHANGED <<pt, phymmVars>>
           \/ /\ e # NoEntry
              /\ pt' = [pt EXCEPT ![memory[c]][v] = ParentEntry(e, r),
                                  ![Child(c)][v] = [e EXCEPT !.w = @ /\ r.anon # NoAnon]]
              /\ phymm_reference_page(e.frame)
              /\ go(loc[c].rest \ {v}, TRUE)
           \/ /\ nomem /\ e # NoEntry
              /\ go({}, FALSE)
              /\ UNCHANGED <<pt, phymmVars>>
        /\ UNCHANGED <<tlbVars, memory, mm_lock, mapping_lock, fault_lock, anon_shared_map,
                       content>>

(* All cloned, the parent's stale translations are flushed. *)
copy_page_range(c) ==
    /\ At(c, "clone") /\ loc[c].rest = {}
    /\ Become(c, [loc[c] EXCEPT !.ret = "forked"], "flush")
    /\ UNCHANGED <<phymmVars, tlbVars, memory, pt, mm_lock, spaceVars>>

(* The child starts on CPU d; a clone that failed is taken down again.      *)
forked(c) ==
    /\ At(c, "forked")
    /\ mapping_lock' = [mapping_lock EXCEPT ![memory[c]] = NoCPU]
    /\ IF loc[c].ok
       THEN \E d \in CPUs :
               /\ memory[d] = NoSpace /\ At(d, "user")
               /\ memory' = [memory EXCEPT ![d] = Child(c)]
               /\ Become(c, NoCall, "user")
       ELSE /\ Become(c, [NoCall EXCEPT !.space = Child(c)], "destroy")
            /\ UNCHANGED memory
    /\ UNCHANGED <<phymmVars, tlbVars, pt, mm_lock, region, fault_lock, anon_shared_map,
                   anon_shared_refs, content>>

-----------------------------------------------------------------------------
(* The last thread of a space leaves: its CPU is on another root by then,   *)
(* so nothing is flushed (release_mm: mm_destroy_user_map, then             *)
(* vm_tree_destroy).                                                        *)
mm_destroy_user_map(c) ==
    LET m == loc[c].space
        mapped == {v \in Pages : pt[m][v] # NoEntry}
    IN  /\ At(c, "destroy") /\ mm_lock \in {NoCPU, c}
        /\ IF mapped = {}
           THEN /\ mm_lock' = NoCPU
                /\ Goto(c, "destroy_regions")
                /\ UNCHANGED <<pt, phymmVars>>
           ELSE /\ mm_lock' = c
                /\ pt' = [pt EXCEPT ![m][Min(mapped)] = NoEntry]
                /\ phymm_dereference_page(pt[m][Min(mapped)].frame)
                /\ UNCHANGED pc
        /\ UNCHANGED <<tlbVars, memory, loc, spaceVars>>

vm_tree_destroy(c) ==
    LET m == loc[c].space
        left == {v \in Pages : region[m][v] # NoRegion}
    IN  /\ At(c, "destroy_regions")
        /\ IF left = {}
           THEN /\ Become(c, NoCall, "user")
                /\ UNCHANGED <<region, anon_shared_refs, anon_shared_map, phymmVars>>
           ELSE /\ region' = [region EXCEPT ![m][Min(left)] = NoRegion]
                /\ mm_anon_shared_put(region[m][Min(left)].anon, Min(left))
                /\ UNCHANGED <<pc, loc>>
        /\ UNCHANGED <<tlbVars, memory, pt, mm_lock, mapping_lock, fault_lock, content>>

(* The thread ends, or leaves the space for that of a new program. *)
LeaveSpace(c) ==
    LET m == memory[c]
        last == \A d \in CPUs \ {c} : memory[d] # m
    IN  /\ smp_mm_activate(c, KernelRoot)
        /\ memory' = [memory EXCEPT ![c] = NoSpace]
        /\ IF last THEN Become(c, [NoCall EXCEPT !.space = m], "destroy") ELSE Become(c, NoCall, "user")
        /\ UNCHANGED <<phymmVars, pt, mm_lock, spaceVars>>

exit(c) == At(c, "user") /\ memory[c] # NoSpace /\ LeaveSpace(c)

(* SIGSEGV: the program's handler runs, or the thread ends with its group,  *)
(* whose other threads end by exits of their own.                           *)
ps_fault_signal(c) ==
    /\ At(c, "sigsegv")
    /\ \/ /\ Goto(c, "user")
          /\ UNCHANGED <<phymmVars, tlbVars, memory, pt, mm_lock, loc, spaceVars>>
       \/ LeaveSpace(c)

SpaceSteps(c, nomem) ==
    \/ vm_tree_remove(c) \/ vm_tree_insert(c) \/ copy_vma_callback(c, nomem)
    \/ copy_page_range(c) \/ forked(c) \/ mm_destroy_user_map(c) \/ vm_tree_destroy(c)
    \/ ps_fault_signal(c)

-----------------------------------------------------------------------------
(* The thread in user mode.  An access uses the translation its CPU has     *)
(* cached, or the one in the page table, which it then caches.              *)
Running(c) == At(c, "user") /\ memory[c] # NoSpace /\ active_root[c] = memory[c]

Cached(c, v, e) == tlb' = [tlb EXCEPT ![c][v] = e]
Translations(c, v) == {tlb[c][v], pt[memory[c]][v]} \ {NoEntry}

StartCall(c, l) == /\ Become(c, l, "enter")
                   /\ UNCHANGED <<phymmVars, memory, pt, mm_lock, spaceVars>>

load(c, v) ==
    /\ Running(c)
    /\ pt[memory[c]][v] \notin {NoEntry, tlb[c][v]}
    /\ Cached(c, v, pt[memory[c]][v])
    /\ UNCHANGED <<phymmVars, ptVars, spaceVars, active_root, tlb_lock, tlb_root, tlb_pending>>

store(c, v, x) ==
    /\ Running(c)
    /\ \E e \in Translations(c, v) :
          /\ e.w
          /\ content' = [content EXCEPT ![e.frame] = x]
          /\ Cached(c, v, e)
    /\ UNCHANGED <<phymmVars, ptVars, regionVars, active_root, tlb_lock, tlb_root, tlb_pending>>

(* pf_process: an access that finds no translation, or a store that finds a *)
(* read-only one; the CPU drops a translation that failed.                  *)
pf_process(c, v, write) ==
    /\ Running(c)
    /\ \/ /\ Translations(c, v) = {}
          /\ StartCall(c, [NoCall EXCEPT !.op = "invalid", !.v = v, !.w = write])
       \/ /\ write /\ \E e \in Translations(c, v) : ~e.w
          /\ StartCall(c, [NoCall EXCEPT !.op = "wp", !.v = v])
    /\ Cached(c, v, NoEntry)
    /\ UNCHANGED <<active_root, tlb_lock, tlb_root, tlb_pending>>
=============================================================================
