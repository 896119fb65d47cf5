----------------------------- MODULE PageTables -----------------------------
(***************************************************************************)
(* The page tables of the address spaces (arch/x64/mm/impl/mm.c): every    *)
(* entry is written under mm_lock, and mm_lock is kept over the shootdown  *)
(* that a replaced, narrowed or cleared entry needs.                       *)
(*                                                                         *)
(* A call runs on the CPU that makes it: pc says where it is, loc holds    *)
(* its locals.  A step is one section under a spinlock, one atomic change  *)
(* of a count, or one pass over the memory of a page.  Pages that hold the *)
(* tables themselves are not modelled; that one cannot be had is.          *)
(***************************************************************************)
EXTENDS Phymm, Tlb

CONSTANTS NoSpace,  \* the CPU has no thread
          NoFrame

VARIABLES memory,   \* per CPU: the address space of its thread
          pt,       \* per space and page: NoEntry, or a frame and whether it may be written
          mm_lock,
          pc, loc   \* per CPU: the point the call is at, and its locals

ptVars == <<memory, pt, mm_lock, pc, loc>>

Entry(f, w) == [frame |-> f, w |-> w]

(* v: the page.  f, w: what to map there.  fresh: f was allocated for it.   *)
(* old: the frame that leaves.  ret: where a flush goes on.  prot, shared:  *)
(* the region asked for.  space: one being made or taken down; rest: its    *)
(* pages still to clone; ok: no clone has failed.                           *)
NoCall == [op |-> "none", v |-> 0, f |-> NoFrame, w |-> FALSE, fresh |-> FALSE,
           old |-> NoFrame, ret |-> "user", prot |-> "rw", shared |-> FALSE,
           space |-> NoSpace, rest |-> {}, ok |-> TRUE]

At(c, here) == pc[c] = here
Goto(c, there) == pc' = [pc EXCEPT ![c] = there]
Become(c, l, there) == loc' = [loc EXCEPT ![c] = l] /\ Goto(c, there)

Here(c) == pt[memory[c]][loc[c].v]
Write(c, e) == pt' = [pt EXCEPT ![memory[c]][loc[c].v] = e]

(* The entry is written with mm_lock held and kept until the flush is done. *)
WriteAndFlush(c, e, l, ret) ==
    /\ Write(c, e)
    /\ mm_lock' = c
    /\ Become(c, [l EXCEPT !.ret = ret], "flush")

(* mm_map_page_io with install: an entry that was absent needs no flush.    *)
(* nomem: no page is left for a missing table.                              *)
install(c, nomem) ==
    /\ At(c, "install") /\ mm_lock = NoCPU
    /\ \/ /\ Here(c) = NoEntry
          /\ Write(c, Entry(loc[c].f, loc[c].w))
          /\ Goto(c, "reference")
          /\ UNCHANGED <<mm_lock, loc>>
       \/ /\ Here(c) # NoEntry
          /\ WriteAndFlush(c, Entry(loc[c].f, loc[c].w), loc[c], "reference")
       \/ /\ nomem /\ Here(c) = NoEntry
          /\ Goto(c, IF loc[c].fresh THEN "unwind" ELSE "unhandled")
          /\ UNCHANGED <<pt, mm_lock, loc>>
    /\ UNCHANGED <<phymmVars, tlbVars, memory>>

(* mm_set_map_flag: a flush only if the entry changes. *)
mm_set_map_flag(c) ==
    /\ At(c, "set_flag") /\ mm_lock = NoCPU
    /\ IF Here(c) # NoEntry /\ Here(c).w # loc[c].w
       THEN WriteAndFlush(c, [Here(c) EXCEPT !.w = loc[c].w], loc[c], "leave")
       ELSE Goto(c, "leave") /\ UNCHANGED <<pt, mm_lock, loc>>
    /\ UNCHANGED <<phymmVars, tlbVars, memory>>

(* mm_unmap_page, up to the release of the frame. *)
mm_unmap_page(c) ==
    /\ At(c, "unmap") /\ mm_lock = NoCPU
    /\ IF Here(c) # NoEntry
       THEN WriteAndFlush(c, NoEntry, [loc[c] EXCEPT !.old = Here(c).frame], "release")
       ELSE Goto(c, "remove") /\ UNCHANGED <<pt, mm_lock, loc>>
    /\ UNCHANGED <<phymmVars, tlbVars, memory>>

release(c) ==
    /\ At(c, "release")
    /\ phymm_dereference_page(loc[c].old)
    /\ mm_lock' = NoCPU
    /\ Goto(c, "remove")
    /\ UNCHANGED <<tlbVars, memory, pt, loc>>

(* The flush over, the caller goes on; mm_unmap_page still holds mm_lock.   *)
Resume(c) ==
    /\ Goto(c, loc[c].ret)
    /\ mm_lock' = IF mm_lock = c /\ loc[c].ret # "release" THEN NoCPU ELSE mm_lock

smp_tlb_flush_user(c) ==
    /\ At(c, "flush")
    /\ tlb_flush(c, memory[c])
    /\ IF tlb_lock' = NoCPU THEN Resume(c) ELSE Goto(c, "acks") /\ UNCHANGED mm_lock
    /\ UNCHANGED <<phymmVars, memory, pt, loc>>

smp_tlb_flushed(c) ==
    /\ At(c, "acks")
    /\ tlb_flushed(c)
    /\ Resume(c)
    /\ UNCHANGED <<phymmVars, memory, pt, loc>>

(* Mutant: a CPU that spins on a lock with interrupts off does not poll.    *)
PollInUser(c) == pc[c] = "user" /\ smp_tlb_poll(c) /\ UNCHANGED <<phymmVars, ptVars>>

(* A CPU in user mode answers from the interrupt, one that spins on a       *)
(* spinlock polls.                                                          *)
poll(c) == smp_tlb_poll(c) /\ UNCHANGED <<phymmVars, ptVars>>

(* mm_map_page ends by counting the new mapping. *)
reference(c) ==
    /\ At(c, "reference")
    /\ phymm_reference_page(loc[c].f)
    /\ Goto(c, IF loc[c].old # NoFrame THEN "drop" ELSE IF loc[c].fresh THEN "zero" ELSE "leave")
    /\ UNCHANGED <<tlbVars, memory, pt, mm_lock, loc>>

(* The frame that found no place is freed; nothing counts it yet. *)
phymm_free_user(c) ==
    /\ At(c, "unwind")
    /\ buddy_free_block(loc[c].f, 0, ref_count)
    /\ Goto(c, "unhandled")
    /\ UNCHANGED <<tlbVars, memory, pt, mm_lock, loc>>

MapSteps(c, nomem) ==
    \/ install(c, nomem) \/ mm_set_map_flag(c) \/ mm_unmap_page(c) \/ release(c)
    \/ smp_tlb_flush_user(c) \/ smp_tlb_flushed(c) \/ reference(c) \/ phymm_free_user(c)
=============================================================================
