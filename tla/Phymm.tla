------------------------------- MODULE Phymm -------------------------------
(***************************************************************************)
(* Physical page frames (src/mm/impl/phymm.c): the buddy allocator and the *)
(* reference counts that page tables, caches and kernel buffers share.     *)
(*                                                                         *)
(* A frame is its page index; phymm_begin is 0, phymm_end is PHYMM_END.    *)
(* The allocator splits a block in a loop and merges blocks in a loop;     *)
(* both are written here as what the loop leaves behind.                   *)
(***************************************************************************)
EXTENDS KList, FiniteSetsExt

CONSTANTS PHYMM_END,          \* the number of frames
          MAX_BUDDY_ORDER,    \* the largest block has 2^MAX_BUDDY_ORDER frames
          PREFERRED_BASE,     \* where kernel blocks are looked for first
          KERNEL_LIMIT,       \* kernel blocks end here (phymm_kernel_page_limit)
          HIGH_BASE           \* user frames are looked for first from here on

VARIABLES buddy_lists,        \* per order: the heads of the free blocks
          order,              \* per frame: the order written to it last
          buddy_free_pages,   \* how many frames are free
          ref_count           \* per frame: its references

phymmVars == <<buddy_lists, order, buddy_free_pages, ref_count>>

Frames == 0..(PHYMM_END - 1)
Orders == 0..MAX_BUDDY_ORDER
PHYMM_INVALID == PHYMM_END
PHYMM_ORDER_NONE == MAX_BUDDY_ORDER + 1

(* The frames of the block of order o that starts at i. *)
Block(i, o) == i..(i + 2 ^ o - 1)

(* What splitting a free block leaves: the block handed out, and per order  *)
(* the half that goes back.                                                 *)
NoBlock == [idx |-> PHYMM_INVALID]

(* Splitting block i of order o down to ord keeps the lower half each time. *)
KeepLow(i, o, ord) ==
    [idx |-> i, head |-> i, from |-> o,
     back |-> [k \in ord..(o - 1) |-> i + 2 ^ k]]

KeepHigh(i, o, ord) ==
    [idx |-> i + 2 ^ o - 2 ^ ord, head |-> i, from |-> o,
     back |-> [k \in ord..(o - 1) |-> i + 2 ^ o - 2 ^ (k + 1)]]

buddy_block_fits(i, o, min, max) == i >= min /\ i + 2 ^ o <= max

(* The first fitting block of the least order that has one. *)
buddy_alloc_in_range(ord, min, max) ==
    LET fitting(o) == SelectSeq(buddy_lists[o], LAMBDA i : buddy_block_fits(i, o, min, max))
        orders     == {o \in ord..MAX_BUDDY_ORDER : fitting(o) # <<>>}
    IN  IF min >= max \/ orders = {} THEN NoBlock
        ELSE KeepLow(Head(fitting(Min(orders))), Min(orders), ord)

(* The highest block of the least order that has one. *)
buddy_alloc_high(ord) ==
    LET orders == {o \in ord..MAX_BUDDY_ORDER : buddy_lists[o] # <<>>}
    IN  IF orders = {} THEN NoBlock
        ELSE KeepHigh(Max(Elems(buddy_lists[Min(orders)])), Min(orders), ord)

FirstOf(a, b) == IF a # NoBlock THEN a ELSE b

phymm_alloc_kernel(ord) ==
    FirstOf(buddy_alloc_in_range(ord, PREFERRED_BASE, KERNEL_LIMIT),
            buddy_alloc_in_range(ord, 0, KERNEL_LIMIT))

phymm_alloc_user ==
    FirstOf(FirstOf(buddy_alloc_in_range(0, HIGH_BASE, PHYMM_END),
                    buddy_alloc_in_range(0, KERNEL_LIMIT, PHYMM_END)),
            buddy_alloc_high(0))

(* The free block that b says is unlinked, the halves it gives back are     *)
(* pushed, and the frames handed out get their order.                       *)
buddy_take(b, ord) ==
    /\ b # NoBlock
    /\ buddy_lists' =
          [k \in Orders |->
              IF k = b.from THEN list_remove_entry(buddy_lists[k], b.head)
              ELSE IF k \in DOMAIN b.back THEN <<b.back[k]>> \o buddy_lists[k]
              ELSE buddy_lists[k]]
    /\ order' = [f \in Frames |->
                    IF f = b.idx THEN ord
                    ELSE IF f \in Block(b.idx, ord) THEN PHYMM_ORDER_NONE
                    ELSE IF \E k \in DOMAIN b.back : b.back[k] = f
                         THEN CHOOSE k \in DOMAIN b.back : b.back[k] = f
                    ELSE order[f]]
    /\ buddy_free_pages' = buddy_free_pages - 2 ^ ord

BuddyOf(f, k) == LET i == f - (f % 2 ^ k)
                 IN  IF (i \div 2 ^ k) % 2 = 0 THEN i + 2 ^ k ELSE i - 2 ^ k

(* Mutant: a frame that is allocated and not yet referenced passes for free. *)
FreeUnlisted(f, k) == f \in Frames /\ ref_count[f] = 0 /\ order[f] = k

buddy_is_free_at_order(f, k) ==
    f \in Frames /\ ref_count[f] = 0 /\ order[f] = k /\ f \in Elems(buddy_lists[k])

(* The block of order ord at f is merged with its buddies as long as they   *)
(* are free, and goes to the head of its list; refs are the counts after    *)
(* the caller has dropped its own.                                          *)
buddy_free_block(f, ord, refs) ==
    LET merged == Min({k \in ord..MAX_BUDDY_ORDER :
                          k = MAX_BUDDY_ORDER \/ ~buddy_is_free_at_order(BuddyOf(f, k), k)})
        head   == f - (f % 2 ^ merged)
    IN  /\ buddy_lists' =
              [k \in Orders |->
                  IF k = merged THEN <<head>> \o buddy_lists[k]
                  ELSE IF k \in ord..(merged - 1)
                       THEN list_remove_entry(buddy_lists[k], BuddyOf(f, k))
                  ELSE buddy_lists[k]]
        /\ order' = [order EXCEPT ![head] = merged]
        /\ ref_count' = [refs EXCEPT ![head] = 0]
        /\ buddy_free_pages' = buddy_free_pages + 2 ^ ord

phymm_reference_page(f) ==
    /\ ref_count' = [ref_count EXCEPT ![f] = @ + 1]
    /\ UNCHANGED <<buddy_lists, order, buddy_free_pages>>

(* A reference to a user frame is dropped; the last one frees it.  Nothing  *)
(* reaches the frame between the two, so this is one step.                  *)
phymm_dereference_page(f) ==
    LET refs == [ref_count EXCEPT ![f] = @ - 1]
    IN  IF refs[f] = 0 THEN buddy_free_block(f, 0, refs)
        ELSE ref_count' = refs /\ UNCHANGED <<buddy_lists, order, buddy_free_pages>>

phymm_is_cow(f) == ref_count[f] > 1
=============================================================================
