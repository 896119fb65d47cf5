------------------------------- MODULE KList -------------------------------
(***************************************************************************)
(* The kernel's intrusive lists (src/lib/impl/list.c), as sequences.  A    *)
(* list_entry is linked into at most one list, so removing it finds it by  *)
(* identity.  Every list modelled here is read and changed under a lock of *)
(* the code, so an operation is one step.                                  *)
(***************************************************************************)
EXTENDS Naturals, Sequences

(* The entries linked into the list q. *)
Elems(q) == {q[i] : i \in DOMAIN q}

(* No entry is linked twice. *)
Distinct(q) == \A i, j \in DOMAIN q : q[i] = q[j] => i = j

list_insert_tail(q, e) == Append(q, e)

(* Unlinks e and keeps the order of the others; an entry that is on no list *)
(* is linked to itself, and unlinking it changes nothing.                   *)
list_remove_entry(q, e) ==
    IF e \in Elems(q)
    THEN LET k == CHOOSE i \in DOMAIN q : q[i] = e
         IN  [j \in 1..(Len(q) - 1) |-> IF j < k THEN q[j] ELSE q[j + 1]]
    ELSE q
=============================================================================
