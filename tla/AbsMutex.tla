------------------------------ MODULE AbsMutex ------------------------------
(***************************************************************************)
(* What a sleeping lock promises its users: at most one owner, who alone   *)
(* gives the lock back.                                                    *)
(***************************************************************************)
CONSTANTS Tasks, NoTask

VARIABLE owner

Init == owner = NoTask

Acquire(t) == owner = NoTask /\ owner' = t

Release(t) == owner = t /\ owner' = NoTask

Next == \E t \in Tasks : Acquire(t) \/ Release(t)

Spec == Init /\ [][Next]_owner
=============================================================================
