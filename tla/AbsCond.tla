------------------------------ MODULE AbsCond ------------------------------
(***************************************************************************)
(* What an auto-reset event promises: a waiter leaves with the event,      *)
(* which it consumes, or without it when it is interrupted, and an event   *)
(* that stays fired is consumed by every waiter in the end.                *)
(***************************************************************************)
CONSTANT Tasks

VARIABLES lock,     \* 0 = fired, 1 = armed
          waiting   \* the tasks blocked on the event

vars == <<lock, waiting>>

Try(t) == lock = 0 /\ lock' = 1 /\ t \notin waiting /\ UNCHANGED waiting

Wait(t) == lock = 1 /\ t \notin waiting /\ waiting' = waiting \cup {t} /\ UNCHANGED lock

Take(t) == lock = 0 /\ t \in waiting /\ lock' = 1 /\ waiting' = waiting \ {t}

Leave(t) == t \in waiting /\ waiting' = waiting \ {t} /\ UNCHANGED lock

Notify == lock' = 0 /\ UNCHANGED waiting

Reset == lock' = 1 /\ UNCHANGED waiting

Init == lock = 1 /\ waiting = {}

Next ==
    \/ \E t \in Tasks : Try(t) \/ Wait(t) \/ Take(t) \/ Leave(t)
    \/ Notify
    \/ Reset

Spec == Init /\ [][Next]_vars

FairSpec == Spec /\ \A t \in Tasks : WF_vars(Take(t))
=============================================================================
