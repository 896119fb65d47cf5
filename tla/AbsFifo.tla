------------------------------ MODULE AbsFifo ------------------------------
(***************************************************************************)
(* What a byte stream promises: bytes come out in the order they went in,  *)
(* each one once, and never more than Size of them are under way.          *)
(***************************************************************************)
EXTENDS Sequences, Integers

CONSTANTS Bytes, Size, Readers, Writers

VARIABLES queue,  \* the bytes under way
          src,    \* what the current write of each writer has still to put
          dst     \* what the current read of each reader has received

vars == <<queue, src, dst>>

Init ==
    /\ queue = <<>>
    /\ src = [w \in Writers |-> <<>>]
    /\ dst = [r \in Readers |-> <<>>]

Write(w) ==
    /\ src[w] = <<>>
    /\ src'[w] \in Seq(Bytes)
    /\ src' = [src EXCEPT ![w] = src'[w]]
    /\ UNCHANGED <<queue, dst>>

(* A write puts what fits and goes on with the rest, or gives it up. *)
Put(w) ==
    \E n \in 0..Len(src[w]) :
        /\ Len(queue) + n <= Size
        /\ queue' = queue \o SubSeq(src[w], 1, n)
        /\ \/ src' = [src EXCEPT ![w] = SubSeq(@, n + 1, Len(@))]
           \/ src' = [src EXCEPT ![w] = <<>>]
        /\ UNCHANGED dst

Get(r) ==
    \E n \in 1..Len(queue) :
        /\ queue' = SubSeq(queue, n + 1, Len(queue))
        /\ dst' = [dst EXCEPT ![r] = SubSeq(queue, 1, n)]
        /\ UNCHANGED src

Return(r) == dst' = [dst EXCEPT ![r] = <<>>] /\ UNCHANGED <<queue, src>>

Flush == queue' = <<>> /\ UNCHANGED <<src, dst>>

Next ==
    \/ Flush
    \/ \E w \in Writers : Write(w) \/ Put(w)
    \/ \E r \in Readers : Get(r) \/ Return(r)

Spec == Init /\ [][Next]_vars
=============================================================================
