----------------------------- MODULE AbsMemory -----------------------------
(***************************************************************************)
(* What anonymous memory promises to processes: a private page belongs to  *)
(* one address space, a shared one to every space that has its id; a store *)
(* changes the one page it names and nothing else, and only if the page    *)
(* may be written; a load returns what the page holds, zero if it is new;  *)
(* fork gives the child the private pages as they are at that moment and   *)
(* the shared ones themselves.                                             *)
(*                                                                         *)
(* Two things the kernel does not promise.  While the first touch of a     *)
(* page is under way (filling), a load of another thread may return what   *)
(* its frame held before, and a store may be lost: the frame is mapped     *)
(* first and cleared then.  While a copy of the page is being put in its   *)
(* place (stale), another thread may still load the value from before.     *)
(***************************************************************************)
EXTENDS Naturals

CONSTANTS Spaces, Pages, AnonIds, Values, NoMap

VARIABLES maps,     \* per space and page: NoMap, "private", or the id of a shared page
          prot,     \* per space and page: "r" or "rw"
          mem,      \* what each page holds; 0 where none is mapped
          filling,  \* pages whose first touch is under way
          stale,    \* per page that a copy replaces: the value from before
          loads     \* what a load may return, as <<space, page, value>>

vars == <<maps, prot, mem, filling, stale, loads>>

Private == "private"
PageOf(m, v) == IF maps[m][v] = Private THEN <<m, v>> ELSE <<maps[m][v], v>>

(* The pages that some space maps hold their value, the others are gone.    *)
Kept(values, newmaps) ==
    [p \in (Spaces \cup AnonIds) \X Pages |->
        IF \/ p[1] \in Spaces /\ newmaps[p[1]][p[2]] = Private
           \/ p[1] \in AnonIds /\ \E m \in Spaces : newmaps[m][p[2]] = p[1]
        THEN values[p] ELSE 0]

Init ==
    /\ maps \in [Spaces -> [Pages -> {NoMap, Private} \cup AnonIds]]
    /\ prot \in [Spaces -> [Pages -> {"r", "rw"}]]
    /\ mem = [p \in (Spaces \cup AnonIds) \X Pages |-> 0]
    /\ filling = {}
    /\ stale = {}
    /\ loads = {}

LoadsRight ==
    \A l \in loads :
        /\ maps[l[1]][l[2]] # NoMap
        /\ \/ l[3] = mem[PageOf(l[1], l[2])]
           \/ <<l[1], l[2]>> \in filling
           \/ l \in stale

(* A translation is cached or dropped: other loads are possible, and        *)
(* nothing else changes.                                                    *)
Load == UNCHANGED <<maps, prot, mem, filling, stale>>

Store(m, v, x) ==
    /\ maps[m][v] # NoMap /\ prot[m][v] = "rw"
    /\ \/ mem' = [mem EXCEPT ![PageOf(m, v)] = x]
       \/ <<m, v>> \in filling /\ UNCHANGED mem
    /\ UNCHANGED <<maps, prot, filling, stale>>

Touch(m, v) ==
    /\ maps[m][v] # NoMap /\ mem[PageOf(m, v)] = 0
    /\ filling' = filling \cup {<<m, v>>}
    /\ UNCHANGED <<maps, prot, mem, stale>>

Touched(m, v) == filling' = filling \ {<<m, v>>} /\ UNCHANGED <<maps, prot, mem, stale>>

Copy(m, v) ==
    /\ maps[m][v] # NoMap
    /\ stale' = stale \cup {<<m, v, mem[PageOf(m, v)]>>}
    /\ UNCHANGED <<maps, prot, mem, filling>>

Copied(m, v) ==
    /\ stale' = {s \in stale : <<s[1], s[2]>> # <<m, v>>}
    /\ UNCHANGED <<maps, prot, mem, filling>>

Map(m, v, what, p) ==
    /\ maps[m][v] = NoMap
    /\ maps' = [maps EXCEPT ![m][v] = what]
    /\ prot' = [prot EXCEPT ![m][v] = p]
    /\ what \in AnonIds => \A n \in Spaces : maps[n][v] # what
    /\ UNCHANGED <<mem, filling, stale>>

Unmap(m, v) ==
    /\ maps' = [maps EXCEPT ![m][v] = NoMap]
    /\ prot' = [prot EXCEPT ![m][v] = "r"]
    /\ mem' = Kept(mem, maps')
    /\ UNCHANGED <<filling, stale>>

Protect(m, v, p) == prot' = [prot EXCEPT ![m][v] = p] /\ UNCHANGED <<maps, mem, filling, stale>>

Fork(m, n) ==
    /\ \A v \in Pages : maps[n][v] = NoMap
    /\ maps' = [maps EXCEPT ![n] = maps[m]]
    /\ prot' = [prot EXCEPT ![n] = prot[m]]
    /\ mem' = Kept([p \in (Spaces \cup AnonIds) \X Pages |->
                       IF p[1] = n THEN mem[<<m, p[2]>>] ELSE mem[p]], maps')
    /\ UNCHANGED <<filling, stale>>

Exit(m) ==
    /\ maps' = [maps EXCEPT ![m] = [v \in Pages |-> NoMap]]
    /\ prot' = [prot EXCEPT ![m] = [v \in Pages |-> "r"]]
    /\ mem' = Kept(mem, maps')
    /\ UNCHANGED <<filling, stale>>

Change ==
    \E m \in Spaces :
        \/ Exit(m)
        \/ \E n \in Spaces \ {m} : Fork(m, n)
        \/ \E v \in Pages :
              \/ Touch(m, v) \/ Touched(m, v) \/ Copy(m, v) \/ Copied(m, v) \/ Unmap(m, v)
              \/ \E x \in Values : Store(m, v, x)
              \/ \E p \in {"r", "rw"} :
                    Protect(m, v, p) \/ \E w \in {Private} \cup AnonIds : Map(m, v, w, p)

(* Whatever happens, the loads that are possible then return what they should. *)
Next == (Load \/ Change) /\ LoadsRight'

Spec == Init /\ [][Next]_vars
=============================================================================
