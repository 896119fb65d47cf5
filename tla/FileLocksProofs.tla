-------------------------- MODULE FileLocksProofs --------------------------
(***************************************************************************)
(* The steps of the lock calls keep the invariant of the advisory locks,   *)
(* for every number of tasks, processes and open files, and so does every  *)
(* step of other calls that satisfies LockFrame.                           *)
(***************************************************************************)
EXTENDS FileLocks, FiniteSetTheorems, TLAPS

(* What a step that is not about locks leaves of the state of the lock      *)
(* calls: it brings no task into one, and puts none of those in them to     *)
(* sleep.                                                                   *)
LockFrame ==
    /\ DOMAIN pc' = Tasks /\ DOMAIN call' = Tasks /\ DOMAIN status' = Tasks
    /\ \A u \in Tasks : pc'[u] \in LockLabels =>
          /\ pc[u] = pc'[u] /\ call[u] = call'[u]
          /\ status'[u] = "waiting" =>
                /\ status[u] = "waiting"
                /\ u \in wait_interruptible => u \in wait_interruptible'

Domains == DOMAIN pc = Tasks /\ DOMAIN call = Tasks /\ DOMAIN status = Tasks

-----------------------------------------------------------------------------
LocksInv == RangesInv /\ CallsInv /\ SleepersInv /\ FlocksExact /\ NoStrandedLocker

(* Before the first call. *)
LEMMA LocksInitially == ASSUME TaskInit, LocksInit PROVE LocksInv
<1>1. RangesInv
  <2>1. NoRequest \in Request /\ NoRequest.start <= NoRequest.end
    BY LocksAssumption DEF NoRequest, Request, Types, Offsets
  <2> QED BY Zenon, <2>1 DEF LocksInit, RangesInv, Types
<1>2. CallsInv /\ SleepersInv /\ NoStrandedLocker
  BY Zenon DEF LocksInit, TaskInit, CallsInv, SleepersInv, NoStrandedLocker,
     Sleeping, LockLabels
<1>3. FlocksExact
  <2>1. {f \in OpenFiles : f_flock[f] = "SH"} = {}
    BY Zenon DEF LocksInit
  <2> QED BY Zenon, <2>1, FS_EmptySet, LocksAssumption DEF LocksInit, FlocksExact
<1> QED BY Zenon, <1>1, <1>2, <1>3 DEF LocksInv

(* The ranges as they are, whatever is requested next. *)
LEMMA RangesFrame ==
    ASSUME RangesInv, ranges' = ranges, bytes' = bytes,
           posix_locks_used \subseteq posix_locks_used', request' \in [Tasks -> Request],
           \A u \in Tasks : request'[u].start <= request'[u].end
    PROVE  RangesInv'
<1>1. \A r, s \in ranges' : (r.owner = s.owner /\ Overlaps(r, s) => r = s)
  BY Zenon DEF RangesInv
<1> QED BY <1>1 DEF RangesInv, Overlaps

LEMMA RangesSame ==
    ASSUME RangesInv, ranges' = ranges, bytes' = bytes, request' = request,
           posix_locks_used' = posix_locks_used
    PROVE  RangesInv'
<1>1. request' \in [Tasks -> Request] /\ \A u \in Tasks : request'[u].start <= request'[u].end
  BY Zenon DEF RangesInv
<1> QED BY Zenon, <1>1, RangesFrame

(* A step that is not about locks keeps the invariant. *)
LEMMA FrameKeeps ==
    ASSUME LocksInv, LockFrame, UNCHANGED lockVars
    PROVE  LocksInv'
<1> USE DEF lockVars, rangeVars, flockVars, LocksInv
<1>1. RangesInv'
  BY Zenon, RangesSame
<1>2. FlocksExact'
  BY Zenon DEF FlocksExact
<1>3. CallsInv'
  BY Zenon DEF CallsInv, LockFrame, LockLabels, Sleeping
<1>4. SleepersInv'
  BY Zenon DEF SleepersInv, LockFrame, LockLabels, Sleeping
<1>5. \A t \in Tasks : Conflicts(Group[t], request[t])' = Conflicts(Group[t], request[t])
  BY Zenon DEF Conflicts, Conflict, Overlaps
<1>6. \A f : FlockConflict(f, "EX")' = FlockConflict(f, "EX")
  BY Zenon DEF FlockConflict
<1>7. \A t \in Tasks : /\ Sleeping(t, "range_sleep")' => Sleeping(t, "range_sleep")
                       /\ Sleeping(t, "flock_sleep")' => Sleeping(t, "flock_sleep")
                             /\ call'[t] = call[t]
  BY Zenon DEF LockFrame, LockLabels, Sleeping
<1>8. NoStrandedLocker'
  BY Zenon, <1>5, <1>6, <1>7 DEF NoStrandedLocker
<1> QED BY Zenon, <1>1, <1>2, <1>3, <1>4, <1>8

-----------------------------------------------------------------------------
(* Ranges. *)

(* The portions of a range outside the request, one by one. *)
LEMMA RestParts ==
    ASSUME NEW r \in PosixRange, NEW q \in Request, r.start <= r.end, q.start <= q.end,
           Overlaps(r, q),
           NEW x \in Rest(r, q)
    PROVE  /\ x \in PosixRange /\ x.owner = r.owner /\ x.type = r.type /\ x.start <= x.end
           /\ r.start <= x.start /\ x.end <= r.end
           /\ ~Overlaps(x, q)
           /\ \/ x.start = r.start /\ x.end = q.start - 1 /\ r.start < q.start
              \/ x.start = q.end + 1 /\ x.end = r.end /\ r.end > q.end
<1>1. /\ r.start \in Offsets /\ r.end \in Offsets
      /\ q.start \in Offsets /\ q.end \in Offsets /\ INT64_MAX \in Nat
  BY Zenon, LocksAssumption DEF PosixRange, Request
<1>2. CASE r.start < q.start /\ x = [r EXCEPT !.end = q.start - 1]
  <2>1. /\ x = [owner |-> r.owner, type |-> r.type, start |-> r.start, end |-> q.start - 1]
        /\ r.owner \in Owners /\ r.type \in {"RDLCK", "WRLCK"}
    BY Zenon, <1>2 DEF PosixRange
  <2>2. q.start - 1 \in Offsets
    BY <1>1, <1>2 DEF Offsets
  <2>3. x \in PosixRange
    BY Zenon, <1>1, <2>1, <2>2 DEF PosixRange
  <2>4. x.owner = r.owner /\ x.type = r.type /\ x.start = r.start /\ x.end = q.start - 1
    BY Zenon, <2>1
  <2> QED BY <1>1, <1>2, <2>3, <2>4 DEF Offsets, Overlaps
<1>3. CASE r.end > q.end /\ x = [r EXCEPT !.start = q.end + 1]
  <2>1. /\ x = [owner |-> r.owner, type |-> r.type, start |-> q.end + 1, end |-> r.end]
        /\ r.owner \in Owners /\ r.type \in {"RDLCK", "WRLCK"}
    BY Zenon, <1>3 DEF PosixRange
  <2>2. q.end + 1 \in Offsets
    BY <1>1, <1>3 DEF Offsets
  <2>3. x \in PosixRange
    BY Zenon, <1>1, <2>1, <2>2 DEF PosixRange
  <2>4. x.owner = r.owner /\ x.type = r.type /\ x.start = q.end + 1 /\ x.end = r.end
    BY Zenon, <2>1
  <2> QED BY <1>1, <1>3, <2>3, <2>4 DEF Offsets, Overlaps
<1> QED BY Zenon, <1>2, <1>3 DEF Rest

(* Two different portions of one range do not meet. *)
LEMMA RestDisjoint ==
    ASSUME NEW r \in PosixRange, NEW q \in Request, r.start <= r.end, q.start <= q.end,
           Overlaps(r, q),
           NEW x \in Rest(r, q), NEW y \in Rest(r, q), Overlaps(x, y)
    PROVE  x = y
<1>1. CASE x = [r EXCEPT !.end = q.start - 1] /\ y = [r EXCEPT !.start = q.end + 1]
  BY <1>1, LocksAssumption DEF PosixRange, Request, Offsets, Overlaps
<1>2. CASE y = [r EXCEPT !.end = q.start - 1] /\ x = [r EXCEPT !.start = q.end + 1]
  BY <1>2, LocksAssumption DEF PosixRange, Request, Offsets, Overlaps
<1> QED BY Zenon, <1>1, <1>2 DEF Rest

(* The replacing loop may stop at the first range it splits: since the      *)
(* ranges of an owner are disjoint, that is the only one the request meets. *)
LEMMA PassedAll ==
    ASSUME RangesInv, NEW o \in Owners, NEW q \in Request, q.start <= q.end, NEW V \in Passed(o, q)
    PROVE  V = Mine(o, q)
<1>1. CASE \E r \in Mine(o, q) : Splits(r, q)
  <2>1. PICK r \in Mine(o, q) : Splits(r, q)
    BY Zenon, <1>1
  <2>2. ASSUME NEW x \in Mine(o, q) PROVE x = r
    <3>1. Overlaps(r, x)
      BY <2>1, LocksAssumption DEF Mine, Splits, Overlaps, RangesInv,
         PosixRange, Request, Offsets
    <3> QED BY Zenon, <3>1, <2>1 DEF Mine, RangesInv
  <2>3. V \subseteq Mine(o, q) /\ V # {}
    BY Zenon, <1>1 DEF Passed
  <2> QED BY Zenon, <2>2, <2>3
<1>2. CASE ~ \E r \in Mine(o, q) : Splits(r, q)
  BY Zenon, <1>2 DEF Passed
<1> QED BY Zenon, <1>1, <1>2

(* Every range after the replacement is new, or lies within an old one of   *)
(* its owner and type and clear of the request where the owner is the same. *)
LEMMA ReplaceParts ==
    ASSUME RangesInv, NEW o \in Owners, NEW q \in Request, q.start <= q.end, Replace(o, q)
    PROVE  \A x : x \in ranges' <=> \/ x \in ranges /\ x \notin Mine(o, q)
                                    \/ \E r \in Mine(o, q) : x \in Rest(r, q)
                                    \/ x \in Fresh(o, q)
<1>1. PICK V \in Passed(o, q) :
          ranges' = (ranges \ V) \cup (UNION {Rest(r, q) : r \in V}) \cup Fresh(o, q)
  BY Zenon DEF Replace
<1>2. V = Mine(o, q)
  BY Zenon, PassedAll
<1> DEFINE Portions == UNION {Rest(r, q) : r \in V}
<1>3. \A x : x \in Portions <=> \E r \in V : x \in Rest(r, q)
  BY Zenon
<1>4. ranges' = (ranges \ V) \cup Portions \cup Fresh(o, q)
  BY Zenon, <1>1
<1> HIDE DEF Portions
<1> QED BY Zenon, <1>2, <1>3, <1>4

LEMMA FreshPart ==
    ASSUME NEW o \in Owners, NEW q \in Request, NEW x \in Fresh(o, q)
    PROVE  /\ x \in PosixRange /\ x.owner = o /\ x.type = q.type
           /\ x.start = q.start /\ x.end = q.end
BY DEF Fresh, PosixRange, Request, Types

LEMMA ReplaceTyped ==
    ASSUME RangesInv, NEW o \in Owners, NEW q \in Request, q.start <= q.end, Replace(o, q),
           o \in posix_locks_used, NEW x \in ranges'
    PROVE  x \in PosixRange /\ x.start <= x.end /\ x.owner \in posix_locks_used
<1>1. CASE x \in ranges /\ x \notin Mine(o, q)
  BY Zenon, <1>1 DEF RangesInv
<1>2. ASSUME NEW r \in Mine(o, q), x \in Rest(r, q)
      PROVE  x \in PosixRange /\ x.start <= x.end /\ x.owner \in posix_locks_used
  <2>1. r \in PosixRange /\ r.start <= r.end /\ r.owner = o /\ Overlaps(r, q)
    BY Zenon DEF Mine, RangesInv
  <2> QED BY Zenon, <1>2, <2>1, RestParts
<1>3. CASE x \in Fresh(o, q)
  BY <1>3, FreshPart
<1> QED BY Zenon, <1>1, <1>2, <1>3, ReplaceParts

LEMMA ReplaceDisjoint ==
    ASSUME RangesInv, NEW o \in Owners, NEW q \in Request, q.start <= q.end, Replace(o, q),
           NEW x \in ranges', NEW y \in ranges', x.owner = y.owner, Overlaps(x, y)
    PROVE  x = y
<1> DEFINE Old(z) == z \in ranges /\ z \notin Mine(o, q)
           Portion(z, r) == r \in Mine(o, q) /\ z \in Rest(r, q)
<1>1. \A r \in ranges : r \in PosixRange /\ r.start <= r.end
  BY Zenon DEF RangesInv
<1>2. \A r, s \in ranges : r.owner = s.owner /\ Overlaps(r, s) => r = s
  BY Zenon DEF RangesInv
<1>3. \A z, r : Portion(z, r) => /\ z \in PosixRange /\ z.owner = o /\ ~Overlaps(z, q)
                                /\ r \in ranges /\ r.owner = o /\ Overlaps(r, q)
                                /\ r.start <= z.start /\ z.end <= r.end /\ z.start <= z.end
  BY Zenon, <1>1, RestParts DEF Mine
<1>4. \A z \in Fresh(o, q) : z \in PosixRange /\ z.owner = o /\ z.start = q.start /\ z.end = q.end
  BY Zenon, FreshPart
<1>5. \A z, w \in PosixRange : Overlaps(z, w) => Overlaps(w, z)
  BY Zenon DEF Overlaps, PosixRange, Offsets
<1>6. ASSUME NEW z, NEW w, Old(z), NEW r, Portion(w, r), z.owner = w.owner, Overlaps(z, w)
      PROVE  FALSE
  <2>1. Overlaps(z, r)
    BY <1>1, <1>3, <1>6 DEF Overlaps, PosixRange, Offsets
  <2> QED BY Zenon, <2>1, <1>2, <1>3, <1>6
<1>7. ASSUME NEW z, NEW w \in Fresh(o, q), Old(z) \/ (\E r : Portion(z, r)), z.owner = w.owner
      PROVE  ~Overlaps(z, w) /\ ~Overlaps(w, z)
  <2>1. z \in PosixRange /\ ~Overlaps(z, q)
    BY Zenon, <1>1, <1>3, <1>4, <1>7 DEF Mine
  <2> QED BY Zenon, <2>1, <1>4 DEF Overlaps, PosixRange, Offsets
<1>8. ASSUME NEW r, NEW s, Portion(x, r), Portion(y, s) PROVE x = y
  <2>1. Overlaps(r, s)
    BY <1>1, <1>3, <1>8 DEF Overlaps, PosixRange, Offsets
  <2>2. r = s /\ r \in PosixRange /\ r.start <= r.end /\ Overlaps(r, q)
    BY Zenon, <2>1, <1>1, <1>2, <1>3, <1>8
  <2> QED BY Zenon, <2>2, <1>8, RestDisjoint
<1>9. CASE x \in Fresh(o, q) /\ y \in Fresh(o, q)
  BY Zenon, <1>9 DEF Fresh
<1>10. /\ Old(x) \/ (\E r : Portion(x, r)) \/ x \in Fresh(o, q)
       /\ Old(y) \/ (\E r : Portion(y, r)) \/ y \in Fresh(o, q)
  BY Zenon, ReplaceParts
<1>11. CASE Old(x) /\ Old(y)
  BY Zenon, <1>2, <1>11
<1>12. CASE (Old(x) /\ \E r : Portion(y, r)) \/ (Old(y) /\ \E r : Portion(x, r))
  BY Zenon, <1>1, <1>3, <1>5, <1>6, <1>12
<1> HIDE DEF Old, Portion
<1> QED BY Zenon, <1>7, <1>8, <1>9, <1>10, <1>11, <1>12

(* What Assign makes of the bytes. *)
LEMMA AssignParts ==
    ASSUME RangesInv, NEW o \in Owners, NEW q \in Request, Assign(o, q)
    PROVE  /\ bytes' \in [Owners -> [Offsets -> Types]]
           /\ \A p \in Owners, b \in Offsets :
                 bytes'[p][b] = IF p = o /\ b \in q.start..q.end THEN q.type ELSE bytes[p][b]
BY DEF Assign, RangesInv, Request, Types

(* fs_posix_lock replaces ranges: the list stays exact. *)
LEMMA SetKeeps ==
    ASSUME RangesInv, NEW o \in Owners, NEW q \in Request, q.start <= q.end,
           o \in posix_locks_used, q.type = "UNLCK" \/ Conflicts(o, q) = {},
           Replace(o, q), Assign(o, q), request' = request, posix_locks_used' = posix_locks_used
    PROVE  RangesInv'
<1>1. \A x \in ranges' : x \in PosixRange /\ x.start <= x.end /\ x.owner \in posix_locks_used
  BY Zenon, ReplaceTyped
<1>2. \A x, y \in ranges' : x.owner = y.owner /\ Overlaps(x, y) => x = y
  BY Zenon, ReplaceDisjoint
<1>3. /\ \A r \in ranges : r \in PosixRange /\ r.start <= r.end
      /\ \A r \in ranges : \A b \in r.start..r.end : bytes[r.owner][b] = r.type
      /\ \A p \in Owners, b \in Offsets :
            bytes[p][b] # "UNLCK" => \E r \in ranges : r.owner = p /\ b \in r.start..r.end
      /\ \A p, s \in Owners, b \in Offsets :
            bytes[p][b] = "WRLCK" /\ s # p => bytes[s][b] = "UNLCK"
  BY Zenon DEF RangesInv
<1>4. \A p \in Owners, b \in Offsets :
          bytes'[p][b] = IF p = o /\ b \in q.start..q.end THEN q.type ELSE bytes[p][b]
  BY Zenon, AssignParts
<1>5. q.start \in Offsets /\ q.end \in Offsets /\ q.type \in Types /\ INT64_MAX \in Nat
  BY Zenon, LocksAssumption DEF Request
<1>6. ASSUME NEW x \in ranges', NEW b \in x.start..x.end PROVE bytes'[x.owner][b] = x.type
  <2>1. x \in PosixRange /\ x.owner \in Owners /\ b \in Offsets
    BY <1>1, LocksAssumption DEF PosixRange, Offsets
  <2>2. CASE x \in Fresh(o, q)
    BY <2>1, <2>2, <1>4, FreshPart
  <2>3. ASSUME NEW r \in ranges, r.owner = x.owner, r.type = x.type, b \in r.start..r.end,
               x.owner = o => ~Overlaps(x, q)
        PROVE  bytes'[x.owner][b] = x.type
    <3>1. ~(x.owner = o /\ b \in q.start..q.end)
      BY <2>1, <2>3, <1>5 DEF Overlaps, Offsets, PosixRange
    <3> QED BY <3>1, <2>1, <2>3, <1>3, <1>4
  <2>4. CASE x \in ranges /\ x \notin Mine(o, q)
    BY Zenon, <2>3, <2>4 DEF Mine
  <2>5. ASSUME NEW r \in Mine(o, q), x \in Rest(r, q) PROVE bytes'[x.owner][b] = x.type
    <3>1. /\ r \in ranges /\ r.owner = x.owner /\ r.type = x.type /\ ~Overlaps(x, q)
          /\ r.start <= x.start /\ x.end <= r.end /\ r \in PosixRange
      BY Zenon, <1>3, <2>5, RestParts DEF Mine
    <3>2. b \in r.start..r.end
      BY <2>1, <3>1 DEF PosixRange, Offsets
    <3> QED BY Zenon, <2>3, <3>1, <3>2
  <2> QED BY Zenon, <2>2, <2>4, <2>5, ReplaceParts
<1>7. ASSUME NEW p \in Owners, NEW b \in Offsets, bytes'[p][b] # "UNLCK"
      PROVE  \E x \in ranges' : x.owner = p /\ b \in x.start..x.end
  <2>1. CASE p = o /\ b \in q.start..q.end
    <3> DEFINE x == [owner |-> o, type |-> q.type, start |-> q.start, end |-> q.end]
    <3>1. x \in Fresh(o, q)
      BY Zenon, <2>1, <1>4, <1>7 DEF Fresh
    <3>2. x \in ranges' /\ x.owner = p /\ x.start = q.start /\ x.end = q.end
      BY Zenon, <3>1, <2>1, ReplaceParts
    <3> QED BY Zenon, <2>1, <3>2
  <2>2. CASE ~(p = o /\ b \in q.start..q.end)
    <3>1. PICK r \in ranges : r.owner = p /\ b \in r.start..r.end
      BY <2>2, <1>3, <1>4, <1>7
    <3>2. CASE r \notin Mine(o, q)
      BY Zenon, <3>1, <3>2, ReplaceParts
    <3>3. CASE r \in Mine(o, q)
      <4>1. /\ r \in PosixRange /\ p = o /\ r.start \in Offsets /\ r.end \in Offsets
            /\ ~(b \in q.start..q.end) /\ b \in Int
        BY <3>1, <3>3, <2>2, <1>3 DEF Mine, PosixRange, Offsets
      <4>2. CASE b < q.start
        <5> DEFINE x == [r EXCEPT !.end = q.start - 1]
        <5>1. r.start < q.start
          BY <3>1, <4>1, <4>2, <1>5 DEF Offsets
        <5>2. x \in Rest(r, q)
          BY Zenon, <5>1 DEF Rest
        <5>3. x.owner = p /\ x.start = r.start /\ x.end = q.start - 1
          BY Zenon, <3>1, <4>1 DEF PosixRange
        <5>4. b \in x.start..x.end
          BY <5>3, <3>1, <4>1, <4>2, <1>5 DEF Offsets
        <5> QED BY Zenon, <5>2, <5>3, <5>4, <3>3, ReplaceParts
      <4>3. CASE b > q.end
        <5> DEFINE x == [r EXCEPT !.start = q.end + 1]
        <5>1. r.end > q.end
          BY <3>1, <4>1, <4>3, <1>5 DEF Offsets
        <5>2. x \in Rest(r, q)
          BY Zenon, <5>1 DEF Rest
        <5>3. x.owner = p /\ x.start = q.end + 1 /\ x.end = r.end
          BY Zenon, <3>1, <4>1 DEF PosixRange
        <5>4. b \in x.start..x.end
          BY <5>3, <3>1, <4>1, <4>3, <1>5 DEF Offsets
        <5> QED BY Zenon, <5>2, <5>3, <5>4, <3>3, ReplaceParts
      <4> QED BY <4>1, <4>2, <4>3, <1>5 DEF Offsets
    <3> QED BY Zenon, <3>2, <3>3
  <2> QED BY Zenon, <2>1, <2>2
<1>8. ASSUME NEW p \in Owners, NEW s \in Owners, NEW b \in Offsets, s # p, bytes'[p][b] = "WRLCK"
      PROVE  bytes'[s][b] = "UNLCK"
  <2>1. ASSUME NEW r \in ranges, r.owner # o, b \in r.start..r.end, b \in q.start..q.end,
               q.type = "WRLCK" \/ r.type = "WRLCK", q.type # "UNLCK"
        PROVE  FALSE
    <3>1. Overlaps(r, q)
      BY <2>1, <1>3, <1>5 DEF Overlaps, Offsets, PosixRange
    <3> QED BY Zenon, <2>1, <3>1 DEF Conflicts, Conflict
  <2>2. CASE p = o /\ b \in q.start..q.end
    BY <2>1, <2>2, <1>3, <1>4, <1>8
  <2>3. CASE s = o /\ b \in q.start..q.end
    <3>1. PICK r \in ranges : r.owner = p /\ b \in r.start..r.end /\ r.type = "WRLCK"
      BY <2>3, <1>3, <1>4, <1>8
    <3> QED BY Zenon, <3>1, <2>1, <2>3, <1>4, <1>8
  <2>4. CASE ~(p = o /\ b \in q.start..q.end) /\ ~(s = o /\ b \in q.start..q.end)
    BY <2>4, <1>3, <1>4, <1>8
  <2> QED BY Zenon, <2>2, <2>3, <2>4
<1>9. /\ request' \in [Tasks -> Request]
      /\ \A t \in Tasks : request'[t].start <= request'[t].end
      /\ bytes' \in [Owners -> [Offsets -> Types]]
  BY Zenon, AssignParts DEF RangesInv
<1> QED BY <1>1, <1>2, <1>6, <1>7, <1>8, <1>9 DEF RangesInv, Overlaps

(* fs_posix_lock_release passes over a process that is not marked, which    *)
(* has no range.                                                            *)
LEMMA ReleaseKeeps ==
    ASSUME RangesInv, NEW o \in Owners, NEW t, fs_posix_lock_release(t, o),
           request' = request, posix_locks_used' = posix_locks_used
    PROVE  RangesInv'
<1>1. ranges' = {r \in ranges : r.owner # o}
  BY Zenon DEF fs_posix_lock_release, RangesInv
<1>2. /\ bytes' \in [Owners -> [Offsets -> Types]]
      /\ \A p \in Owners, b \in Offsets : bytes'[p][b] = IF p = o THEN "UNLCK" ELSE bytes[p][b]
  BY Zenon DEF fs_posix_lock_release, RangesInv, Types
<1>3. \A r \in ranges' : \A b \in r.start..r.end : bytes'[r.owner][b] = r.type
  <2>1. ASSUME NEW r \in ranges', NEW b \in r.start..r.end PROVE bytes'[r.owner][b] = r.type
    <3>1. r \in PosixRange /\ r.owner # o /\ b \in Offsets
      BY <1>1, LocksAssumption DEF RangesInv, PosixRange, Offsets
    <3> QED BY <1>1, <1>2, <3>1 DEF RangesInv, PosixRange
  <2> QED BY Zenon, <2>1
<1>4. \A p \in Owners, b \in Offsets :
          bytes'[p][b] # "UNLCK" => \E r \in ranges' : r.owner = p /\ b \in r.start..r.end
  BY <1>1, <1>2 DEF RangesInv
<1>5. \A p, s \in Owners, b \in Offsets :
          bytes'[p][b] = "WRLCK" /\ s # p => bytes'[s][b] = "UNLCK"
  BY <1>2 DEF RangesInv
<1> QED BY Zenon, <1>1, <1>2, <1>3, <1>4, <1>5 DEF RangesInv, Overlaps

(* The invariant says of every byte what LocksExact says. *)
LEMMA RangesExact == ASSUME RangesInv PROVE LocksExact
<1> SUFFICES ASSUME NEW o \in Owners, NEW b \in Offsets
             PROVE  /\ {r.type : r \in {x \in ranges : x.owner = o /\ b \in x.start..x.end}}
                         = {bytes[o][b]} \ {"UNLCK"}
                    /\ bytes[o][b] = "WRLCK" => \A p \in Owners \ {o} : bytes[p][b] = "UNLCK"
  BY Zenon DEF LocksExact
<1>1. \A x \in ranges : x.owner = o /\ b \in x.start..x.end =>
          x.type = bytes[o][b] /\ bytes[o][b] # "UNLCK"
  BY DEF RangesInv, PosixRange
<1>2. bytes[o][b] # "UNLCK" => \E x \in ranges : x.owner = o /\ b \in x.start..x.end
  BY Zenon DEF RangesInv
<1>3. bytes[o][b] = "WRLCK" => \A p \in Owners \ {o} : bytes[p][b] = "UNLCK"
  BY DEF RangesInv
<1> QED BY Zenon, <1>1, <1>2, <1>3

-----------------------------------------------------------------------------
(* The whole-file lock. *)

Sharers == {f \in OpenFiles : f_flock[f] = "SH"}

(* The count of sharers includes any two of them. *)
LEMMA SharersCounted ==
    ASSUME FlocksExact
    PROVE  /\ i_flock_sh \in Nat
           /\ \A f \in OpenFiles : f_flock[f] = "SH" => i_flock_sh >= 1
           /\ \A f, g \in OpenFiles :
                 f # g /\ f_flock[f] = "SH" /\ f_flock[g] = "SH" => i_flock_sh >= 2
<1>1. IsFiniteSet(Sharers) /\ i_flock_sh = Cardinality(Sharers)
  BY Zenon, LocksAssumption, FS_Subset DEF FlocksExact, Sharers
<1>2. i_flock_sh \in Nat
  BY Zenon, <1>1, FS_CardinalityType
<1>3. ASSUME NEW f \in OpenFiles, f_flock[f] = "SH"
      PROVE  /\ i_flock_sh >= 1
             /\ IsFiniteSet(Sharers \ {f}) /\ Cardinality(Sharers \ {f}) = i_flock_sh - 1
  <2>1. f \in Sharers
    BY Zenon, <1>3 DEF Sharers
  <2>2. IsFiniteSet(Sharers \ {f}) /\ Cardinality(Sharers \ {f}) = Cardinality(Sharers) - 1
    BY <1>1, <2>1, FS_RemoveElement, Zenon
  <2>3. Cardinality(Sharers \ {f}) \in Nat
    BY Zenon, <2>2, FS_CardinalityType
  <2> QED BY <1>1, <1>2, <2>2, <2>3
<1>4. ASSUME NEW f \in OpenFiles, NEW g \in OpenFiles, f # g,
             f_flock[f] = "SH", f_flock[g] = "SH"
      PROVE  i_flock_sh >= 2
  <2>1. g \in Sharers \ {f}
    BY Zenon, <1>4 DEF Sharers
  <2>2. IsFiniteSet(Sharers \ {f}) /\ Cardinality(Sharers \ {f}) = i_flock_sh - 1
    BY Zenon, <1>3, <1>4
  <2>3. /\ Cardinality((Sharers \ {f}) \ {g}) = Cardinality(Sharers \ {f}) - 1
        /\ IsFiniteSet((Sharers \ {f}) \ {g})
    BY <2>1, <2>2, FS_RemoveElement, Zenon
  <2>4. Cardinality((Sharers \ {f}) \ {g}) \in Nat
    BY Zenon, <2>3, FS_CardinalityType
  <2> QED BY <1>2, <2>2, <2>3, <2>4
<1> QED BY Zenon, <1>2, <1>3, <1>4

(* sys_flock and the last close convert the lock of one file.  When nothing *)
(* is in the way, or the lock is given up, the inode stays exact.           *)
LEMMA ConvertKeeps ==
    ASSUME FlocksExact, f_flock \in [OpenFiles -> {"none", "SH", "EX"}],
           NEW f \in OpenFiles, NEW op \in {"none", "SH", "EX"}, Convert(f, op),
           op = "none" \/ ~FlockConflict(f, op)
    PROVE  FlocksExact' /\ f_flock' \in [OpenFiles -> {"none", "SH", "EX"}] /\ i_flock_sh' \in Nat
<1>1. /\ f_flock' \in [OpenFiles -> {"none", "SH", "EX"}] /\ f_flock'[f] = op
      /\ \A g \in OpenFiles : g # f => f_flock'[g] = f_flock[g]
  BY Zenon DEF Convert
<1>2. /\ i_flock_sh \in Nat /\ (f_flock[f] = "SH" => i_flock_sh >= 1)
  BY Zenon, SharersCounted
<1>3. IsFiniteSet(Sharers) /\ i_flock_sh = Cardinality(Sharers)
  BY Zenon, LocksAssumption, FS_Subset DEF FlocksExact, Sharers
<1>4. i_flock_sh' = Cardinality(Sharers')
  <2>1. CASE f_flock[f] = "SH" <=> op = "SH"
    <3>1. Sharers' = Sharers
      BY Zenon, <1>1, <2>1 DEF Sharers
    <3> QED BY <3>1, <2>1, <1>2, <1>3 DEF Convert
  <2>2. CASE f_flock[f] = "SH" /\ op # "SH"
    <3>1. Sharers' = Sharers \ {f} /\ f \in Sharers
      BY Zenon, <1>1, <2>2 DEF Sharers
    <3>2. Cardinality(Sharers') = Cardinality(Sharers) - 1
      BY <1>3, <3>1, FS_RemoveElement, Zenon
    <3> QED BY <3>2, <2>2, <1>2, <1>3 DEF Convert
  <2>3. CASE f_flock[f] # "SH" /\ op = "SH"
    <3>1. Sharers' = Sharers \cup {f} /\ f \notin Sharers
      BY Zenon, <1>1, <2>3 DEF Sharers
    <3>2. Cardinality(Sharers') = Cardinality(Sharers) + 1
      BY <1>3, <3>1, FS_AddElement, Zenon
    <3> QED BY <3>2, <2>3, <1>2, <1>3 DEF Convert
  <2> QED BY Zenon, <2>1, <2>2, <2>3
<1>5. i_flock_sh' \in Nat
  BY <1>2 DEF Convert
<1>6. \A g \in OpenFiles : f_flock'[g] = "EX" <=> i_flock_ex_owner' = g
  BY Zenon, <1>1, LocksAssumption DEF Convert, FlocksExact, FlockConflict
<1>7. i_flock_ex_owner' # NoFile => i_flock_sh' = 0
  BY <1>1, <1>2, LocksAssumption DEF Convert, FlocksExact, FlockConflict
<1> QED BY Zenon, <1>1, <1>4, <1>5, <1>6, <1>7 DEF FlocksExact, Sharers

(* A file that takes the lock leaves whoever sleeps beside another holder   *)
(* beside one.                                                              *)
LEMMA TakeKeepsConflict ==
    ASSUME FlocksExact, f_flock \in [OpenFiles -> {"none", "SH", "EX"}],
           NEW f \in OpenFiles, NEW op \in {"SH", "EX"}, Convert(f, op), ~FlockConflict(f, op),
           NEW g \in OpenFiles, FlockConflict(g, "EX")
    PROVE  FlockConflict(g, "EX")'
<1>1. /\ f_flock'[f] = op /\ \A h \in OpenFiles : h # f => f_flock'[h] = f_flock[h]
      /\ i_flock_sh' = i_flock_sh - (IF f_flock[f] = "SH" THEN 1 ELSE 0)
                                  + (IF op = "SH" THEN 1 ELSE 0)
      /\ op = "EX" => i_flock_ex_owner' = f
  BY Zenon DEF Convert
<1>2. /\ i_flock_sh \in Nat
      /\ f_flock[f] = "SH" => i_flock_sh >= 1
      /\ f_flock[g] = "SH" => i_flock_sh >= 1
      /\ f # g /\ f_flock[f] = "SH" /\ f_flock[g] = "SH" => i_flock_sh >= 2
  BY Zenon, SharersCounted
<1>3. CASE op = "EX"
  BY Zenon, <1>1, <1>3, LocksAssumption DEF FlockConflict
<1>4. CASE op = "SH" /\ f # g
  BY <1>1, <1>2, <1>4 DEF FlockConflict
<1>5. CASE op = "SH" /\ f = g
  BY <1>1, <1>2, <1>5 DEF FlockConflict, FlocksExact
<1> QED BY Zenon, <1>3, <1>4, <1>5

-----------------------------------------------------------------------------
(* The steps.  Only t moves, and the others may only be woken. *)
Alone(t) ==
    /\ Domains'
    /\ \A u \in Tasks \ {t} :
          /\ pc'[u] = pc[u] /\ call'[u] = call[u]
          /\ status'[u] = "waiting" => status[u] = "waiting"

(* The part of CallsInv about one task. *)
Named(t) ==
    /\ pc[t] \in LockLabels => call[t].file \in OpenFiles
    /\ pc[t] \in {"range", "range_sleep"} /\ call[t].op # "getlk" =>
          Group[t] \in posix_locks_used
    /\ pc[t] \in {"flock", "flock_sleep"} => call[t].type \in {"SH", "EX", "UN"}
    /\ Sleeping(t, "flock_sleep") => call[t].type # "UN"

LEMMA AloneKeepsCalls ==
    ASSUME CallsInv, NEW t \in Tasks, Alone(t), Named(t)',
           posix_locks_used \subseteq posix_locks_used',
           f_flock' \in [OpenFiles -> {"none", "SH", "EX"}], i_flock_sh' \in Nat
    PROVE  CallsInv'
<1>1. \A u \in Tasks : Named(u)'
  BY DEF CallsInv, Alone, Named, Sleeping
<1> QED BY Zenon, <1>1 DEF CallsInv, Named, Alone, Domains

(* What a sleeper has while the lists are whole: a place on its list, and   *)
(* something that it waits for.                                             *)
RangeSleeper(t) ==
    /\ t \in range_wait \cup unlinked /\ t \in wait_interruptible
    /\ range_lock \/ Conflicts(Group[t], request[t]) # {}

FlockSleeper(t) ==
    /\ t \in flock_wait /\ t \in wait_interruptible
    /\ call[t].type = "EX" => FlockConflict(call[t].file, "EX")

LEMMA Sleepers ==
    SleepersInv /\ NoStrandedLocker /\ ~undefined =>
        \A t \in Tasks : /\ Sleeping(t, "range_sleep") => RangeSleeper(t)
                         /\ Sleeping(t, "flock_sleep") => FlockSleeper(t)
BY Zenon DEF SleepersInv, NoStrandedLocker, RangeSleeper, FlockSleeper

(* The steps of fs_posix_lock and of fs_close that leave the whole-file     *)
(* lock alone keep what is said about its sleepers.  A step that changes    *)
(* the ranges keeps range_lock to wake the waiters.                         *)
LEMMA RangeStepKeeps ==
    ASSUME LocksInv, NEW t \in Tasks, Alone(t), RangesInv', Named(t)',
           pc'[t] \notin {"flock_sleep"}, UNCHANGED flockVars,
           posix_locks_used \subseteq posix_locks_used',
           \A u \in Tasks \ {t} : request'[u] = request[u],
           undefined => undefined', range_lock => range_lock', ranges' = ranges \/ range_lock',
           range_wait \subseteq range_wait', unlinked' = unlinked,
           wait_interruptible \subseteq wait_interruptible',
           Sleeping(t, "range_sleep")' => RangeSleeper(t)'
    PROVE  LocksInv'
<1>1. FlocksExact'
  BY Zenon DEF LocksInv, FlocksExact, flockVars
<1>2. CallsInv'
  BY Zenon, AloneKeepsCalls DEF LocksInv, CallsInv, flockVars
<1>3. SUFFICES ASSUME ~undefined'
               PROVE  \A u \in Tasks : /\ Sleeping(u, "range_sleep")' => RangeSleeper(u)'
                                       /\ Sleeping(u, "flock_sleep")' => FlockSleeper(u)'
  <2>1. (SleepersInv /\ NoStrandedLocker)'
    BY Zenon, <1>3 DEF SleepersInv, NoStrandedLocker, RangeSleeper, FlockSleeper
  <2> QED BY Zenon, <1>1, <1>2, <2>1 DEF LocksInv
<1>4. ASSUME NEW u \in Tasks, Sleeping(u, "flock_sleep")' PROVE FlockSleeper(u)'
  <2>1. Sleeping(u, "flock_sleep") /\ call'[u] = call[u]
    BY Zenon, <1>4 DEF Alone, Sleeping
  <2>2. FlockSleeper(u)
    BY Zenon, <2>1, <1>3, Sleepers DEF LocksInv
  <2> QED BY Zenon, <2>1, <2>2 DEF FlockSleeper, FlockConflict, flockVars
<1>5. ASSUME NEW u \in Tasks, u # t, Sleeping(u, "range_sleep")' PROVE RangeSleeper(u)'
  <2>1. Sleeping(u, "range_sleep") /\ request'[u] = request[u]
    BY Zenon, <1>5 DEF Alone, Sleeping
  <2>2. RangeSleeper(u)
    BY Zenon, <2>1, <1>3, Sleepers DEF LocksInv
  <2>3. ranges' = ranges => Conflicts(Group[u], request[u])' = Conflicts(Group[u], request[u])
    BY Zenon, <2>1 DEF Conflicts
  <2> QED BY Zenon, <2>2, <2>3 DEF RangeSleeper
<1> QED BY Zenon, <1>4, <1>5

(* wake_waiters has come to every waiter when it gives up range_lock. *)
LEMMA WakeKeeps ==
    ASSUME LocksInv, NEW t \in Tasks, wake_waiters(t)
    PROVE  LocksInv'
<1>1. /\ pc[t] = "wake_ranges" /\ call' = call
      /\ UNCHANGED <<ranges, posix_locks_used, request, bytes, f_flock, i_flock_sh,
                     i_flock_ex_owner, undefined>>
  BY Zenon DEF wake_waiters
<1>2. /\ pc' = pc \/ pc' = [pc EXCEPT ![t] = "fs_put_file"]
      /\ status' = status \/ ps_put_to_ready_queue(unlinked)
  BY Zenon DEF wake_waiters, Step
<1>3. Alone(t)
  BY Zenon, <1>1, <1>2 DEF Alone, Domains, LocksInv, CallsInv, ps_put_to_ready_queue
<1>4. Named(t)' /\ pc'[t] \notin {"range_sleep", "flock_sleep"}
  BY Zenon, <1>1, <1>2 DEF Named, Sleeping, LocksInv, CallsInv, LockLabels
<1>5. RangesInv'
  BY Zenon, <1>1, RangesSame DEF LocksInv
<1>6. FlocksExact'
  BY Zenon, <1>1 DEF LocksInv, FlocksExact
<1>7. CallsInv'
  BY Zenon, <1>1, <1>3, <1>4, AloneKeepsCalls DEF LocksInv, CallsInv
<1>8. SUFFICES ASSUME ~undefined'
               PROVE  \A u \in Tasks : /\ Sleeping(u, "range_sleep")' => RangeSleeper(u)'
                                       /\ Sleeping(u, "flock_sleep")' => FlockSleeper(u)'
  <2>1. (SleepersInv /\ NoStrandedLocker)'
    BY Zenon, <1>8 DEF SleepersInv, NoStrandedLocker, RangeSleeper, FlockSleeper
  <2> QED BY Zenon, <1>5, <1>6, <1>7, <2>1 DEF LocksInv
<1>9. ~undefined
  BY Zenon, <1>1, <1>8
<1>10. ASSUME NEW u \in Tasks, Sleeping(u, "flock_sleep")' PROVE FlockSleeper(u)'
  <2>1. Sleeping(u, "flock_sleep")
    BY Zenon, <1>3, <1>4, <1>10 DEF Alone, Sleeping
  <2>2. FlockSleeper(u)
    BY Zenon, <2>1, <1>9, Sleepers DEF LocksInv
  <2>3. u \in flock_wait' /\ u \in wait_interruptible'
    BY Zenon, <1>10, <2>2 DEF wake_waiters, ps_put_to_ready_queue, FlockSleeper, Sleeping
  <2> QED BY Zenon, <1>1, <2>2, <2>3 DEF FlockSleeper, FlockConflict
<1>11. ASSUME NEW u \in Tasks, Sleeping(u, "range_sleep")' PROVE RangeSleeper(u)'
  <2>1. Sleeping(u, "range_sleep")
    BY Zenon, <1>3, <1>4, <1>11 DEF Alone, Sleeping
  <2>2. RangeSleeper(u)
    BY Zenon, <2>1, <1>9, Sleepers DEF LocksInv
  <2>3. u \in range_wait \cup unlinked /\ u \in wait_interruptible
    BY Zenon, <2>2 DEF RangeSleeper
  <2>4. ASSUME unlinked = {},
               \E v \in range_wait : unlinked' = {v} /\ range_wait' = range_wait \ {v}
        PROVE  u \in range_wait' \cup unlinked'
    BY Zenon, <2>3, <2>4
  <2>5. ASSUME ps_put_to_ready_queue(unlinked), range_wait' = range_wait
        PROVE  u \in range_wait' \cup unlinked' /\ u \in wait_interruptible'
    BY Zenon, <1>11, <2>3, <2>5 DEF ps_put_to_ready_queue, Sleeping
  <2>6. /\ range_lock' = range_lock
        /\ \/ ps_put_to_ready_queue(unlinked) /\ range_wait' = range_wait
           \/ /\ unlinked = {} /\ wait_interruptible' = wait_interruptible
              /\ \E v \in range_wait : unlinked' = {v} /\ range_wait' = range_wait \ {v}
    <3>1. ~(unlinked = {} /\ range_wait = {})
      BY Zenon, <2>3
    <3> QED BY Zenon, <3>1 DEF wake_waiters
  <2>7. u \in range_wait' \cup unlinked' /\ u \in wait_interruptible'
    BY Zenon, <2>3, <2>4, <2>5, <2>6
  <2>8. Conflicts(Group[u], request[u])' = Conflicts(Group[u], request[u])
    BY Zenon, <1>1 DEF Conflicts
  <2> QED BY Zenon, <2>2, <2>6, <2>7, <2>8 DEF RangeSleeper
<1> QED BY Zenon, <1>10, <1>11

(* And the steps of sys_flock and of the last close what is said about the  *)
(* ranges.                                                                  *)
LEMMA FlockStepKeeps ==
    ASSUME LocksInv, NEW t \in Tasks, Alone(t), FlocksExact', Named(t)',
           pc'[t] # "range_sleep", UNCHANGED rangeVars, undefined => undefined',
           f_flock' \in [OpenFiles -> {"none", "SH", "EX"}], i_flock_sh' \in Nat,
           \/ undefined'
           \/ /\ flock_wait \subseteq flock_wait' /\ wait_interruptible \subseteq wait_interruptible'
              /\ \A g \in OpenFiles : FlockConflict(g, "EX") => FlockConflict(g, "EX")'
           \/ ps_put_to_ready_queue(flock_wait),
           Sleeping(t, "flock_sleep")' => FlockSleeper(t)'
    PROVE  LocksInv'
<1>1. RangesInv'
  BY Zenon, RangesSame DEF LocksInv, rangeVars
<1>2. CallsInv'
  BY Zenon, AloneKeepsCalls DEF LocksInv, rangeVars
<1>3. SUFFICES ASSUME ~undefined'
               PROVE  \A u \in Tasks : /\ Sleeping(u, "range_sleep")' => RangeSleeper(u)'
                                       /\ Sleeping(u, "flock_sleep")' => FlockSleeper(u)'
  <2>1. (SleepersInv /\ NoStrandedLocker)'
    BY Zenon, <1>3 DEF SleepersInv, NoStrandedLocker, RangeSleeper, FlockSleeper
  <2> QED BY Zenon, <1>1, <1>2, <2>1 DEF LocksInv
<1>4. ASSUME NEW u \in Tasks, Sleeping(u, "range_sleep")' PROVE RangeSleeper(u)'
  <2>1. Sleeping(u, "range_sleep")
    BY Zenon, <1>4 DEF Alone, Sleeping
  <2>2. RangeSleeper(u)
    BY Zenon, <2>1, <1>3, Sleepers DEF LocksInv
  <2>3. u \in wait_interruptible'
    BY Zenon, <1>3, <1>4, <2>2 DEF RangeSleeper, ps_put_to_ready_queue, Sleeping
  <2>4. Conflicts(Group[u], request[u])' = Conflicts(Group[u], request[u])
    BY Zenon DEF Conflicts, rangeVars
  <2> QED BY Zenon, <2>2, <2>3, <2>4 DEF RangeSleeper, rangeVars
<1>5. ASSUME NEW u \in Tasks, u # t, Sleeping(u, "flock_sleep")' PROVE FlockSleeper(u)'
  <2>1. Sleeping(u, "flock_sleep") /\ call'[u] = call[u]
    BY Zenon, <1>5 DEF Alone, Sleeping
  <2>2. FlockSleeper(u) /\ call[u].file \in OpenFiles
    BY Zenon, <2>1, <1>3, Sleepers DEF LocksInv, CallsInv, LockLabels, Sleeping
  <2>3. ~ps_put_to_ready_queue(flock_wait)
    BY Zenon, <1>5, <2>2 DEF FlockSleeper, ps_put_to_ready_queue, Sleeping
  <2>4. PICK g \in OpenFiles : g = call[u].file
    BY Zenon, <2>2
  <2>5. FlockConflict(g, "EX") => FlockConflict(g, "EX")'
    BY Zenon, <2>3, <1>3
  <2> QED BY Zenon, <1>3, <2>1, <2>2, <2>3, <2>4, <2>5 DEF FlockSleeper
<1> QED BY Zenon, <1>4, <1>5

(* The range of an accepted call. *)
LEMMA AcceptedRange ==
    ASSUME NEW c, c.base \in Int, c.l_start \in Int, c.l_len \in Int, Accepted(c)
    PROVE  /\ [type |-> c.type, start |-> start(c), end |-> end(c)] \in Request
           /\ start(c) <= end(c)
<1>1. /\ start(c) \in Int /\ end(c) \in Int /\ 0 <= start(c)
      /\ start(c) <= end(c) /\ end(c) <= INT64_MAX
  BY LocksAssumption DEF Accepted, First, start, end
<1>2. c.type \in Types
  BY Zenon DEF Accepted, Types
<1>3. start(c) \in Offsets /\ end(c) \in Offsets
  BY <1>1, LocksAssumption DEF Offsets
<1> QED BY Zenon, <1>1, <1>2, <1>3 DEF Request

(* The first step of a lock call. *)
LEMMA CallKeeps ==
    ASSUME LocksInv, NEW t \in Tasks, NEW c, LegalCall(c), LockCall(t, c)
    PROVE  LocksInv'
<1> USE DEF LocksInv
<1>1. CASE c.op \in {"getlk", "setlk", "setlkw"} /\ posix_request(t, c)
  <2>1. /\ c.file \in OpenFiles /\ c.base \in Int /\ c.l_start \in Int /\ c.l_len \in Int
    BY Zenon, <1>1 DEF LegalCall, LockOps
  <2>2. /\ pc' = [pc EXCEPT ![t] = "range"] /\ call' = [call EXCEPT ![t] = c]
        /\ status' = status /\ wait_interruptible' = wait_interruptible
    BY Zenon, <1>1 DEF posix_request, Step, taskVars, schedVars
  <2>3. Alone(t) /\ pc'[t] = "range" /\ call'[t] = c
    BY Zenon, <2>2 DEF Alone, Domains, CallsInv
  <2>4. /\ [type |-> c.type, start |-> start(c), end |-> end(c)] \in Request /\ start(c) <= end(c)
    BY Zenon, <1>1, <2>1, AcceptedRange DEF posix_request
  <2>5. /\ request' \in [Tasks -> Request] /\ \A u \in Tasks \ {t} : request'[u] = request[u]
        /\ request'[t].start <= request'[t].end
    BY Zenon, <1>1, <2>4 DEF posix_request, RangesInv
  <2>6. /\ ranges' = ranges /\ bytes' = bytes /\ range_wait' = range_wait
        /\ posix_locks_used \subseteq posix_locks_used'
        /\ c.op # "getlk" => Group[t] \in posix_locks_used'
        /\ UNCHANGED flockVars /\ unlinked' = unlinked
        /\ undefined' = undefined /\ range_lock' = range_lock
    BY Zenon, <1>1 DEF posix_request
  <2>7. RangesInv'
    <3>1. \A u \in Tasks : request[u].start <= request[u].end
      BY Zenon DEF RangesInv
    <3>2. \A u \in Tasks : request'[u].start <= request'[u].end
      BY Zenon, <2>5, <3>1
    <3> QED BY Zenon, <2>5, <2>6, <3>2, RangesFrame
  <2>8. Named(t)' /\ ~Sleeping(t, "range_sleep")' /\ pc'[t] \notin {"flock_sleep"}
    BY Zenon, <2>1, <2>3, <2>6 DEF Named, Sleeping
  <2> QED BY Zenon, <2>2, <2>3, <2>5, <2>6, <2>7, <2>8, RangeStepKeeps
<1>2. CASE c.op = "flock" /\ flock_call(t, c)
  <2>1. c.file \in OpenFiles /\ c.type \in {"SH", "EX", "UN"}
    BY Zenon, <1>2 DEF LegalCall, LockOps
  <2>2. /\ pc' = [pc EXCEPT ![t] = "flock"] /\ call' = [call EXCEPT ![t] = c]
        /\ status' = status /\ wait_interruptible' = wait_interruptible
        /\ UNCHANGED rangeVars /\ UNCHANGED flockVars /\ undefined' = undefined
    BY Zenon, <1>2 DEF flock_call, Step, taskVars, schedVars, lockVars
  <2>3. Alone(t) /\ pc'[t] = "flock" /\ call'[t] = c
    BY Zenon, <2>2 DEF Alone, Domains, CallsInv
  <2>4. RangesInv'
    BY Zenon, <2>2, RangesSame DEF rangeVars
  <2>5. Named(t)' /\ ~Sleeping(t, "range_sleep")' /\ pc'[t] \notin {"flock_sleep"}
    BY Zenon, <2>1, <2>3 DEF Named, Sleeping
  <2> QED BY Zenon, <2>2, <2>3, <2>4, <2>5, RangeStepKeeps DEF rangeVars
<1>3. CASE c.op = "fs_close" /\ close_call(t, c)
  <2>1. c.file \in OpenFiles
    BY Zenon, <1>3 DEF LegalCall, LockOps
  <2>2. /\ pc' = [pc EXCEPT ![t] = "close_ranges"] /\ call' = [call EXCEPT ![t] = c]
        /\ status' = status /\ wait_interruptible' = wait_interruptible
        /\ UNCHANGED rangeVars /\ UNCHANGED flockVars /\ undefined' = undefined
    BY Zenon, <1>3 DEF close_call, Step, taskVars, schedVars
  <2>3. Alone(t) /\ pc'[t] = "close_ranges" /\ call'[t] = c
    BY Zenon, <2>2 DEF Alone, Domains, CallsInv
  <2>4. RangesInv'
    BY Zenon, <2>2, RangesSame DEF rangeVars
  <2>5. Named(t)' /\ ~Sleeping(t, "range_sleep")' /\ pc'[t] \notin {"flock_sleep"}
    BY Zenon, <2>1, <2>3 DEF Named, Sleeping
  <2> QED BY Zenon, <2>2, <2>3, <2>4, <2>5, RangeStepKeeps DEF rangeVars
<1> QED BY Zenon, <1>1, <1>2, <1>3 DEF LockCall

(* The later steps of a lock call. *)
LEMMA PosixStepKeeps ==
    ASSUME LocksInv, NEW t \in Tasks,
           \/ posix_refused(t) \/ posix_sleep(t) \/ posix_resume(t) \/ posix_set(t)
           \/ close_ranges(t) \/ wake_waiters(t)
    PROVE  LocksInv'
<1> USE DEF LocksInv
<1>0. Group[t] \in Owners /\ request[t] \in Request /\ request[t].start <= request[t].end
  BY Zenon, LocksAssumption DEF RangesInv
<1>1. CASE posix_refused(t) \/ posix_resume(t)
  <2>1. /\ pc[t] \in {"range", "range_sleep"}
        /\ pc' = [pc EXCEPT ![t] = "fs_put_file"] \/ pc' = [pc EXCEPT ![t] = "range"]
    BY Zenon, <1>1 DEF posix_refused, posix_resume, Step
  <2>2. /\ call' = call /\ status' = status /\ wait_interruptible' = wait_interruptible
        /\ UNCHANGED rangeVars /\ UNCHANGED flockVars /\ undefined' = undefined
    BY Zenon, <1>1 DEF posix_refused, posix_resume, taskVars, schedVars,
       lockVars
  <2>3. Alone(t) /\ pc'[t] \in {"fs_put_file", "range"}
    BY Zenon, <2>1, <2>2 DEF Alone, Domains, CallsInv
  <2>4. RangesInv'
    BY Zenon, <2>2, RangesSame DEF rangeVars
  <2>5. Named(t)' /\ ~Sleeping(t, "range_sleep")' /\ pc'[t] \notin {"flock_sleep"}
    BY Zenon, <2>1, <2>2, <2>3 DEF Named, Sleeping, CallsInv, LockLabels,
       rangeVars
  <2> QED BY Zenon, <2>2, <2>3, <2>4, <2>5, RangeStepKeeps DEF rangeVars
<1>2. CASE posix_sleep(t)
  <2>1. /\ pc[t] = "range" /\ pc' = [pc EXCEPT ![t] = "range_sleep"] /\ call' = call
        /\ status' = [status EXCEPT ![t] = "waiting"]
        /\ wait_interruptible' = wait_interruptible \cup {t} /\ range_wait' = range_wait \cup {t}
        /\ ranges' = ranges /\ request' = request /\ bytes' = bytes
        /\ posix_locks_used' = posix_locks_used /\ UNCHANGED flockVars
        /\ Conflicts(Group[t], request[t]) # {}
        /\ unlinked' = unlinked /\ undefined' = undefined /\ range_lock' = range_lock
    BY Zenon, <1>2 DEF posix_sleep, Step, ps_prepare_interruptible_wait
  <2>2. Alone(t) /\ pc'[t] = "range_sleep"
    BY Zenon, <2>1 DEF Alone, Domains, CallsInv
  <2>3. RangesInv'
    BY Zenon, <2>1, RangesSame
  <2>4. Named(t)' /\ pc'[t] \notin {"flock_sleep"}
    BY Zenon, <2>1, <2>2 DEF Named, Sleeping, CallsInv, LockLabels
  <2>5. Conflicts(Group[t], request[t])' = Conflicts(Group[t], request[t])
    BY Zenon, <2>1 DEF Conflicts
  <2>6. RangeSleeper(t)'
    BY Zenon, <2>1, <2>5 DEF RangeSleeper
  <2> QED BY Zenon, <2>1, <2>2, <2>3, <2>4, <2>6, RangeStepKeeps
<1>3. CASE posix_set(t)
  <2>1. /\ pc[t] = "range" /\ pc' = [pc EXCEPT ![t] = "wake_ranges"] /\ call' = call
        /\ status' = status /\ wait_interruptible' = wait_interruptible
        /\ range_lock' /\ undefined' = undefined /\ unlinked' = unlinked
        /\ range_wait' = range_wait /\ request' = request
        /\ posix_locks_used' = posix_locks_used /\ UNCHANGED flockVars
        /\ Replace(Group[t], request[t]) /\ Assign(Group[t], request[t])
        /\ request[t].type = "UNLCK" \/ Conflicts(Group[t], request[t]) = {}
        /\ call[t].op # "getlk"
    BY Zenon, <1>3 DEF posix_set, Step, taskVars, schedVars
  <2>2. Alone(t) /\ pc'[t] = "wake_ranges"
    BY Zenon, <2>1 DEF Alone, Domains, CallsInv
  <2>3. Group[t] \in posix_locks_used
    BY Zenon, <2>1 DEF CallsInv
  <2>4. RangesInv'
    BY Zenon, <1>0, <2>1, <2>3, SetKeeps
  <2>5. Named(t)' /\ ~Sleeping(t, "range_sleep")' /\ pc'[t] \notin {"flock_sleep"}
    BY Zenon, <2>1, <2>2 DEF Named, Sleeping, CallsInv, LockLabels
  <2> QED BY Zenon, <2>1, <2>2, <2>4, <2>5, RangeStepKeeps
<1>4. CASE close_ranges(t)
  <2>1. /\ call' = call /\ status' = status /\ wait_interruptible' = wait_interruptible
        /\ request' = request /\ posix_locks_used' = posix_locks_used /\ UNCHANGED flockVars
        /\ range_wait' = range_wait /\ unlinked' = unlinked /\ undefined' = undefined
        /\ fs_posix_lock_release(t, Group[t])
    BY Zenon, <1>4 DEF close_ranges, taskVars, schedVars
  <2>2. /\ pc[t] = "close_ranges"
        /\ pc' = [pc EXCEPT ![t] = "wake_ranges"] \/ pc' = [pc EXCEPT ![t] = "fs_put_file"]
        /\ range_lock => range_lock'
        /\ range_lock' \/ ranges' = ranges
    BY Zenon, <2>1 DEF fs_posix_lock_release, Step
  <2>3. Alone(t) /\ pc'[t] \in {"wake_ranges", "fs_put_file"}
    BY Zenon, <2>1, <2>2 DEF Alone, Domains, CallsInv
  <2>4. RangesInv'
    BY Zenon, <1>0, <2>1, ReleaseKeeps
  <2>5. Named(t)' /\ ~Sleeping(t, "range_sleep")' /\ pc'[t] \notin {"flock_sleep"}
    BY Zenon, <2>1, <2>2, <2>3 DEF Named, Sleeping, CallsInv, LockLabels
  <2> QED BY Zenon, <2>1, <2>2, <2>3, <2>4, <2>5, RangeStepKeeps
<1> QED BY Zenon, <1>1, <1>2, <1>3, <1>4, WakeKeeps

LEMMA FlockKeeps ==
    ASSUME LocksInv, NEW t \in Tasks,
           \/ flock_unlock(t) \/ flock_refused(t) \/ flock_sleep(t) \/ flock_take(t)
           \/ fs_flock_release(t)
    PROVE  LocksInv'
<1> USE DEF LocksInv
<1>0. /\ FlocksExact /\ f_flock \in [OpenFiles -> {"none", "SH", "EX"}] /\ i_flock_sh \in Nat
      /\ AtFlock(t) => call[t].file \in OpenFiles /\ call[t].type \in {"SH", "EX", "UN"}
      /\ pc[t] = "fs_put_file" => call[t].file \in OpenFiles
  BY Zenon DEF CallsInv, AtFlock, LockLabels
<1>1. ASSUME pc' = [pc EXCEPT ![t] = "user"], call' = [call EXCEPT ![t] = NoCall],
             (\E f : flock_wake_all(f)) \/ status' = status
      PROVE  /\ Alone(t) /\ Named(t)' /\ pc'[t] # "range_sleep"
             /\ ~Sleeping(t, "flock_sleep")'
  <2>1. Alone(t) /\ pc'[t] = "user"
    BY Zenon, <1>1 DEF Alone, Domains, CallsInv, flock_wake_all,
       ps_put_to_ready_queue
  <2> QED BY Zenon, <2>1 DEF Named, Sleeping, LockLabels
<1>2. ASSUME UNCHANGED <<f_flock, i_flock_sh, i_flock_ex_owner>>
      PROVE  FlocksExact' /\ \A g \in OpenFiles : FlockConflict(g, "EX") => FlockConflict(g, "EX")'
  BY Zenon, <1>2 DEF FlocksExact, FlockConflict
<1>8. ASSUME NEW f, flock_wake_all(f)
      PROVE  (undefined => undefined') /\ (undefined' \/ ps_put_to_ready_queue(flock_wait))
  BY Zenon, <1>8 DEF flock_wake_all
<1>3. CASE flock_refused(t)
  <2>1. /\ pc' = [pc EXCEPT ![t] = "user"] /\ call' = [call EXCEPT ![t] = NoCall]
        /\ status' = status /\ wait_interruptible' = wait_interruptible
        /\ UNCHANGED rangeVars /\ UNCHANGED flockVars /\ undefined' = undefined
    BY Zenon, <1>3 DEF flock_refused, ReturnToUser, schedVars, lockVars
  <2> QED BY Zenon, <2>1, <1>0, <1>1, <1>2, FlockStepKeeps DEF flockVars
<1>4. CASE flock_unlock(t)
  <2>1. /\ pc' = [pc EXCEPT ![t] = "user"] /\ call' = [call EXCEPT ![t] = NoCall]
        /\ flock_wake_all(FALSE) /\ UNCHANGED rangeVars /\ Convert(call[t].file, "none") /\ AtFlock(t)
    BY Zenon, <1>4 DEF flock_unlock, ReturnToUser
  <2>2. /\ FlocksExact' /\ f_flock' \in [OpenFiles -> {"none", "SH", "EX"}] /\ i_flock_sh' \in Nat
    BY Zenon, <2>1, <1>0, ConvertKeeps
  <2> QED BY Zenon, <2>1, <2>2, <1>1, <1>8, FlockStepKeeps
<1>5. CASE flock_take(t)
  <2>1. /\ pc' = [pc EXCEPT ![t] = "user"] /\ call' = [call EXCEPT ![t] = NoCall]
        /\ status' = status /\ wait_interruptible' = wait_interruptible
        /\ UNCHANGED rangeVars /\ flock_wait' = flock_wait /\ undefined' = undefined
        /\ Convert(call[t].file, call[t].type) /\ ~FlockConflict(call[t].file, call[t].type)
        /\ AtFlock(t) /\ call[t].type # "UN"
    BY Zenon, <1>5 DEF flock_take, ReturnToUser, schedVars
  <2>2. call[t].file \in OpenFiles /\ call[t].type \in {"SH", "EX"}
    BY Zenon, <2>1, <1>0
  <2>3. /\ FlocksExact' /\ f_flock' \in [OpenFiles -> {"none", "SH", "EX"}] /\ i_flock_sh' \in Nat
    BY Zenon, <2>1, <2>2, <1>0, ConvertKeeps
  <2>4. \A g \in OpenFiles : FlockConflict(g, "EX") => FlockConflict(g, "EX")'
    BY Zenon, <2>1, <2>2, <1>0, TakeKeepsConflict
  <2> QED BY Zenon, <2>1, <2>3, <2>4, <1>1, FlockStepKeeps
<1>6. CASE flock_sleep(t)
  <2>1. /\ AtFlock(t) /\ call[t].type # "UN" /\ FlockConflict(call[t].file, call[t].type)
        /\ pc' = [pc EXCEPT ![t] = "flock_sleep"] /\ call' = call
        /\ status' = [status EXCEPT ![t] = "waiting"]
        /\ wait_interruptible' = wait_interruptible \cup {t} /\ flock_wait' = flock_wait \cup {t}
        /\ UNCHANGED rangeVars /\ UNCHANGED <<f_flock, i_flock_sh, i_flock_ex_owner>>
        /\ undefined' = undefined
    BY Zenon, <1>6 DEF flock_sleep, ps_prepare_interruptible_wait
  <2>2. Alone(t) /\ pc'[t] = "flock_sleep"
    BY Zenon, <2>1 DEF Alone, Domains, CallsInv
  <2>3. Named(t)'
    BY Zenon, <2>1, <2>2, <1>0 DEF Named, Sleeping, LockLabels
  <2>4. FlockSleeper(t)'
    BY Zenon, <2>1 DEF FlockSleeper, FlockConflict
  <2> QED BY Zenon, <2>1, <2>2, <2>3, <2>4, <1>0, <1>2, FlockStepKeeps
<1>7. CASE fs_flock_release(t)
  <2>1. /\ pc' = [pc EXCEPT ![t] = "user"] /\ call' = [call EXCEPT ![t] = NoCall]
        /\ pc[t] = "fs_put_file" /\ UNCHANGED rangeVars
        /\ \/ Convert(call[t].file, "none") /\ \E f : flock_wake_all(f)
           \/ (undefined => undefined') /\ UNCHANGED <<flockVars, status, wait_interruptible>>
    BY Zenon, <1>7 DEF fs_flock_release, ReturnToUser
  <2>2. CASE Convert(call[t].file, "none") /\ \E f : flock_wake_all(f)
    <3>1. /\ FlocksExact' /\ f_flock' \in [OpenFiles -> {"none", "SH", "EX"}] /\ i_flock_sh' \in Nat
      BY Zenon, <2>1, <2>2, <1>0, ConvertKeeps
    <3> QED BY Zenon, <2>1, <2>2, <3>1, <1>1, <1>8, FlockStepKeeps
  <2>3. CASE (undefined => undefined') /\ UNCHANGED <<flockVars, status, wait_interruptible>>
    BY Zenon, <2>1, <2>3, <1>0, <1>1, <1>2, FlockStepKeeps DEF flockVars
  <2> QED BY Zenon, <2>1, <2>2, <2>3
<1> QED BY Zenon, <1>3, <1>4, <1>5, <1>6, <1>7

(* A signal takes its sleeper off both lists, and wakes it. *)
LEMMA SignalKeeps ==
    ASSUME LocksInv, NEW t \in Tasks, LockSignal(t)
    PROVE  LocksInv'
<1> USE DEF LocksInv
<1>1. /\ pc' = pc /\ call' = call
      /\ ps_put_to_ready_queue(IF t \in wait_interruptible THEN {t} ELSE {})
      /\ range_wait' = range_wait \ {t} /\ flock_wait' = flock_wait \ {t}
      /\ UNCHANGED <<ranges, posix_locks_used, request, bytes, f_flock, i_flock_sh, i_flock_ex_owner,
                     range_lock, unlinked>>
      /\ undefined => undefined'
  BY Zenon DEF LockSignal, queue_signal
<1>2. \A u \in Tasks : status'[u] = "waiting" =>
          /\ status[u] = "waiting"
          /\ u \in wait_interruptible => u # t /\ u \in wait_interruptible'
  BY Zenon, <1>1 DEF ps_put_to_ready_queue
<1>3. DOMAIN status' = Tasks
  BY Zenon, <1>1 DEF ps_put_to_ready_queue
<1>4. \A u \in Tasks : \A l : Sleeping(u, l)' => Sleeping(u, l)
  BY Zenon, <1>1, <1>2 DEF Sleeping
<1>5. RangesInv'
  BY Zenon, <1>1, RangesSame
<1>6. FlocksExact'
  BY Zenon, <1>1 DEF FlocksExact
<1>7. CallsInv'
  BY Zenon, <1>1, <1>3, <1>4 DEF CallsInv
<1>8. SleepersInv'
  BY Zenon, <1>1, <1>2 DEF SleepersInv, Sleeping
<1>9. \A u \in Tasks : Conflicts(Group[u], request[u])' = Conflicts(Group[u], request[u])
  BY Zenon, <1>1 DEF Conflicts
<1>10. \A u \in Tasks : FlockConflict(call[u].file, "EX")' = FlockConflict(call[u].file, "EX")
  BY Zenon, <1>1 DEF FlockConflict
<1>11. NoStrandedLocker'
  BY Zenon, <1>1, <1>4, <1>9, <1>10 DEF NoStrandedLocker
<1> QED BY <1>5, <1>6, <1>7, <1>8, <1>11
=============================================================================
