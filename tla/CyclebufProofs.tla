--------------------------- MODULE CyclebufProofs ---------------------------
(***************************************************************************)
(* cy_buf for any number of readers and writers and any size: the ring is  *)
(* a queue and is freed only when nobody uses it.                          *)
(***************************************************************************)
EXTENDS Cyclebuf, FiniteSetTheorems, SequenceTheorems, TLAPS

(* A function on 1..n is a sequence. *)
LEMMA FunctionIsSeq ==
    ASSUME NEW S, NEW n \in Nat, NEW f \in [1..n -> S]
    PROVE  f \in Seq(S) /\ Len(f) = n
OBVIOUS

(* A sequence is the function of its positions. *)
LEMMA SeqIsFunction ==
    ASSUME NEW S, NEW q \in Seq(S)
    PROVE  q = [i \in 1..Len(q) |-> q[i]] /\ q \in [1..Len(q) -> S] /\ Len(q) \in Nat
OBVIOUS

(* Concatenation, position by position. *)
LEMMA ConcatIs ==
    ASSUME NEW S, NEW q \in Seq(S), NEW r \in Seq(S)
    PROVE  q \o r = [i \in 1..Len(q) + Len(r) |-> IF i <= Len(q) THEN q[i] ELSE r[i - Len(q)]]
<1>1. /\ q \o r \in Seq(S) /\ Len(q \o r) = Len(q) + Len(r)
      /\ \A i \in 1..Len(q) + Len(r) :
            (q \o r)[i] = IF i <= Len(q) THEN q[i] ELSE r[i - Len(q)]
  BY Zenon, ConcatProperties
<1>2. q \o r = [i \in 1..Len(q) + Len(r) |-> (q \o r)[i]]
  <2>1. q \o r = [i \in 1..Len(q \o r) |-> (q \o r)[i]]
    BY Zenon, <1>1, SeqIsFunction
  <2> QED BY <1>1, <2>1, Zenon
<1> QED BY Zenon, <1>1, <1>2

(* A position less than twice round is brought back into the buffer. *)
LEMMA AtRange ==
    ASSUME NEW k \in Int, k >= 0, k < Size + Size
    PROVE  At(k) \in 0..Size - 1
BY SizeAssumption DEF At

(* The mapped queue holds length bytes. *)
LEMMA QueueType ==
    ASSUME CycInv
    PROVE  queue \in Seq(Bytes) /\ Len(queue) = length
<1>1. queue \in [1..length -> Bytes]
  BY SizeAssumption DEF CycInv, TypeOK, queue, At
<1> QED BY <1>1, FunctionIsSeq DEF CycInv, TypeOK

(* cyb_copy_in appends to the queue and leaves what is in it alone. *)
LEMMA CopyIn ==
    ASSUME CycInv, NEW n \in 0..Size - length, NEW s \in [1..n -> Bytes], cyb_copy_in(s)
    PROVE  /\ buf' \in [0..Size - 1 -> Bytes]
           /\ length' \in 0..Size /\ read_idx' \in 0..Size - 1 /\ write_idx' \in 0..Size - 1
           /\ write_idx' = At(read_idx' + length')
           /\ length' = length + n
           /\ queue' = queue \o s
<1>1. n \in Nat /\ s \in Seq(Bytes) /\ Len(s) = n /\ Size \in Nat /\ Size > 0 /\ length + n <= Size
  BY FunctionIsSeq, SizeAssumption DEF CycInv, TypeOK
<1>2. /\ length \in 0..Size /\ read_idx \in 0..Size - 1 /\ write_idx \in 0..Size - 1
      /\ write_idx = At(read_idx + length) /\ buf \in [0..Size - 1 -> Bytes]
  BY Zenon DEF CycInv, TypeOK
<1>3. /\ length' = length + n /\ read_idx' = read_idx
      /\ write_idx' = At(write_idx + n)
  BY Zenon, <1>1 DEF cyb_copy_in
<1>4. length' \in 0..Size /\ read_idx' \in 0..Size - 1 /\ write_idx' \in 0..Size - 1
  BY <1>1, <1>2, <1>3 DEF At
<1>5. write_idx' = At(read_idx' + length')
  BY <1>1, <1>2, <1>3 DEF At
<1> DEFINE first == Least(Size - write_idx, n)
<1>6. buf' = [i \in 0..Size - 1 |->
                IF i \in write_idx..write_idx + first - 1 THEN s[i - write_idx + 1]
                ELSE IF i < n - first THEN s[first + i + 1] ELSE buf[i]]
  BY Zenon, <1>1 DEF cyb_copy_in
<1>7. first \in 0..n /\ (first = n \/ first = Size - write_idx) /\ first <= Size - write_idx
  BY <1>1, <1>2 DEF Least
<1> HIDE DEF first
<1>8. ASSUME NEW i \in 0..Size - 1
      PROVE  buf'[i] \in Bytes
  <2>a. (\A j \in 1..n : s[j] \in Bytes) /\ n \in Nat /\ write_idx \in 0..Size - 1 /\ Size \in Nat
    BY Zenon, <1>1, <1>2
  <2>1. CASE i \in write_idx..write_idx + first - 1
    <3>1. i - write_idx + 1 \in 1..n
      BY <2>a, <1>7, <2>1
    <3> QED BY Zenon, <1>6, <2>a, <2>1, <3>1
  <2>2. CASE i \notin write_idx..write_idx + first - 1 /\ i < n - first
    <3>1. first + i + 1 \in 1..n
      BY <2>a, <1>7, <2>2
    <3> QED BY Zenon, <1>6, <2>a, <2>2, <3>1
  <2>3. CASE i \notin write_idx..write_idx + first - 1 /\ ~(i < n - first)
    BY Zenon, <1>2, <1>6, <2>3
  <2> QED BY Zenon, <2>1, <2>2, <2>3
<1>9. buf' \in [0..Size - 1 -> Bytes]
  BY Zenon, <1>6, <1>8
<1>10. ASSUME NEW i \in 1..length
       PROVE  queue'[i] = queue[i]
  <2> DEFINE k == At(read_idx + i - 1)
  <2>1. k \in 0..Size - 1
    BY <1>1, <1>2 DEF At
  <2>2. k \notin write_idx..write_idx + first - 1 /\ ~(k < n - first)
    BY <1>1, <1>2, <1>7 DEF At
  <2>3. buf'[k] = buf[k]
    BY Zenon, <1>6, <2>1, <2>2
  <2>4. i \in 1..length'
    BY <1>1, <1>2, <1>3
  <2> QED BY Zenon, <1>3, <2>3, <2>4 DEF queue, At
<1>11. ASSUME NEW i \in 1..n
       PROVE  queue'[length + i] = s[i]
  <2> DEFINE k == At(read_idx + length + i - 1)
  <2>1. k \in 0..Size - 1
    BY <1>1, <1>2 DEF At
  <2>4. queue'[length + i] = buf'[k]
    <3>1. length + i \in 1..length' /\ read_idx + (length + i) - 1 = read_idx + length + i - 1
      BY <1>1, <1>2, <1>3
    <3> QED BY Zenon, <1>3, <3>1 DEF queue, At
  <2>2. CASE i <= first
    <3>1. k = write_idx + i - 1 /\ k \in write_idx..write_idx + first - 1
      BY <1>1, <1>2, <1>7, <2>2 DEF At
    <3>2. buf'[k] = s[k - write_idx + 1] /\ k - write_idx + 1 = i
      BY <1>2, <1>6, <2>1, <3>1
    <3> QED BY Zenon, <2>4, <3>2
  <2>3. CASE i > first
    <3>1. k = i - first - 1 /\ k < n - first /\ k \notin write_idx..write_idx + first - 1
      BY <1>1, <1>2, <1>7, <2>3 DEF At
    <3>2. buf'[k] = s[first + k + 1] /\ first + k + 1 = i
      BY <1>1, <1>6, <1>7, <2>1, <3>1
    <3> QED BY Zenon, <2>4, <3>2
  <2> QED BY <1>1, <1>7, <2>2, <2>3
<1>12. queue' = queue \o s
  <2>1. queue \in Seq(Bytes) /\ Len(queue) = length
    BY Zenon, QueueType
  <2>2. queue \o s = [i \in 1..length + n |-> IF i <= length THEN queue[i] ELSE s[i - length]]
    <3>1. queue \o s = [i \in 1..Len(queue) + Len(s) |->
                           IF i <= Len(queue) THEN queue[i] ELSE s[i - Len(queue)]]
      BY Zenon, <1>1, <2>1, ConcatIs
    <3> QED BY <1>1, <2>1, <3>1, Zenon
  <2>3. queue' = [i \in 1..length + n |-> queue'[i]]
    BY Zenon, <1>3 DEF queue
  <2>4. ASSUME NEW i \in 1..length + n
        PROVE  queue'[i] = IF i <= length THEN queue[i] ELSE s[i - length]
    <3>1. CASE i <= length
      BY <1>2, <1>10, <3>1
    <3>2. CASE i > length
      <4>1. i - length \in 1..n /\ length + (i - length) = i
        BY <1>1, <1>2, <3>2
      <4>2. queue'[length + (i - length)] = s[i - length]
        BY Zenon, <1>11, <4>1
      <4> QED BY <1>2, <3>2, <4>1, <4>2
    <3> QED BY <1>1, <1>2, <3>1, <3>2
  <2> QED BY Zenon, <2>2, <2>3, <2>4
<1> QED BY Zenon, <1>3, <1>4, <1>5, <1>9, <1>12

(* cyb_copy_out takes the front of the queue. *)
LEMMA CopyOut ==
    ASSUME CycInv, NEW t \in Readers, NEW n \in 1..length, cyb_copy_out(t, n)
    PROVE  /\ buf' = buf
           /\ length' \in 0..Size /\ read_idx' \in 0..Size - 1 /\ write_idx' = write_idx
           /\ write_idx' = At(read_idx' + length')
           /\ queue' = SubSeq(queue, n + 1, Len(queue))
           /\ dst' = [dst EXCEPT ![t] = SubSeq(queue, 1, n)]
<1>1. /\ Size \in Nat /\ Size > 0 /\ n \in Nat
      /\ length \in 0..Size /\ read_idx \in 0..Size - 1 /\ write_idx \in 0..Size - 1
      /\ write_idx = At(read_idx + length) /\ buf \in [0..Size - 1 -> Bytes]
  BY SizeAssumption DEF CycInv, TypeOK
<1>2. /\ buf' = buf /\ write_idx' = write_idx
      /\ read_idx' = At(read_idx + n) /\ length' = length - n
  BY Zenon DEF cyb_copy_out
<1>3. /\ length' \in 0..Size /\ read_idx' \in 0..Size - 1
      /\ write_idx' = At(read_idx' + length')
  BY <1>1, <1>2 DEF At
<1>4. queue \in Seq(Bytes) /\ Len(queue) = length
  BY Zenon, QueueType
<1>5. queue' = SubSeq(queue, n + 1, Len(queue))
  <2>1. SubSeq(queue, n + 1, length) = [i \in 1..length - n |-> queue[i + n]]
    BY <1>1, <1>4
  <2>2. ASSUME NEW i \in 1..length - n
        PROVE  buf'[At(read_idx' + i - 1)] = queue[i + n]
    BY <1>1, <1>2 DEF queue, At
  <2>3. queue' = [i \in 1..length - n |-> buf'[At(read_idx' + i - 1)]]
    BY Zenon, <1>2 DEF queue, At
  <2> QED BY Zenon, <1>4, <2>1, <2>2, <2>3
<1>6. SubSeq(queue, 1, n) = [i \in 1..n |-> queue[i]]
  BY <1>1, <1>4
<1> DEFINE first == Least(Size - read_idx, n)
           got == [i \in 1..n |-> IF i <= first THEN buf[read_idx + i - 1] ELSE buf[i - first - 1]]
<1>7. got = [i \in 1..n |-> queue[i]]
  <2>1. first \in 0..n /\ (first = n \/ first = Size - read_idx) /\ first <= Size - read_idx
    BY <1>1 DEF Least
  <2>2. ASSUME NEW i \in 1..n
        PROVE  (IF i <= first THEN buf[read_idx + i - 1] ELSE buf[i - first - 1]) = queue[i]
    <3>1. queue[i] = buf[At(read_idx + i - 1)]
      BY <1>1 DEF queue
    <3>2. At(read_idx + i - 1) = IF i <= first THEN read_idx + i - 1 ELSE i - first - 1
      BY <1>1, <2>1 DEF At
    <3> QED BY Zenon, <3>1, <3>2
  <2> QED BY Zenon, <2>2
<1>8. dst' = [dst EXCEPT ![t] = got]
  BY Zenon DEF cyb_copy_out
<1> QED BY Zenon, <1>2, <1>3, <1>5, <1>6, <1>7, <1>8

(* A step of task t. *)
Act(t) == Call(t) \/ Proceed(t) \/ Interrupt(t)

(* The sets that are counted are finite. *)
LEMMA Finite ==
    /\ IsFiniteSet(OpenEnds(Readers)) /\ Cardinality(OpenEnds(Readers)) \in Nat
    /\ IsFiniteSet(OpenEnds(Writers)) /\ Cardinality(OpenEnds(Writers)) \in Nat
    /\ IsFiniteSet(Referrers) /\ Cardinality(Referrers) \in Nat
<1>1. IsFiniteSet(Tasks)
  BY Zenon, FiniteAssumption, FS_Union DEF Tasks
<1> QED BY Zenon, <1>1, FiniteAssumption, FS_Subset, FS_CardinalityType DEF OpenEnds, Referrers

(* A step moves the acting task alone, between labels. *)
LEMMA Moves ==
    ASSUME CycInv, NEW t \in Tasks, Act(t)
    PROVE  pc' \in [Tasks -> PCs] /\ \A u \in Tasks \ {t} : pc'[u] = pc[u]
<1> USE DEF Act, Call, Proceed, Interrupt
<1>1. pc \in [Tasks -> PCs]
  BY Zenon DEF CycInv, TypeOK
<1>2. (\E n \in 1..MaxLen : get(t, n)) \/ put(t)
        => pc' \in [Tasks -> PCs] /\ \A u \in Tasks \ {t} : pc'[u] = pc[u]
  BY <1>1 DEF get, put, AfterPut, PCs
<1>3. ASSUME ~(\E n \in 1..MaxLen : get(t, n)), ~put(t)
      PROVE  \E from, to \in PCs : Step(t, from, to)
  BY <1>1, <1>3 DEF PCs, pipe_read, cyb_reader_open, cyb_writer_open, Open,
     cyb_reader_close, cyb_writer_close, pipe_write, cyb_put_record, put_record,
     cyb_flush, get_empty, return_read, wait_read, recheck_writers, notify_read,
     check_readers, wait_write, notify_write, close_notify, cyb_destroy,
     interrupt_read, interrupt_write
<1> QED BY Zenon, <1>1, <1>2, <1>3 DEF Step

Ends == {"closed", "c_notify", "c_destroy"}

(* The counters follow the ends. *)
LEMMA CountNext ==
    ASSUME CycInv, NEW t \in Tasks, Act(t)
    PROVE  /\ CountInv' /\ named' \in BOOLEAN
           /\ reader_count' \in Nat /\ writer_count' \in Nat /\ ref_count' \in Nat
<1>1. /\ \A u \in Tasks \ {t} : pc'[u] = pc[u]
      /\ pc \in [Tasks -> PCs] /\ pc' \in [Tasks -> PCs]
      /\ CountInv /\ named \in BOOLEAN
      /\ reader_count \in Nat /\ writer_count \in Nat /\ ref_count \in Nat
      /\ t \in Readers \/ t \in Writers
  BY Zenon, Moves DEF CycInv, TypeOK, Tasks
<1>2. Readers \subseteq Tasks /\ Writers \subseteq Tasks
  BY Zenon DEF Tasks
<1>3. CASE /\ UNCHANGED counts
           /\ pc[t] \in Ends <=> pc'[t] \in Ends
           /\ pc[t] = "closed" <=> pc'[t] = "closed"
  <2>1. OpenEnds(Readers)' = OpenEnds(Readers) /\ OpenEnds(Writers)' = OpenEnds(Writers)
    BY Zenon, <1>1, <1>2, <1>3 DEF OpenEnds, Ends
  <2>2. Referrers' = Referrers
    BY Zenon, <1>1, <1>3 DEF Referrers
  <2> QED BY Zenon, <1>1, <1>3, <2>1, <2>2 DEF CountInv, counts
<1>4. CASE cyb_reader_open(t) /\ t \in Readers
  <2>1. /\ pc[t] = "closed" /\ pc'[t] = "idle" /\ named' = named
        /\ reader_count' = reader_count + 1 /\ writer_count' = writer_count
        /\ ref_count' = ref_count + 1
    BY Zenon, <1>1, <1>4 DEF cyb_reader_open, Open, Step
  <2>2. /\ OpenEnds(Readers)' = OpenEnds(Readers) \cup {t} /\ t \notin OpenEnds(Readers)
        /\ OpenEnds(Writers)' = OpenEnds(Writers)
        /\ Referrers' = Referrers \cup {t} /\ t \notin Referrers
    BY Zenon, <1>1, <1>2, <1>4, <2>1, EndsAssumption DEF OpenEnds, Referrers
  <2>3. /\ Cardinality(OpenEnds(Readers)') = Cardinality(OpenEnds(Readers)) + 1
        /\ Cardinality(Referrers') = Cardinality(Referrers) + 1
    BY Zenon, <2>2, Finite, FS_AddElement
  <2> QED BY <1>1, <2>1, <2>2, <2>3, Finite DEF CountInv
<1>5. CASE cyb_writer_open(t) /\ t \in Writers
  <2>1. /\ pc[t] = "closed" /\ pc'[t] = "idle" /\ named' = named
        /\ writer_count' = writer_count + 1 /\ reader_count' = reader_count
        /\ ref_count' = ref_count + 1
    BY Zenon, <1>1, <1>5 DEF cyb_writer_open, Open, Step
  <2>2. /\ OpenEnds(Writers)' = OpenEnds(Writers) \cup {t} /\ t \notin OpenEnds(Writers)
        /\ OpenEnds(Readers)' = OpenEnds(Readers)
        /\ Referrers' = Referrers \cup {t} /\ t \notin Referrers
    BY Zenon, <1>1, <1>2, <1>5, <2>1, EndsAssumption DEF OpenEnds, Referrers
  <2>3. /\ Cardinality(OpenEnds(Writers)') = Cardinality(OpenEnds(Writers)) + 1
        /\ Cardinality(Referrers') = Cardinality(Referrers) + 1
    BY Zenon, <2>2, Finite, FS_AddElement
  <2> QED BY <1>1, <2>1, <2>2, <2>3, Finite DEF CountInv
<1>6. CASE cyb_reader_close(t) /\ t \in Readers
  <2>1. /\ pc[t] = "idle" /\ pc'[t] = "c_notify" /\ named' = named
        /\ reader_count' = reader_count - 1 /\ writer_count' = writer_count
        /\ ref_count' = ref_count
    BY Zenon, <1>1, <1>6 DEF cyb_reader_close, Step
  <2>2. /\ OpenEnds(Readers)' = OpenEnds(Readers) \ {t} /\ t \in OpenEnds(Readers)
        /\ OpenEnds(Writers)' = OpenEnds(Writers) /\ Referrers' = Referrers
    BY Zenon, <1>1, <1>2, <1>6, <2>1, EndsAssumption DEF OpenEnds, Referrers
  <2>3. /\ Cardinality(OpenEnds(Readers)') = Cardinality(OpenEnds(Readers)) - 1
        /\ Cardinality(OpenEnds(Readers)') \in Nat
    BY Zenon, <2>2, Finite, FS_RemoveElement, FS_CardinalityType
  <2> QED BY Zenon, <1>1, <2>1, <2>2, <2>3, Finite DEF CountInv
<1>7. CASE cyb_writer_close(t) /\ t \in Writers
  <2>1. /\ pc[t] = "idle" /\ pc'[t] = "c_notify" /\ named' = named
        /\ writer_count' = writer_count - 1 /\ reader_count' = reader_count
        /\ ref_count' = ref_count
    BY Zenon, <1>1, <1>7 DEF cyb_writer_close, Step
  <2>2. /\ OpenEnds(Writers)' = OpenEnds(Writers) \ {t} /\ t \in OpenEnds(Writers)
        /\ OpenEnds(Readers)' = OpenEnds(Readers) /\ Referrers' = Referrers
    BY Zenon, <1>1, <1>2, <1>7, <2>1, EndsAssumption DEF OpenEnds, Referrers
  <2>3. /\ Cardinality(OpenEnds(Writers)') = Cardinality(OpenEnds(Writers)) - 1
        /\ Cardinality(OpenEnds(Writers)') \in Nat
    BY Zenon, <2>2, Finite, FS_RemoveElement, FS_CardinalityType
  <2> QED BY Zenon, <1>1, <2>1, <2>2, <2>3, Finite DEF CountInv
<1>8. CASE cyb_destroy(t)
  <2>1. /\ pc[t] = "c_destroy" /\ pc'[t] = "closed" /\ named' = named
        /\ writer_count' = writer_count /\ reader_count' = reader_count
        /\ ref_count' = ref_count - 1
    BY Zenon, <1>1, <1>8 DEF cyb_destroy, Step
  <2>2. /\ OpenEnds(Writers)' = OpenEnds(Writers) /\ OpenEnds(Readers)' = OpenEnds(Readers)
        /\ Referrers' = Referrers \ {t} /\ t \in Referrers
    BY Zenon, <1>1, <1>2, <2>1 DEF OpenEnds, Referrers
  <2>3. /\ Cardinality(Referrers') = Cardinality(Referrers) - 1
        /\ Cardinality(Referrers') \in Nat
    BY Zenon, <2>2, Finite, FS_RemoveElement, FS_CardinalityType
  <2> QED BY <1>1, <2>1, <2>2, <2>3, Finite DEF CountInv
<1>9. \/ UNCHANGED counts /\ (pc[t] \in Ends <=> pc'[t] \in Ends)
                         /\ (pc[t] = "closed" <=> pc'[t] = "closed")
      \/ cyb_reader_open(t) /\ t \in Readers
      \/ cyb_writer_open(t) /\ t \in Writers
      \/ cyb_reader_close(t) /\ t \in Readers
      \/ cyb_writer_close(t) /\ t \in Writers
      \/ cyb_destroy(t)
  <2>1. CASE Call(t)
    BY <1>1, <2>1 DEF Call, Ends, Step, pipe_read, pipe_write, cyb_put_record,
       cyb_flush
  <2>2. CASE Proceed(t)
    BY <1>1, <2>2 DEF Proceed, Ends, Step, get, put, AfterPut, put_record,
       get_empty, return_read, wait_read, recheck_writers, notify_read,
       check_readers, wait_write, notify_write, close_notify
  <2>3. CASE Interrupt(t)
    BY <1>1, <2>3 DEF Interrupt, Ends, Step, interrupt_read, interrupt_write
  <2> QED BY Zenon, <2>1, <2>2, <2>3 DEF Act
<1> QED BY Zenon, <1>3, <1>4, <1>5, <1>6, <1>7, <1>8, <1>9

(* The steps that change the ring, src or dst. *)
Writes(t) == t \in Writers /\ \E len \in 1..MaxLen : \E s \in [1..len -> Bytes] :
                 pipe_write(t, s) \/ cyb_put_record(t, s)
Puts(t) == t \in Writers /\ (put(t) \/ put_record(t))
Drops(t) == t \in Writers /\ src' = [src EXCEPT ![t] = <<>>]
Gets(t) == t \in Readers /\ \E n \in 1..MaxLen : get(t, n)
Returns(t) == t \in Readers /\ return_read(t)

(* Every other step leaves them alone. *)
LEMMA RingSteps ==
    ASSUME CycInv, NEW t \in Tasks, Act(t)
    PROVE  \/ Writes(t) /\ UNCHANGED <<ring, dst>>
           \/ Puts(t) /\ UNCHANGED dst
           \/ Drops(t) /\ UNCHANGED <<ring, dst>>
           \/ Gets(t) /\ UNCHANGED src
           \/ Returns(t) /\ UNCHANGED <<ring, src>>
           \/ cyb_flush(t) /\ UNCHANGED <<src, dst>>
           \/ UNCHANGED <<ring, src, dst>>
<1>1. CASE Writes(t)
  BY Zenon, <1>1 DEF Writes, pipe_write, cyb_put_record
<1>2. CASE Puts(t)
  BY Zenon, <1>2 DEF Puts, put, put_record
<1>3. CASE ~Writes(t) /\ ~Puts(t)
  BY Zenon, <1>3 DEF Act, Call, Proceed, Interrupt, Writes, Puts, Drops, Gets,
     Returns, get, pipe_read, cyb_flush, get_empty, return_read, wait_read,
     recheck_writers, notify_read, check_readers, wait_write, notify_write,
     close_notify, cyb_destroy, cyb_reader_open, cyb_writer_open, Open,
     cyb_reader_close, cyb_writer_close, interrupt_read, interrupt_write
<1> QED BY Zenon, <1>1, <1>2, <1>3

(* A task that is idle has nothing to put. *)
LEMMA WritesCall ==
    ASSUME CycInv, NEW t \in Tasks, Writes(t)
    PROVE  \/ UNCHANGED src
           \/ src[t] = <<>> /\ \E s \in Seq(Bytes) : src' = [src EXCEPT ![t] = s]
<1>1. PICK len \in 1..MaxLen : \E s \in [1..len -> Bytes] :
             pipe_write(t, s) \/ cyb_put_record(t, s)
  BY Zenon DEF Writes
<1>2. PICK s \in [1..len -> Bytes] : pipe_write(t, s) \/ cyb_put_record(t, s)
  BY Zenon, <1>1
<1>3. s \in Seq(Bytes)
  BY MaxLenAssumption, FunctionIsSeq
<1>4. pc[t] = "idle" => src[t] = <<>>
  BY Zenon DEF CycInv, Writes, Putting
<1> QED BY Zenon, <1>2, <1>3, <1>4 DEF pipe_write, cyb_put_record, Step

(* A put appends what fits of src, and keeps the rest or nothing of it. *)
LEMMA PutsCopy ==
    ASSUME CycInv, NEW t \in Tasks, Puts(t)
    PROVE  \E n \in 0..Len(src[t]) :
              /\ length + n <= Size
              /\ \/ n = 0 /\ UNCHANGED ring
                 \/ cyb_copy_in(SubSeq(src[t], 1, n))
              /\ \/ src' = [src EXCEPT ![t] = SubSeq(@, n + 1, Len(@))]
                 \/ src' = [src EXCEPT ![t] = <<>>]
<1>1. /\ length \in 0..Size /\ Size \in Nat /\ t \in Writers
      /\ src[t] \in Seq(Bytes) /\ Len(src[t]) \in Nat
  BY SizeAssumption DEF CycInv, TypeOK, Puts
<1>2. CASE put(t)
  <2> DEFINE i == Least(Size - length, Len(src[t]))
  <2>1. i \in 0..Len(src[t]) /\ length + i <= Size
    BY <1>1 DEF Least
  <2>2. cyb_copy_in(SubSeq(src[t], 1, i))
    BY Zenon, <1>2 DEF put
  <2>3. \/ src' = [src EXCEPT ![t] = SubSeq(@, i + 1, Len(@))]
        \/ src' = [src EXCEPT ![t] = <<>>]
    BY Zenon, <1>2 DEF put
  <2> QED BY Zenon, <2>1, <2>2, <2>3
<1>3. CASE put_record(t)
  <2>1. src' = [src EXCEPT ![t] = <<>>]
    BY Zenon, <1>3 DEF put_record
  <2>2. CASE Len(src[t]) > Size - length
    BY <1>1, <1>3, <2>1, <2>2 DEF put_record
  <2>3. CASE Len(src[t]) <= Size - length
    <3>1. cyb_copy_in(src[t]) /\ SubSeq(src[t], 1, Len(src[t])) = src[t]
      BY <1>1, <1>3, <2>3 DEF put_record
    <3>2. cyb_copy_in(SubSeq(src[t], 1, Len(src[t])))
      BY Zenon, <3>1 DEF cyb_copy_in
    <3>3. Len(src[t]) \in 0..Len(src[t]) /\ length + Len(src[t]) <= Size
      BY <1>1, <2>3
    <3> QED BY Zenon, <2>1, <3>2, <3>3
  <2> QED BY <1>1, <2>2, <2>3
<1> QED BY Zenon, <1>2, <1>3 DEF Puts

(* A get takes a front of the queue. *)
LEMMA GetsCopy ==
    ASSUME CycInv, NEW t \in Tasks, Gets(t)
    PROVE  t \in Readers /\ \E n \in 1..length : cyb_copy_out(t, n)
<1>1. PICK n \in 1..MaxLen : get(t, n)
  BY Zenon DEF Gets
<1>2. length \in Nat /\ MaxLen \in Nat /\ length > 0
  BY <1>1, SizeAssumption, MaxLenAssumption DEF CycInv, TypeOK, get
<1>3. Least(length, n) \in 1..length
  BY <1>2 DEF Least
<1> QED BY Zenon, <1>1, <1>3 DEF Gets, get

(* The ring stays well formed, and the step is one of AbsFifo. *)
LEMMA RingNext ==
    ASSUME CycInv, NEW t \in Tasks, Act(t)
    PROVE  /\ buf' \in [0..Size - 1 -> Bytes]
           /\ length' \in 0..Size /\ read_idx' \in 0..Size - 1 /\ write_idx' \in 0..Size - 1
           /\ write_idx' = At(read_idx' + length')
           /\ src' \in [Writers -> Seq(Bytes)]
           /\ dst' \in [Readers -> Seq(Bytes)]
           /\ [Fifo!Next]_(Fifo!vars)
<1>1. /\ buf \in [0..Size - 1 -> Bytes] /\ Size \in Nat /\ Size > 0
      /\ length \in 0..Size /\ read_idx \in 0..Size - 1 /\ write_idx \in 0..Size - 1
      /\ write_idx = At(read_idx + length)
      /\ src \in [Writers -> Seq(Bytes)] /\ dst \in [Readers -> Seq(Bytes)]
  <2>1. Size \in Nat /\ Size > 0
    BY SizeAssumption
  <2> QED BY Zenon, <2>1 DEF CycInv, TypeOK
<1>2. queue \in Seq(Bytes) /\ Len(queue) = length
  BY Zenon, QueueType
<1>3. ASSUME UNCHANGED ring PROVE queue' = queue
  BY Zenon, <1>3 DEF ring, queue, At
<1>4. CASE UNCHANGED <<ring, src, dst>>
  <2>1. queue' = queue /\ src' = src /\ dst' = dst
    BY Zenon, <1>3, <1>4
  <2> QED BY Zenon, <1>1, <1>4, <2>1 DEF ring, Fifo!vars, At
<1>5. CASE Puts(t) /\ UNCHANGED dst
  <2>1. PICK n \in 0..Len(src[t]) :
              /\ length + n <= Size
              /\ \/ n = 0 /\ UNCHANGED ring
                 \/ cyb_copy_in(SubSeq(src[t], 1, n))
              /\ \/ src' = [src EXCEPT ![t] = SubSeq(@, n + 1, Len(@))]
                 \/ src' = [src EXCEPT ![t] = <<>>]
    BY Zenon, <1>5, PutsCopy
  <2>2. t \in Writers /\ src[t] \in Seq(Bytes) /\ Len(src[t]) \in Nat
    BY <1>1, <1>5 DEF Puts
  <2> DEFINE s == SubSeq(src[t], 1, n)
  <2>3. s \in Seq(Bytes) /\ Len(s) = n
    BY <2>2
  <2>4. SubSeq(src[t], n + 1, Len(src[t])) \in Seq(Bytes)
    BY <2>2
  <2>5. src' \in [Writers -> Seq(Bytes)]
    <3>1. \E v \in Seq(Bytes) : src' = [src EXCEPT ![t] = v]
      <4>1. <<>> \in Seq(Bytes)
        OBVIOUS
      <4>2. CASE src' = [src EXCEPT ![t] = <<>>]
        BY Zenon, <4>1, <4>2
      <4>3. CASE src' = [src EXCEPT ![t] = SubSeq(src[t], n + 1, Len(src[t]))]
        BY Zenon, <2>4, <4>3
      <4> QED BY Zenon, <2>1, <4>2, <4>3
    <3> QED BY Zenon, <1>1, <3>1
  <2>6. /\ buf' \in [0..Size - 1 -> Bytes]
        /\ length' \in 0..Size /\ read_idx' \in 0..Size - 1 /\ write_idx' \in 0..Size - 1
        /\ write_idx' = At(read_idx' + length')
        /\ queue' = queue \o s
    <3>1. CASE n = 0 /\ UNCHANGED ring
      <4>1. s = <<>> /\ queue' = queue
        BY <1>3, <2>3, <3>1
      <4> QED BY <1>1, <1>2, <3>1, <4>1 DEF ring, At
    <3>2. CASE cyb_copy_in(s)
      <4>1. n \in 0..Size - length /\ s \in [1..n -> Bytes]
        <5>1. n \in 0..Size - length
          BY <1>1, <2>1, <2>2
        <5>2. s \in [1..Len(s) -> Bytes]
          BY Zenon, <2>3, SeqIsFunction
        <5> QED BY <2>3, <5>1, <5>2, Zenon
      <4> QED BY Zenon, <3>2, <4>1, CopyIn
    <3> QED BY Zenon, <2>1, <3>1, <3>2
  <2>7. Fifo!Put(t)
    BY Zenon, <1>2, <1>5, <2>1, <2>6 DEF Fifo!Put
  <2> QED BY Zenon, <1>1, <1>5, <2>2, <2>5, <2>6, <2>7 DEF Fifo!Next
<1>9. CASE Writes(t) /\ UNCHANGED <<ring, dst>>
  <2>1. queue' = queue
    BY Zenon, <1>3, <1>9
  <2>2. CASE UNCHANGED src
    BY Zenon, <1>1, <1>9, <2>1, <2>2 DEF ring, Fifo!vars, At
  <2>3. CASE src[t] = <<>> /\ \E s \in Seq(Bytes) : src' = [src EXCEPT ![t] = s]
    <3>1. PICK s \in Seq(Bytes) : src' = [src EXCEPT ![t] = s]
      BY Zenon, <2>3
    <3>2. t \in Writers
      BY Zenon, <1>9 DEF Writes
    <3>3. src' \in [Writers -> Seq(Bytes)] /\ src'[t] = s
      BY Zenon, <1>1, <3>1, <3>2
    <3>4. Fifo!Write(t)
      BY Zenon, <1>9, <2>1, <2>3, <3>1, <3>3 DEF Fifo!Write
    <3> QED BY Zenon, <1>1, <1>9, <3>2, <3>3, <3>4 DEF ring, Fifo!Next, At
  <2> QED BY Zenon, <1>9, <2>2, <2>3, WritesCall
<1>10. CASE Drops(t) /\ UNCHANGED <<ring, dst>>
  <2>1. queue' = queue /\ t \in Writers /\ src' = [src EXCEPT ![t] = <<>>]
    BY Zenon, <1>3, <1>10 DEF Drops
  <2>2. src' \in [Writers -> Seq(Bytes)]
    BY <1>1, <2>1
  <2>3. queue' = queue \o SubSeq(src[t], 1, 0) /\ 0 \in 0..Len(src[t])
    BY <1>1, <1>2, <2>1
  <2>4. Fifo!Put(t)
    <3>1. Len(queue) + 0 <= Size
      BY <1>1, <1>2
    <3> QED BY Zenon, <1>10, <2>1, <2>3, <3>1 DEF Fifo!Put
  <2> QED BY Zenon, <1>1, <1>10, <2>1, <2>2, <2>4 DEF ring, Fifo!Next, At
<1>6. CASE Gets(t) /\ UNCHANGED src
  <2>1. PICK n \in 1..length : t \in Readers /\ cyb_copy_out(t, n)
    BY Zenon, <1>6, GetsCopy
  <2>2. /\ buf' = buf
        /\ length' \in 0..Size /\ read_idx' \in 0..Size - 1 /\ write_idx' = write_idx
        /\ write_idx' = At(read_idx' + length')
        /\ queue' = SubSeq(queue, n + 1, Len(queue))
        /\ dst' = [dst EXCEPT ![t] = SubSeq(queue, 1, n)]
    BY Zenon, <2>1, CopyOut
  <2>3. SubSeq(queue, 1, n) \in Seq(Bytes)
    BY <1>1, <1>2
  <2>4. dst' \in [Readers -> Seq(Bytes)]
    BY Zenon, <1>1, <2>2, <2>3
  <2>5. Fifo!Get(t)
    BY Zenon, <1>2, <1>6, <2>2 DEF Fifo!Get
  <2> QED BY Zenon, <1>1, <1>6, <2>1, <2>2, <2>4, <2>5 DEF Fifo!Next
<1>7. CASE Returns(t) /\ UNCHANGED <<ring, src>>
  <2>1. queue' = queue /\ t \in Readers /\ dst' = [dst EXCEPT ![t] = <<>>]
    BY Zenon, <1>3, <1>7 DEF Returns, return_read
  <2>2. dst' \in [Readers -> Seq(Bytes)]
    BY <1>1, <2>1
  <2>3. Fifo!Next
    BY Zenon, <1>7, <2>1 DEF Fifo!Next, Fifo!Return
  <2> QED BY Zenon, <1>1, <1>7, <2>2, <2>3 DEF ring, At
<1>8. CASE cyb_flush(t) /\ UNCHANGED <<src, dst>>
  <2>1. buf' = buf /\ length' = 0 /\ read_idx' = write_idx /\ write_idx' = write_idx
    BY Zenon, <1>8 DEF cyb_flush
  <2>2. queue' = <<>>
    BY <2>1 DEF queue
  <2>3. Fifo!Next
    BY Zenon, <1>8, <2>2 DEF Fifo!Next, Fifo!Flush
  <2> QED BY <1>1, <1>8, <2>1, <2>3 DEF At
<1> QED BY Zenon, <1>4, <1>5, <1>6, <1>7, <1>8, <1>9, <1>10, RingSteps

(* The invariant holds at first. *)
LEMMA CycInit == Init => CycInv /\ Fifo!Init
<1> SUFFICES ASSUME Init PROVE CycInv /\ Fifo!Init
  BY Zenon
<1> USE DEF Init
<1>1. /\ write_idx = At(read_idx + length)
      /\ buf \in [0..Size - 1 -> Bytes] /\ dst \in [Readers -> Seq(Bytes)]
      /\ length \in 0..Size /\ read_idx \in 0..Size - 1 /\ write_idx \in 0..Size - 1
      /\ src \in [Writers -> Seq(Bytes)] /\ src = [t \in Writers |-> <<>>]
  BY SizeAssumption DEF At
<1>2. queue = <<>>
  BY DEF queue
<1>3. CASE cyb_create
  <2>1. PICK r \in Readers, w \in Writers :
           pc = [t \in Tasks |-> IF t \in {r, w} THEN "idle" ELSE "closed"]
    BY Zenon, <1>3 DEF cyb_create
  <2>2. r # w /\ r \in Tasks /\ w \in Tasks /\ r \notin Writers /\ w \notin Readers
    BY Zenon, EndsAssumption DEF Tasks
  <2>3. OpenEnds(Readers) = {r} /\ OpenEnds(Writers) = {w} /\ Referrers = {r, w}
    BY Zenon, <2>1, <2>2 DEF OpenEnds, Referrers, Tasks
  <2>4. Cardinality({r}) = 1 /\ Cardinality({w}) = 1 /\ Cardinality({r, w}) = 2
    <3>1. Cardinality({r}) = 1 /\ Cardinality({w}) = 1 /\ IsFiniteSet({r})
      BY Zenon, FS_Singleton
    <3>2. {r, w} = {r} \cup {w} /\ w \notin {r}
      BY Zenon, <2>2
    <3>3. Cardinality({r} \cup {w}) = Cardinality({r}) + 1
      BY Zenon, <3>1, <3>2, FS_AddElement
    <3>4. Cardinality({r, w}) = Cardinality({r}) + 1
      BY <3>2, <3>3, Zenon
    <3>5. Cardinality({r, w}) = 2
      BY <3>1, <3>4
    <3> QED BY Zenon, <3>1, <3>5
  <2>5. CountInv
    BY <1>3, <2>3, <2>4 DEF CountInv, cyb_create
  <2>6. pc \in [Tasks -> PCs]
    BY Zenon, <2>1 DEF PCs
  <2>7. CycInv
    BY Zenon, <1>1, <1>3, <2>5, <2>6 DEF CycInv, TypeOK, cyb_create
  <2> QED BY Zenon, <1>2, <2>7 DEF Fifo!Init
<1>4. CASE cyb_create_named
  <2>1. pc = [t \in Tasks |-> "closed"]
    BY Zenon, <1>4 DEF cyb_create_named
  <2>2. OpenEnds(Readers) = {} /\ OpenEnds(Writers) = {} /\ Referrers = {}
    BY Zenon, <2>1 DEF OpenEnds, Referrers, Tasks
  <2>3. CountInv
    BY <1>4, <2>2, FS_EmptySet DEF CountInv, cyb_create_named
  <2>4. pc \in [Tasks -> PCs]
    BY Zenon, <2>1 DEF PCs
  <2>5. CycInv
    BY Zenon, <1>1, <1>4, <2>3, <2>4 DEF CycInv, TypeOK, cyb_create_named
  <2> QED BY Zenon, <1>2, <2>5 DEF Fifo!Init
<1> QED BY Zenon, <1>3, <1>4

(* The events keep their types. *)
LEMMA EventsNext ==
    ASSUME CycInv, NEW t \in Tasks, Act(t)
    PROVE  read_event' \in {0, 1} /\ write_event' \in {0, 1}
BY Zenon DEF CycInv, TypeOK, Act, Call, Proceed, Interrupt, events, get, put,
   put_record, pipe_read, pipe_write, cyb_put_record, cyb_flush, get_empty,
   return_read, wait_read, recheck_writers, notify_read, check_readers,
   wait_write, notify_write, close_notify, cyb_destroy, cyb_reader_open,
   cyb_writer_open, Open, cyb_reader_close, cyb_writer_close, interrupt_read,
   interrupt_write, OnRead!Try, OnRead!Wait, OnRead!Take, OnRead!Leave,
   OnRead!Notify, OnWrite!Try, OnWrite!Wait, OnWrite!Take, OnWrite!Leave,
   OnWrite!Notify

(* A task has bytes to put only inside a write. *)
LEMMA PuttingNext ==
    ASSUME CycInv, NEW t \in Tasks, Act(t), NEW u \in Writers, pc'[u] \notin Putting
    PROVE  src'[u] = <<>>
<1>1. u \in Tasks /\ src \in [Writers -> Seq(Bytes)] /\ pc \in [Tasks -> PCs]
  BY Zenon DEF CycInv, TypeOK, Tasks
<1>2. CASE u # t
  <2>1. pc'[u] = pc[u]
    BY Zenon, <1>1, <1>2, Moves
  <2>2. src'[u] = src[u]
    BY Zenon, <1>1, <1>2, RingSteps DEF Writes, pipe_write, cyb_put_record,
       Puts, put, put_record, Drops
  <2> QED BY Zenon, <2>1, <2>2 DEF CycInv
<1>3. CASE u = t
  <2>1. CASE pc[t] \in Putting
    BY Zenon, <1>1, <1>3, <2>1, EndsAssumption DEF Putting, Act, Call, Proceed,
       Interrupt, Step, get, put, AfterPut, put_record, pipe_read, pipe_write,
       cyb_put_record, cyb_flush, get_empty, return_read, wait_read,
       recheck_writers, notify_read, check_readers, wait_write, notify_write,
       close_notify, cyb_destroy, cyb_reader_open, cyb_writer_open, Open,
       cyb_reader_close, cyb_writer_close, interrupt_read, interrupt_write
  <2>2. CASE pc[t] \notin Putting
    <3>1. src[t] = <<>>
      BY Zenon, <1>3, <2>2 DEF CycInv
    <3> QED BY Zenon, <1>1, <1>3, <2>2, <3>1 DEF Putting, Act, Call, Proceed, Interrupt, Step,
       get, put, AfterPut, put_record, pipe_read, pipe_write, cyb_put_record, cyb_flush,
       get_empty, return_read, wait_read, recheck_writers, notify_read, check_readers,
       wait_write, notify_write, close_notify, cyb_destroy, cyb_reader_open,
       cyb_writer_open, Open, cyb_reader_close, cyb_writer_close, interrupt_read,
       interrupt_write
  <2> QED BY Zenon, <2>1, <2>2
<1> QED BY Zenon, <1>2, <1>3

(* The invariant is inductive and every step refines AbsFifo. *)
LEMMA CycNext == CycInv /\ [Next]_vars => CycInv' /\ [Fifo!Next]_(Fifo!vars)
<1> SUFFICES ASSUME CycInv, [Next]_vars PROVE CycInv' /\ [Fifo!Next]_(Fifo!vars)
  BY Zenon
<1>1. CASE UNCHANGED vars
  <2>1. CycInv'
    BY Zenon, <1>1 DEF CycInv, TypeOK, CountInv, OpenEnds, Referrers, Putting,
       At, vars
  <2>2. queue' = queue /\ src' = src /\ dst' = dst
    BY Zenon, <1>1 DEF vars, queue, At
  <2> QED BY Zenon, <2>1, <2>2 DEF Fifo!vars
<1>2. ASSUME NEW t \in Tasks, Act(t) PROVE CycInv' /\ [Fifo!Next]_(Fifo!vars)
  <2>1. TypeOK'
    BY Zenon, <1>2, Moves, CountNext, RingNext, EventsNext DEF TypeOK
  <2>2. CountInv' /\ (write_idx = At(read_idx + length))'
    BY Zenon, <1>2, CountNext, RingNext DEF At
  <2>3. [Fifo!Next]_(Fifo!vars)
    BY Zenon, <1>2, RingNext
  <2>4. (\A w \in Writers : pc[w] \notin Putting => src[w] = <<>>)'
    BY Zenon, <1>2, PuttingNext DEF Putting
  <2> QED BY Zenon, <2>1, <2>2, <2>3, <2>4 DEF CycInv
<1> QED BY Zenon, <1>1, <1>2 DEF Next, Act

(* CycInv holds in every reachable state. *)
THEOREM CycInvariant == Spec => []CycInv
BY CycInit, CycNext, PTL DEF Spec

(* The indices stay inside the buffer and the counters above 0. *)
THEOREM CycTypes == Spec => []TypeOK
<1>1. CycInv => TypeOK
  BY Zenon DEF CycInv
<1> QED BY <1>1, CycInvariant, PTL

(* cyb_destroy frees the buffer only when no call is inside it. *)
THEOREM CycNoUseAfterFree == Spec => []NoUseAfterFree
<1>1. CycInv => NoUseAfterFree
  <2> SUFFICES ASSUME CycInv, ref_count = 0, NEW t \in Tasks PROVE pc[t] = "closed"
    BY Zenon DEF NoUseAfterFree
  <2>1. Cardinality(Referrers) = 0
    BY Finite DEF CycInv, CountInv, TypeOK
  <2>2. Referrers = {}
    BY Zenon, <2>1, Finite, FS_EmptySet
  <2> QED BY Zenon, <2>2 DEF Referrers
<1> QED BY <1>1, CycInvariant, PTL

(* Concurrent puts, gets and flushes of the ring are those of a queue. *)
THEOREM CycImplementsAbsFifo == Spec => ImplementsAbsFifo
BY CycInit, CycNext, CycInvariant, PTL DEF Spec, ImplementsAbsFifo, Fifo!Spec
=============================================================================
