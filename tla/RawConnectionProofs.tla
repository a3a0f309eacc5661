------------------------- MODULE RawConnectionProofs -------------------------
(***************************************************************************)
(* The safety properties of raw connections and of the proxy handshakes    *)
(* that open them, for every set of operations and configurations, and     *)
(* every length of write, read, buffer and reply.                          *)
(***************************************************************************)
EXTENDS RawConnection, FiniteSetTheorems, SequenceTheorems, TLAPS

-----------------------------------------------------------------------------
(* Sequences.                                                                *)

LEMMA Concat ==
    ASSUME NEW S, NEW s \in Seq(S), NEW t \in Seq(S)
    PROVE  /\ s \o t \in Seq(S) /\ Len(s \o t) = Len(s) + Len(t)
           /\ \A k \in 1..Len(s) : (s \o t)[k] = s[k]
           /\ \A k \in 1..Len(t) : (s \o t)[Len(s) + k] = t[k]
  OBVIOUS

\* What is left of the first part of a stream once n bytes of it are read.
AfterRead(S, s, t, n) ==
    /\ Drop(s, n) \in Seq(S) /\ SubSeq(s, 1, n) \in Seq(S)
    /\ Len(SubSeq(s, 1, n)) = n
    /\ SubSeq(s, 1, n) \o Drop(s, n) = s
    /\ Drop(s, n) \o t \in Seq(S)
    /\ Len(Drop(s, n) \o t) = Len(s \o t) - n
    /\ \A k \in 1..(Len(s \o t) - n) : (Drop(s, n) \o t)[k] = (s \o t)[n + k]

LEMMA ReadAhead ==
    ASSUME NEW S, NEW s \in Seq(S), NEW t \in Seq(S), NEW n \in 0..Len(s)
    PROVE  AfterRead(S, s, t, n)
<1>1. Len(s) \in Nat /\ Len(t) \in Nat /\ n \in Nat /\ n <= Len(s)
  OBVIOUS
<1>2. SubSeq(s, 1, n) \in Seq(S) /\ Len(SubSeq(s, 1, n)) = n
  BY <1>1, SubSeqProperties
<1>3. SubSeq(s, 1, n) \o Drop(s, n) = s
  <2>1. 1 \in 1..(Len(s) + 1) /\ n \in (1 - 1)..Len(s) /\ Len(s) \in n..Len(s)
    BY <1>1
  <2>2. SubSeq(s, 1, n) \o SubSeq(s, n + 1, Len(s)) = SubSeq(s, 1, Len(s))
    BY <2>1, ConcatAdjacentSubSeq
  <2> QED
    BY <2>2, SubSeqFull DEF Drop
<1> DEFINE d == Drop(s, n)
<1>4. d \in Seq(S) /\ Len(d) = Len(s) - n /\ \A k \in 1..(Len(s) - n) : d[k] = s[n + k]
  BY <1>1 DEF Drop
<1> HIDE DEF d
<1>5. d \o t \in Seq(S) /\ Len(d \o t) = Len(d) + Len(t) /\ Len(s \o t) = Len(s) + Len(t)
  BY <1>4, Concat
<1>6. Len(d \o t) = Len(s \o t) - n
  BY <1>1, <1>4, <1>5
<1>7. ASSUME NEW k \in 1..(Len(s \o t) - n)
      PROVE  (d \o t)[k] = (s \o t)[n + k]
  <2>1. k \in 1..(Len(d) + Len(t)) /\ n + k \in 1..(Len(s) + Len(t))
    BY <1>1, <1>4, <1>5
  <2>2. (d \o t)[k] = IF k <= Len(d) THEN d[k] ELSE t[k - Len(d)]
    BY <1>4, <2>1, ConcatProperties
  <2>3. (s \o t)[n + k] = IF n + k <= Len(s) THEN s[n + k] ELSE t[(n + k) - Len(s)]
    BY <2>1, ConcatProperties
  <2>4. CASE k <= Len(d)
    <3>1. n + k <= Len(s) /\ k \in 1..(Len(s) - n)
      BY <1>1, <1>4, <2>1, <2>4
    <3> QED
      BY <1>4, <2>2, <2>3, <2>4, <3>1
  <2>5. CASE k > Len(d)
    <3>1. ~(k <= Len(d)) /\ ~(n + k <= Len(s)) /\ k - Len(d) = (n + k) - Len(s)
      BY <1>1, <1>4, <2>1, <2>5
    <3> QED
      BY <2>2, <2>3, <3>1
  <2> QED
    BY <1>1, <1>4, <2>1, <2>4, <2>5
<1> QED
  BY <1>2, <1>3, <1>4, <1>5, <1>6, <1>7 DEF d, AfterRead

\* A byte that arrives stays where it is in the stream.
LEMMA Arrives ==
    ASSUME NEW S, NEW s \in Seq(S), NEW t \in Seq(S), t # << >>
    PROVE  Append(s, Head(t)) \o Tail(t) = s \o t
<1>1. Head(t) \in S /\ Tail(t) \in Seq(S) /\ Len(t) \in Nat /\ Len(t) >= 1
  BY HeadTailProperties, EmptySeq
<1>2. <<Head(t)>> \in Seq(S) /\ Append(s, Head(t)) = s \o <<Head(t)>>
  BY <1>1, AppendIsConcat
<1>3. <<Head(t)>> \o Tail(t) = t
  BY <1>1
<1> QED
  BY <1>1, <1>2, <1>3, ConcatAssociative

LEMMA Associative ==
    \A s, t, u \in Seq(Nat) : (s \o t) \o u = s \o (t \o u)
  BY ConcatAssociative

LEMMA Appended ==
    ASSUME NEW S, NEW s \in Seq(S), NEW t \in Seq(S), NEW e \in S
    PROVE  s \o Append(t, e) = Append(s \o t, e)
<1>1. <<e>> \in Seq(S) /\ Append(t, e) = t \o <<e>> /\ s \o t \in Seq(S)
  BY AppendIsConcat, Concat
<1>2. Append(s \o t, e) = (s \o t) \o <<e>>
  BY <1>1, AppendIsConcat
<1> QED
  BY <1>1, <1>2, ConcatAssociative

LEMMA AppendedNat ==
    \A s, t \in Seq(Nat) : \A e \in Nat : s \o Append(t, e) = Append(s \o t, e)
  BY Appended

-----------------------------------------------------------------------------
(* The mutex and what the operations write.                                  *)

Places == {"idle", "called", "queued", "running"} \cup Over

Record == [kind : Kinds \cup {"none"}, at : Places, written : Nat]

OpTyped ==
    /\ op \in [Ops -> Record]
    /\ queue \in Seq(Ops)
    /\ stream \in BOOLEAN
    /\ out \in Seq(Ops)

\* The queue holds each operation that wants the mutex once, and the one that
\* runs is the first.
Mutex ==
    /\ \A j, k \in 1..Len(queue) : queue[j] = queue[k] => j = k
    /\ \A o \in Ops : op[o].at \in {"queued", "running"} <=> \E k \in 1..Len(queue) : queue[k] = o
    /\ \A o \in Ops : op[o].at = "running" => queue[1] = o

\* Only close runs without the stream.
HasStream == \A o \in Ops : op[o].at = "running" /\ op[o].kind # "close" => stream

Positions(o) == {i \in 1..Len(out) : out[i] = o}

\* What an operation has counted is what got out, and the last byte is that of
\* the one that runs.
Counted ==
    /\ \A o \in Ops : Cardinality(Positions(o)) = op[o].written
    /\ \A i \in 1..Len(out) : op[out[i]].written > 0
    /\ \A o \in Ops : op[o].at \in {"idle", "called", "queued"} => op[o].written = 0
    /\ \A o \in Ops : op[o].at = "running" /\ op[o].written > 0 =>
         Len(out) > 0 /\ out[Len(out)] = o
    /\ \A o \in Ops : op[o].kind = "send" /\ op[o].at = "ok" => op[o].written = WriteLen

Contiguous == \A i, j, k \in 1..Len(out) : i < j /\ j < k /\ out[i] = out[k] => out[j] = out[i]

OpInv == OpTyped /\ Mutex /\ HasStream /\ Counted /\ Contiguous

LEMMA OpInit == Init => OpInv
<1> SUFFICES ASSUME Init
             PROVE  OpInv
  OBVIOUS
<1>1. OpTyped
  BY DEF Init, OpTyped, Record, Places
<1>2. Len(queue) = 0 /\ Len(out) = 0 /\ \A o \in Ops : op[o].at = "idle" /\ op[o].written = 0
                                                   /\ op[o].kind = "none"
  BY DEF Init
<1>3. \A o \in Ops : Positions(o) = {}
  BY <1>2 DEF Positions
<1>4. Mutex /\ HasStream /\ Contiguous
  BY <1>2 DEF Mutex, HasStream, Contiguous
<1>5. \A o \in Ops : Cardinality(Positions(o)) = op[o].written
  BY <1>2, <1>3, FS_EmptySet
<1>6. Counted
  BY <1>2, <1>5 DEF Counted
<1> QED
  BY <1>1, <1>4, <1>6 DEF OpInv

\* o leaves the queue, from wherever it is.
Leaves(o) ==
    /\ queue' \in Seq(Ops)
    /\ Len(queue') = Len(queue) - 1
    /\ \E k \in 1..Len(queue) :
         /\ queue[k] = o
         /\ \A j \in 1..Len(queue') : queue'[j] = IF j < k THEN queue[j] ELSE queue[j + 1]

LEMMA TailLeaves ==
    ASSUME OpTyped, NEW o \in Ops, Holds(o), queue' = Tail(queue)
    PROVE  Leaves(o)
<1>1. Len(queue) \in Nat /\ Len(queue) > 0 /\ queue[1] = o
  BY DEF OpTyped, Holds
<1>2. queue' \in Seq(Ops) /\ Len(queue') = Len(queue) - 1
  BY <1>1 DEF OpTyped
<1>3. \A j \in 1..Len(queue') : queue'[j] = IF j < 1 THEN queue[j] ELSE queue[j + 1]
  BY <1>1, <1>2 DEF OpTyped
<1> QED
  BY <1>1, <1>2, <1>3 DEF Leaves

LEMMA RemovalLeaves ==
    ASSUME OpTyped, NEW o \in Ops, NEW k \in 1..Len(queue), queue[k] = o,
           queue' = RemoveAt(queue, k)
    PROVE  Leaves(o)
<1> DEFINE l == SubSeq(queue, 1, k - 1)
           r == SubSeq(queue, k + 1, Len(queue))
<1>1. Len(queue) \in Nat /\ k \in Nat /\ k >= 1 /\ k <= Len(queue)
  BY DEF OpTyped
<1>2. l \in Seq(Ops) /\ Len(l) = k - 1 /\ \A j \in 1..(k - 1) : l[j] = queue[j]
  BY <1>1 DEF OpTyped
<1>3. r \in Seq(Ops) /\ Len(r) = Len(queue) - k /\ \A j \in 1..(Len(queue) - k) : r[j] = queue[k + j]
  BY <1>1 DEF OpTyped
<1>4. queue' = l \o r
  BY DEF RemoveAt
<1> HIDE DEF l, r
<1>5. queue' \in Seq(Ops) /\ Len(queue') = Len(queue) - 1
  <2>1. l \in Seq(Ops) /\ r \in Seq(Ops)
    BY <1>2, <1>3
  <2>3. l \o r \in Seq(Ops) /\ Len(l \o r) = Len(l) + Len(r)
    BY <2>1, Concat
  <2>2. Len(l) + Len(r) = Len(queue) - 1
    BY <1>1, <1>2, <1>3
  <2> QED
    BY <1>4, <2>2, <2>3
<1>6. ASSUME NEW j \in 1..Len(queue')
      PROVE  queue'[j] = IF j < k THEN queue[j] ELSE queue[j + 1]
  <2>1. CASE j < k
    BY <1>1, <1>2, <1>3, <1>4, <1>5, <2>1
  <2>2. CASE j >= k
    <3>1. queue'[j] = r[j - (k - 1)] /\ j - (k - 1) \in 1..(Len(queue) - k)
      BY <1>1, <1>2, <1>3, <1>4, <1>5, <2>2
    <3>2. k + (j - (k - 1)) = j + 1
      BY <1>1, <1>5, <2>2
    <3> QED
      BY <1>1, <1>3, <1>5, <2>2, <3>1, <3>2
  <2> QED
    BY <1>1, <2>1, <2>2
<1> QED
  BY <1>5, <1>6 DEF Leaves

\* An operation that is over, with its guard or its place in the queue gone.
Ends(o) ==
    /\ op[o].at \in {"queued", "running"}
    /\ Leaves(o)
    /\ \E how \in Over :
         /\ op' = [op EXCEPT ![o].at = how]
         /\ op[o].kind = "send" /\ how = "ok" => op[o].written = WriteLen
    /\ UNCHANGED <<stream, out>>

LEMMA RecordStep ==
    ASSUME OpTyped, NEW o \in Ops, NEW a \in Places, op' = [op EXCEPT ![o].at = a]
    PROVE  /\ op' \in [Ops -> Record]
           /\ op'[o].at = a /\ op'[o].kind = op[o].kind /\ op'[o].written = op[o].written
           /\ \A q \in Ops : q # o => op'[q] = op[q]
  BY DEF OpTyped, Record

\* The positions depend on what is out alone.
LEMMA SameCounts ==
    ASSUME OpInv, NEW o \in Ops, UNCHANGED out, op' \in [Ops -> Record],
           op'[o].written = op[o].written,
           op'[o].at \in {"idle", "called", "queued"} =>
             op[o].at \in {"idle", "called", "queued"},
           op'[o].at = "running" => op[o].at \in {"queued", "running"},
           op'[o].kind = "send" /\ op'[o].at = "ok" => op'[o].written = WriteLen,
           \A q \in Ops : q # o => op'[q] = op[q]
    PROVE  Counted' /\ Contiguous'
<1>1. \A q \in Ops : Positions(q)' = Positions(q) /\ op'[q].written = op[q].written
  BY DEF Positions
<1>2. out' = out /\ \A i \in 1..Len(out) : out[i] \in Ops
  BY DEF OpInv, OpTyped
<1>3. /\ \A q \in Ops : Cardinality(Positions(q)') = op'[q].written
      /\ \A i \in 1..Len(out') : op'[out'[i]].written > 0
  BY <1>1, <1>2 DEF OpInv, Counted
<1>4. ASSUME NEW q \in Ops
      PROVE  /\ op'[q].at \in {"idle", "called", "queued"} => op'[q].written = 0
             /\ op'[q].at = "running" /\ op'[q].written > 0 =>
                  Len(out') > 0 /\ out'[Len(out')] = q
             /\ op'[q].kind = "send" /\ op'[q].at = "ok" => op'[q].written = WriteLen
  BY <1>1, <1>2 DEF OpInv, Counted
<1>5. Counted'
  BY <1>3, <1>4 DEF Counted
<1> QED
  BY <1>2, <1>5 DEF OpInv, Contiguous

LEMMA EndsKeeps ==
    ASSUME OpInv, NEW o \in Ops, Ends(o)
    PROVE  OpInv'
<1>1. PICK how \in Over : /\ op' = [op EXCEPT ![o].at = how]
                          /\ op[o].kind = "send" /\ how = "ok" => op[o].written = WriteLen
  BY DEF Ends
<1>2. PICK k \in 1..Len(queue) :
         /\ queue[k] = o
         /\ \A j \in 1..Len(queue') : queue'[j] = IF j < k THEN queue[j] ELSE queue[j + 1]
  BY DEF Ends, Leaves
<1>3. queue' \in Seq(Ops) /\ Len(queue') = Len(queue) - 1 /\ Len(queue) \in Nat
  BY DEF Ends, Leaves, OpInv, OpTyped
<1>4. /\ op' \in [Ops -> Record] /\ op'[o].at = how /\ op'[o].kind = op[o].kind
      /\ op'[o].written = op[o].written
      /\ \A q \in Ops : q # o => op'[q] = op[q]
  BY <1>1, RecordStep DEF OpInv, Places
<1>5. how \notin {"idle", "called", "queued", "running"}
  BY DEF Over
<1>6. OpTyped'
  BY <1>3, <1>4 DEF OpInv, OpTyped, Ends
<1>7. \A j \in 1..Len(queue') : \E i \in 1..Len(queue) :
         i # k /\ queue'[j] = queue[i] /\ i = IF j < k THEN j ELSE j + 1
  BY <1>2, <1>3
<1>8. \A i \in 1..Len(queue) : i # k => \E j \in 1..Len(queue') : queue'[j] = queue[i]
  <2> SUFFICES ASSUME NEW i \in 1..Len(queue), i # k
               PROVE  \E j \in 1..Len(queue') : queue'[j] = queue[i]
    OBVIOUS
  <2>1. CASE i < k
    <3>1. i \in 1..Len(queue') /\ queue'[i] = queue[i]
      BY <1>2, <1>3, <2>1
    <3> QED
      BY <3>1
  <2>2. CASE i > k
    <3>1. i - 1 \in 1..Len(queue') /\ queue'[i - 1] = queue[i]
      BY <1>2, <1>3, <2>2
    <3> QED
      BY <3>1
  <2> QED
    BY <1>3, <2>1, <2>2
<1>9. Mutex'
  <2>1. \A i, j \in 1..Len(queue') : queue'[i] = queue'[j] => i = j
    <3> SUFFICES ASSUME NEW i \in 1..Len(queue'), NEW j \in 1..Len(queue'), queue'[i] = queue'[j]
                 PROVE  i = j
      OBVIOUS
    <3>1. PICK a \in 1..Len(queue) : queue'[i] = queue[a] /\ a = IF i < k THEN i ELSE i + 1
      BY <1>7
    <3>2. PICK b \in 1..Len(queue) : queue'[j] = queue[b] /\ b = IF j < k THEN j ELSE j + 1
      BY <1>7
    <3>3. queue[a] = queue[b]
      BY <3>1, <3>2
    <3>4. a = b
      BY <3>3 DEF OpInv, Mutex
    <3> QED
      BY <1>2, <1>3, <3>1, <3>2, <3>4
  <2>2. ASSUME NEW q \in Ops
        PROVE  op'[q].at \in {"queued", "running"} <=> \E j \in 1..Len(queue') : queue'[j] = q
    <3>1. CASE q = o
      <4>1. \A j \in 1..Len(queue') : queue'[j] # o
        BY <1>2, <1>7 DEF OpInv, Mutex
      <4> QED
        BY <1>4, <1>5, <3>1, <4>1
    <3>2. CASE q # o
      <4>1. op[q].at \in {"queued", "running"} <=> \E i \in 1..Len(queue) : queue[i] = q
        BY DEF OpInv, Mutex
      <4>2. (\E i \in 1..Len(queue) : queue[i] = q) <=> \E j \in 1..Len(queue') : queue'[j] = q
        BY <1>2, <1>7, <1>8, <3>2
      <4> QED
        BY <1>4, <3>2, <4>1, <4>2
    <3> QED
      BY <3>1, <3>2
  <2>3. ASSUME NEW q \in Ops, op'[q].at = "running"
        PROVE  queue'[1] = q
    <3>1. q # o /\ op[q].at = "running"
      BY <1>4, <1>5, <2>3
    <3>2. queue[1] = q /\ k # 1
      BY <1>2, <3>1 DEF OpInv, Mutex
    <3>3. k > 1 /\ 1 \in 1..Len(queue')
      BY <1>2, <1>3, <3>2
    <3> QED
      BY <1>2, <3>2, <3>3
  <2> QED
    BY <2>1, <2>2, <2>3 DEF Mutex
<1>10. HasStream'
  BY <1>4, <1>5 DEF OpInv, HasStream, Ends
<1>11. Counted' /\ Contiguous'
  BY <1>1, <1>4, <1>5, SameCounts DEF Ends
<1> QED
  BY <1>6, <1>9, <1>10, <1>11 DEF OpInv

LEMMA CallKeeps ==
    ASSUME OpInv, NEW o \in Ops, NEW kind \in Kinds, Call(o, kind)
    PROVE  OpInv'
<1>1. /\ op[o].at = "idle" /\ op[o].written = 0
      /\ UNCHANGED <<queue, stream, out>>
  BY DEF Call, OpInv, Counted
<1>2. /\ op' \in [Ops -> Record] /\ op'[o].at = "called" /\ op'[o].written = 0
      /\ \A q \in Ops : q # o => op'[q] = op[q]
  BY DEF Call, OpInv, OpTyped, Record, Places
<1>3. OpTyped'
  BY <1>1, <1>2 DEF OpInv, OpTyped
<1>4. Mutex'
  BY <1>1, <1>2 DEF OpInv, Mutex
<1>5. HasStream'
  BY <1>1, <1>2 DEF OpInv, HasStream
<1>6. Counted' /\ Contiguous'
  BY <1>1, <1>2, SameCounts
<1> QED
  BY <1>3, <1>4, <1>5, <1>6 DEF OpInv

LEMMA EnqueueKeeps ==
    ASSUME OpInv, NEW o \in Ops, Enqueue(o)
    PROVE  OpInv'
<1>1. op[o].at = "called" /\ queue' = Append(queue, o) /\ UNCHANGED <<stream, out>>
  BY DEF Enqueue
<1>2. /\ op' \in [Ops -> Record] /\ op'[o].at = "queued" /\ op'[o].kind = op[o].kind
      /\ op'[o].written = op[o].written
      /\ \A q \in Ops : q # o => op'[q] = op[q]
  BY RecordStep DEF Enqueue, OpInv, Places
<1>3. /\ queue' \in Seq(Ops) /\ Len(queue') = Len(queue) + 1 /\ Len(queue) \in Nat
      /\ queue'[Len(queue) + 1] = o
      /\ \A k \in 1..Len(queue) : queue'[k] = queue[k]
  BY <1>1 DEF OpInv, OpTyped
<1>4. OpTyped'
  BY <1>1, <1>2, <1>3 DEF OpInv, OpTyped
<1>5. \A k \in 1..Len(queue) : queue[k] # o
  BY <1>1 DEF OpInv, Mutex
<1>6. Mutex'
  <2>1. \A j, k \in 1..Len(queue') : queue'[j] = queue'[k] => j = k
    <3> SUFFICES ASSUME NEW j \in 1..Len(queue'), NEW k \in 1..Len(queue'), queue'[j] = queue'[k]
                 PROVE  j = k
      OBVIOUS
    <3>1. CASE j \in 1..Len(queue) /\ k \in 1..Len(queue)
      BY <1>3, <3>1 DEF OpInv, Mutex
    <3>2. CASE j = Len(queue) + 1 \/ k = Len(queue) + 1
      BY <1>3, <1>5, <3>2
    <3> QED
      BY <1>3, <3>1, <3>2
  <2>2. ASSUME NEW q \in Ops
        PROVE  op'[q].at \in {"queued", "running"} <=> \E k \in 1..Len(queue') : queue'[k] = q
    <3>1. CASE q = o
      BY <1>2, <1>3, <3>1
    <3>2. CASE q # o
      <4>1. (\E k \in 1..Len(queue) : queue[k] = q) <=> \E k \in 1..Len(queue') : queue'[k] = q
        BY <1>3, <3>2
      <4> QED
        BY <1>2, <3>2, <4>1 DEF OpInv, Mutex
    <3> QED
      BY <3>1, <3>2
  <2>3. ASSUME NEW q \in Ops, op'[q].at = "running"
        PROVE  queue'[1] = q
    <3>1. q # o /\ op[q].at = "running"
      BY <1>2, <2>3
    <3>2. queue[1] = q /\ Len(queue) > 0
      BY <1>3, <3>1 DEF OpInv, Mutex
    <3> QED
      BY <1>3, <3>2
  <2> QED
    BY <2>1, <2>2, <2>3 DEF Mutex
<1>7. HasStream'
  BY <1>1, <1>2 DEF OpInv, HasStream
<1>8. Counted' /\ Contiguous'
  BY <1>1, <1>2, SameCounts
<1> QED
  BY <1>4, <1>6, <1>7, <1>8 DEF OpInv

LEMMA HolderIsFirst ==
    ASSUME OpTyped, NEW o \in Ops
    PROVE  Holds(o) <=> Len(queue) > 0 /\ queue[1] = o
  BY DEF OpTyped, Holds

LEMMA BeginKeeps ==
    ASSUME OpInv, NEW o \in Ops, Begin(o)
    PROVE  OpInv'
<1>1. /\ op[o].at = "queued" /\ stream /\ stream' = (op[o].kind # "close")
      /\ UNCHANGED <<queue, out>>
  BY DEF Begin
<1>2. queue[1] = o /\ \A q \in Ops : op[q].at = "running" => q = o
  BY HolderIsFirst DEF Begin, OpInv, Mutex
<1>3. /\ op' \in [Ops -> Record] /\ op'[o].at = "running" /\ op'[o].kind = op[o].kind
      /\ op'[o].written = op[o].written
      /\ \A q \in Ops : q # o => op'[q] = op[q]
  BY RecordStep DEF Begin, OpInv, Places
<1>4. OpTyped'
  BY <1>1, <1>3 DEF OpInv, OpTyped
<1>5. Mutex'
  BY <1>1, <1>2, <1>3 DEF OpInv, Mutex
<1>6. HasStream'
  BY <1>1, <1>2, <1>3 DEF OpInv, HasStream
<1>7. Counted' /\ Contiguous'
  BY <1>1, <1>3, SameCounts
<1> QED
  BY <1>4, <1>5, <1>6, <1>7 DEF OpInv

LEMMA WriteKeeps ==
    ASSUME OpInv, NEW o \in Ops, Write(o)
    PROVE  OpInv'
<1>1. /\ op[o].at = "running" /\ op[o].written \in Nat /\ out' = Append(out, o)
      /\ UNCHANGED <<queue, stream>>
  BY DEF Write, Running, OpInv, OpTyped, Record
<1>2. \A q \in Ops : op[q].at = "running" => q = o
  BY <1>1 DEF OpInv, Mutex
<1>3. /\ op' \in [Ops -> Record] /\ op'[o].at = "running" /\ op'[o].kind = op[o].kind
      /\ op'[o].written = op[o].written + 1
      /\ \A q \in Ops : q # o => op'[q] = op[q]
  <2> DEFINE w == op[o].written + 1
  <2>1. w \in Nat /\ op' = [op EXCEPT ![o].written = w]
    BY <1>1 DEF Write
  <2> HIDE DEF w
  <2>2. op' \in [Ops -> Record] /\ op'[o].at = op[o].at /\ op'[o].kind = op[o].kind
        /\ op'[o].written = w /\ \A q \in Ops : q # o => op'[q] = op[q]
    BY <2>1 DEF OpInv, OpTyped, Record
  <2> QED
    BY <1>1, <2>2 DEF w
<1>4. /\ out' \in Seq(Ops) /\ Len(out') = Len(out) + 1 /\ Len(out) \in Nat
      /\ out'[Len(out) + 1] = o
      /\ \A i \in 1..Len(out) : out'[i] = out[i] /\ out[i] \in Ops
  BY <1>1 DEF OpInv, OpTyped
<1>5. OpTyped' /\ Mutex' /\ HasStream'
  BY <1>1, <1>3, <1>4 DEF OpInv, OpTyped, Mutex, HasStream
<1>6. ASSUME NEW q \in Ops
      PROVE  Cardinality(Positions(q)') = op'[q].written
  <2>1. \A i : i \in 1..Len(out') <=> i \in 1..Len(out) \/ i = Len(out) + 1
    BY <1>4
  <2>2. CASE q = o
    <3>1. Positions(o)' = Positions(o) \cup {Len(out) + 1} /\ Len(out) + 1 \notin Positions(o)
      BY <1>4, <2>1 DEF Positions
    <3>2. IsFiniteSet(Positions(o))
      <4>1. IsFiniteSet(1..Len(out))
        BY <1>4, FS_Interval
      <4> QED
        BY <4>1, FS_Subset DEF Positions
    <3>3. Cardinality(Positions(o)') = Cardinality(Positions(o)) + 1
      BY <3>1, <3>2, FS_AddElement
    <3> QED
      BY <1>3, <2>2, <3>3 DEF OpInv, Counted
  <2>3. CASE q # o
    <3>1. Positions(q)' = Positions(q)
      BY <1>4, <2>1, <2>3 DEF Positions
    <3> QED
      BY <1>3, <2>3, <3>1 DEF OpInv, Counted
  <2> QED
    BY <2>2, <2>3
<1>7. \A i \in 1..Len(out) : out[i] = o => out[Len(out)] = o /\ Len(out) > 0
  BY <1>1, <1>4 DEF OpInv, Counted
<1>8. Counted'
  <2>1. \A i \in 1..Len(out') : op'[out'[i]].written > 0
    BY <1>1, <1>3, <1>4 DEF OpInv, Counted
  <2>2. ASSUME NEW q \in Ops
        PROVE  /\ op'[q].at \in {"idle", "called", "queued"} => op'[q].written = 0
               /\ op'[q].at = "running" /\ op'[q].written > 0 =>
                    Len(out') > 0 /\ out'[Len(out')] = q
               /\ op'[q].kind = "send" /\ op'[q].at = "ok" => op'[q].written = WriteLen
    BY <1>2, <1>3, <1>4 DEF OpInv, Counted
  <2> QED
    BY <1>6, <2>1, <2>2 DEF Counted
<1>9. Contiguous'
  <2> SUFFICES ASSUME NEW i \in 1..Len(out'), NEW j \in 1..Len(out'), NEW k \in 1..Len(out'),
                      i < j, j < k, out'[i] = out'[k]
               PROVE  out'[j] = out'[i]
    BY DEF Contiguous
  <2>1. i \in 1..Len(out) /\ j \in 1..Len(out) /\ out'[i] = out[i] /\ out'[j] = out[j]
    BY <1>4
  <2>2. CASE k \in 1..Len(out)
    BY <1>4, <2>1, <2>2 DEF OpInv, Contiguous
  <2>3. CASE k = Len(out) + 1
    <3>1. out[i] = o /\ out[Len(out)] = o
      BY <1>4, <1>7, <2>1, <2>3
    <3>2. CASE j = Len(out)
      BY <2>1, <3>1, <3>2
    <3>3. CASE j < Len(out)
      <4>1. Len(out) \in 1..Len(out)
        BY <1>4, <2>1
      <4> QED
        BY <2>1, <3>1, <3>3, <4>1 DEF OpInv, Contiguous
    <3> QED
      BY <1>4, <2>1, <3>2, <3>3
  <2> QED
    BY <1>4, <2>2, <2>3
<1> QED
  BY <1>5, <1>8, <1>9 DEF OpInv

\* Every other end of an operation.
LEMMA FinishEnds ==
    ASSUME OpInv, NEW o \in Ops,
           \/ FindsClosed(o) \/ Flush(o) \/ WriteFails(o)
           \/ Read(o) \/ ReadEnds(o) \/ ReadTimesOut(o) \/ Shutdown(o)
    PROVE  Ends(o)
<1>1. /\ op[o].at \in {"queued", "running"}
      /\ \E how \in Over : /\ Finish(o, how)
                           /\ op[o].kind = "send" /\ how = "ok" => op[o].written = WriteLen
      /\ UNCHANGED <<stream, out>>
  <2>1. CASE FindsClosed(o)
    BY <2>1 DEF FindsClosed, Over
  <2>2. CASE Flush(o) \/ WriteFails(o)
    BY <2>2 DEF Flush, WriteFails, Running, Over
  <2>3. CASE Read(o)
    BY <2>3 DEF Read, Running, Over
  <2>4. CASE ReadEnds(o)
    BY <2>4 DEF ReadEnds, Running, Over
  <2>5. CASE ReadTimesOut(o) \/ Shutdown(o)
    BY <2>5 DEF ReadTimesOut, Shutdown, Running, Over
  <2> QED
    BY <2>1, <2>2, <2>3, <2>4, <2>5
<1>2. Holds(o)
  <2>1. CASE op[o].at = "running"
    <3>1. queue[1] = o /\ \E k \in 1..Len(queue) : queue[k] = o
      BY <2>1 DEF OpInv, Mutex
    <3>2. Len(queue) > 0
      BY <3>1 DEF OpInv, OpTyped
    <3> QED
      BY <3>1, <3>2, HolderIsFirst DEF OpInv
  <2>2. CASE op[o].at = "queued"
    BY <2>2 DEF FindsClosed, Flush, WriteFails, Read, ReadEnds, ReadTimesOut, Shutdown, Running
  <2> QED
    BY <1>1, <2>1, <2>2
<1>3. Leaves(o)
  BY <1>1, <1>2, TailLeaves DEF Finish, OpInv
<1> QED
  BY <1>1, <1>3 DEF Ends, Finish

LEMMA CancelKeeps ==
    ASSUME OpInv, NEW o \in Ops, Cancel(o)
    PROVE  OpInv'
<1>1. op' = [op EXCEPT ![o].at = "cancelled"] /\ UNCHANGED <<stream, out>>
  BY DEF Cancel
<1>2. CASE op[o].at = "called" /\ UNCHANGED queue
  <2>1. /\ op' \in [Ops -> Record] /\ op'[o].at = "cancelled" /\ op'[o].kind = op[o].kind
        /\ op'[o].written = op[o].written
        /\ \A q \in Ops : q # o => op'[q] = op[q]
    BY <1>1, RecordStep DEF OpInv, Places, Over
  <2>2. OpTyped'
    BY <1>1, <1>2, <2>1 DEF OpInv, OpTyped
  <2>3. Mutex'
    BY <1>2, <2>1 DEF OpInv, Mutex
  <2>4. HasStream'
    BY <1>1, <2>1 DEF OpInv, HasStream
  <2>5. Counted' /\ Contiguous'
    BY <1>1, <2>1, SameCounts
  <2> QED
    BY <2>2, <2>3, <2>4, <2>5 DEF OpInv
<1>3. CASE /\ op[o].at \in {"queued", "running"}
           /\ \E k \in 1..Len(queue) : queue[k] = o /\ queue' = RemoveAt(queue, k)
  <2>1. Leaves(o)
    BY <1>3, RemovalLeaves DEF OpInv
  <2>2. Ends(o)
    BY <1>1, <1>3, <2>1 DEF Ends, Over
  <2> QED
    BY <2>2, EndsKeeps
<1> QED
  BY <1>2, <1>3 DEF Cancel

LEMMA OpStep == OpInv /\ [Next]_vars => OpInv'
<1> SUFFICES ASSUME OpInv, [Next]_vars
             PROVE  OpInv'
  OBVIOUS
<1>1. CASE UNCHANGED rawVars
  BY <1>1 DEF rawVars, OpInv, OpTyped, Mutex, HasStream, Counted, Contiguous, Positions
<1>2. ASSUME NEW o \in Ops, NEW kind \in Kinds, Call(o, kind)
      PROVE  OpInv'
  BY <1>2, CallKeeps
<1>3. ASSUME NEW o \in Ops, Operate(o)
      PROVE  OpInv'
  BY <1>3, EnqueueKeeps, BeginKeeps, WriteKeeps, FinishEnds, EndsKeeps DEF Operate
<1>4. ASSUME NEW o \in Ops, Cancel(o)
      PROVE  OpInv'
  BY <1>4, CancelKeeps
<1> QED
  BY <1>1, <1>2, <1>3, <1>4 DEF Next, PeerStalls, vars

LEMMA OpInvariant == Spec => []OpInv
  BY OpInit, OpStep, PTL DEF Spec

\* The bytes of concurrent sends never mix, and a send that succeeded got all
\* of its bytes out, for every number of operations and length of write, also
\* when calls are cancelled (send_bytes of raw.rs under the connection's mutex).
THEOREM WritesNeverMix == Spec => []WritesDoNotMix
<1>1. OpInv => WritesDoNotMix
  BY DEF OpInv, Counted, Contiguous, Positions, WritesDoNotMix
<1> QED
  BY <1>1, OpInvariant, PTL

\* Once close has taken the stream, the calls that were waiting for the mutex
\* neither write nor read, and the stream does not come back.
THEOREM CloseIsFinal == Spec => ClosedForGood
<1>1. ASSUME OpInv, Next, ~stream
      PROVE  ~stream' /\ out' = out /\ received' = received
  <2>1. \A o \in Ops : op[o].at = "running" => op[o].kind = "close"
    BY <1>1 DEF OpInv, HasStream
  <2>2. \A o \in Ops : ~Write(o) /\ ~Read(o) /\ ~Begin(o)
    BY <1>1, <2>1 DEF Write, Read, Begin, Running
  <2>3. \/ UNCHANGED rawVars
        \/ \E o \in Ops : \/ \E kind \in Kinds : Call(o, kind)
                          \/ Enqueue(o) \/ FindsClosed(o) \/ Flush(o) \/ WriteFails(o)
                          \/ ReadEnds(o) \/ ReadTimesOut(o) \/ Shutdown(o) \/ Cancel(o)
    BY <1>1, <2>2 DEF Next, Operate, PeerStalls
  <2>4. UNCHANGED <<stream, out, received>>
    BY <2>3 DEF rawVars, Call, Enqueue, FindsClosed, Flush, WriteFails, ReadEnds, ReadTimesOut,
                Shutdown, Cancel
  <2> QED
    BY <1>1, <2>4
<1>2. OpInv /\ [Next]_vars => [~stream => ~stream' /\ out' = out /\ received' = received]_vars
  BY <1>1
<1> QED
  BY <1>2, OpInvariant, PTL DEF Spec, ClosedForGood

-----------------------------------------------------------------------------
(* The handshakes.                                                           *)

Phases == {"start", "tcp", "connect", "status", "method", "auth", "reply", "length", "drain",
           "tls", "open", "failed"}

TunnelTyped ==
    /\ phase \in Phases
    /\ config \in Configs
    /\ socket \in Seq(Nat) /\ todo \in Seq(Nat) /\ buf \in Seq(Nat) /\ received \in Seq(Nat)
    /\ asked \in {"nothing", "connect", "greeting", "auth", "command"}
    /\ up \in BOOLEAN
    /\ produced \in Nat /\ need \in Nat

\* What the peer has sent and nobody has read.
Coming == socket \o todo

\* Of what is in c, all after the first n bytes is what the target has sent.
Follows(c, n, p) == Len(c) = n + p /\ \A k \in 1..p : c[n + k] = Data(k)

\* A question is open, and until it is answered the peer is silent.
Silent(question) == asked = question /\ Coming = << >> /\ ~up /\ produced = 0

Early == phase \in {"start", "tcp"} =>
    Silent("nothing") /\ (phase = "tcp" => config.proxy # "bad")

\* The answers to greeting and credentials have two bytes.
TwoBytes(question) == Silent(question) \/ (asked = "nothing" /\ ~up /\ produced = 0 /\ Len(Coming) = 2)

Authenticating ==
    /\ phase = "method" => TwoBytes("greeting")
    /\ phase = "auth" => TwoBytes("auth")

\* A reply in c, of n bytes, that grants the connection has the address and the
\* port that its address type announces.
Reply(c, n, granted) ==
    c[1] = 5 /\ c[2] = 0 =>
      /\ c[4] = 1 => granted /\ n = 10
      /\ c[4] = 4 => granted /\ n = 22
      /\ c[4] = 3 => granted /\ n >= 5 /\ n = 5 + c[5] + 2

Replying ==
    /\ phase = "reply" =>
         \/ Silent("command")
         \/ /\ asked = "nothing" /\ (up \/ produced = 0)
            /\ \E n \in 4..Len(Coming) : Follows(Coming, n, produced) /\ Reply(Coming, n, up)
    /\ phase = "length" =>
         /\ asked = "nothing" /\ up /\ need = 1 /\ Len(Coming) >= 1
         /\ Follows(Coming, 1 + Coming[1] + 2, produced)
    /\ phase = "drain" => asked = "nothing" /\ up /\ Follows(Coming, need, produced)

\* A CONNECT reply and p bytes of the target in c: the only end of a head is
\* the reply's last byte, and over TLS the target is silent.
Replied(c, p, granted, scheme) ==
    \E n \in 2..Len(c) :
      /\ Len(c) = n + p
      /\ \A k \in 1..Len(c) : c[k] = EndOfHead => k = n
      /\ c[1] = 200 <=> granted
      /\ p = 0 \/ (scheme = "http" /\ granted)

Connecting ==
    /\ phase \in {"connect", "status"} =>
         /\ config.proxy = "http"
         /\ \/ Silent("connect") /\ buf = << >> /\ phase = "connect"
            \/ asked = "nothing" /\ Replied(buf \o Coming, produced, up, config.scheme)
    /\ phase = "connect" => EndOfHead \notin ToSet(buf)
    /\ phase = "status" => EndOfHead \in ToSet(buf)
    /\ phase \notin {"connect", "status", "failed"} => buf = << >>

\* Plain connections through an HTTP proxy, whose first bytes CONNECT may take.
PlainTunnel == config.proxy = "http" /\ config.scheme = "http"

Aligned ==
    phase \in {"tls", "open"} =>
      asked = "nothing" /\ up /\ (~PlainTunnel => Follows(received \o Coming, 0, produced))

\* Nobody has the connection before it is open.
Opened ==
    /\ phase # "open" => received = << >>
    /\ \A o \in Ops : op[o].at # "idle" => phase = "open"

Refused ==
    phase = "failed" /\ result = "connection" =>
      (buf # << >> /\ buf[1] = 200 => EndOfHead \notin ToSet(buf))

TunnelInv ==
    /\ TunnelTyped /\ Early /\ Authenticating /\ Replying /\ Connecting /\ Aligned
    /\ Opened /\ Refused

LEMMA TunnelInit == Init => TunnelInv
<1> SUFFICES ASSUME Init
             PROVE  TunnelInv
  OBVIOUS
<1>1. TunnelTyped
  <2>1. socket \in Seq(Nat) /\ todo \in Seq(Nat) /\ buf \in Seq(Nat) /\ received \in Seq(Nat)
    BY EmptySeq DEF Init, ConnectInit
  <2> QED
    BY <2>1 DEF Init, ConnectInit, TunnelTyped, Phases
<1>2. Coming = << >>
  BY ConcatEmptySeq, EmptySeq DEF Init, ConnectInit, Coming
<1>3. Early
  BY <1>2 DEF Init, ConnectInit, Early, Silent
<1>4. Authenticating /\ Replying /\ Connecting /\ Aligned /\ Refused
  BY DEF Init, ConnectInit, Authenticating, Replying, Connecting, Aligned, Refused
<1>5. Opened
  BY DEF Init, ConnectInit, Opened
<1> QED
  BY <1>1, <1>3, <1>4, <1>5 DEF TunnelInv

-----------------------------------------------------------------------------
(* The target's bytes behind the first n.                                    *)

LEMMA FollowsShift ==
    ASSUME NEW c \in Seq(Nat), NEW d \in Seq(Nat), NEW p \in Nat, NEW n \in Nat, NEW m \in 0..n,
           Follows(c, n, p), Len(d) = Len(c) - m, \A k \in 1..(Len(c) - m) : d[k] = c[m + k]
    PROVE  Follows(d, n - m, p)
<1>1. Len(d) = (n - m) + p
  BY DEF Follows
<1>2. ASSUME NEW k \in 1..p
      PROVE  d[(n - m) + k] = Data(k)
  <2>1. (n - m) + k \in 1..(Len(c) - m) /\ m + ((n - m) + k) = n + k
    BY DEF Follows
  <2> QED
    BY <2>1 DEF Follows
<1> QED
  BY <1>1, <1>2 DEF Follows

LEMMA FollowsAppend ==
    ASSUME NEW c \in Seq(Nat), NEW p \in Nat, NEW n \in Nat, Follows(c, n, p)
    PROVE  Follows(Append(c, Data(p + 1)), n, p + 1)
<1> DEFINE e == Data(p + 1)
           d == Append(c, e)
<1>1. e \in Nat
  BY DEF Data
<1> HIDE DEF e
<1>2. /\ Len(d) = Len(c) + 1 /\ d[Len(c) + 1] = e
      /\ \A i \in 1..Len(c) : d[i] = c[i]
  BY <1>1, AppendProperties
<1> HIDE DEF d
<1>3. Len(c) = n + p /\ Len(d) = n + (p + 1)
  BY <1>2 DEF Follows
<1>4. ASSUME NEW k \in 1..(p + 1)
      PROVE  d[n + k] = Data(k)
  <2>1. CASE k = p + 1
    <3>1. n + k = Len(c) + 1
      BY <1>3, <2>1
    <3> QED
      BY <1>2, <2>1, <3>1 DEF e
  <2>2. CASE k \in 1..p
    <3>1. n + k \in 1..Len(c)
      BY <1>3, <2>2
    <3> QED
      BY <1>2, <2>2, <3>1 DEF Follows
  <2> QED
    BY <2>1, <2>2
<1> QED
  BY <1>3, <1>4 DEF Follows, d, e

-----------------------------------------------------------------------------
(* connect_stream keeps the invariant.                                       *)

LEMMA StaysUnopened ==
    ASSUME TunnelInv, phase # "open", UNCHANGED rawVars
    PROVE  Opened'
  BY DEF TunnelInv, Opened, rawVars

LEMMA FailKeeps ==
    ASSUME TunnelInv, phase # "open", phase' = "failed", socket' \in Seq(Nat), UNCHANGED rawVars,
           UNCHANGED <<config, todo, up, produced, asked, buf, need>>,
           result' = "connection" /\ buf # << >> /\ buf[1] = 200 => EndOfHead \notin ToSet(buf)
    PROVE  TunnelInv'
<1>1. TunnelTyped'
  BY DEF TunnelInv, TunnelTyped, Phases, rawVars
<1>2. Early' /\ Authenticating' /\ Replying' /\ Connecting' /\ Aligned' /\ Refused'
  BY DEF Early, Authenticating, Replying, Connecting, Aligned, Refused
<1> QED
  BY <1>1, <1>2, StaysUnopened DEF TunnelInv

LEMMA PrepareKeeps ==
    ASSUME TunnelInv, Prepare, UNCHANGED rawVars
    PROVE  TunnelInv'
<1>1. phase = "start" /\ phase' = "tcp" /\ config.proxy # "bad"
      /\ UNCHANGED <<config, socket, todo, up, closed, produced, asked, buf, need, result>>
  BY DEF Prepare, peerVars
<1>2. TunnelTyped'
  BY <1>1 DEF TunnelInv, TunnelTyped, Phases, rawVars
<1>3. Early'
  BY <1>1 DEF TunnelInv, Early, Silent, Coming
<1>4. Authenticating' /\ Replying' /\ Connecting' /\ Aligned' /\ Refused'
  BY <1>1 DEF TunnelInv, Authenticating, Replying, Connecting, Aligned, Refused
<1> QED
  BY <1>1, <1>2, <1>3, <1>4, StaysUnopened DEF TunnelInv

\* The socket reaches the target with nothing of the handshake left in it.
LEMMA ReachedKeeps ==
    ASSUME TunnelInv, phase \in {"tcp", "status", "drain"}, phase' \in {"tls", "open"},
           UNCHANGED rawVars, UNCHANGED config, up', asked' = "nothing", buf' = << >>,
           socket' \in Seq(Nat), todo' \in Seq(Nat), need' \in Nat, produced' \in Nat,
           ~PlainTunnel => Follows(Coming', 0, produced')
    PROVE  TunnelInv'
<1>1. received = << >> /\ received' = << >>
  BY DEF TunnelInv, Opened, rawVars
<1>2. TunnelTyped'
  BY <1>1 DEF TunnelInv, TunnelTyped, Phases
<1>3. received' \o Coming' = Coming'
  <2>1. Coming' \in Seq(Nat)
    BY Concat DEF Coming
  <2> QED
    BY <1>1, <2>1, ConcatEmptySeq
<1>4. Aligned'
  BY <1>3 DEF Aligned, PlainTunnel
<1>5. Early' /\ Authenticating' /\ Replying' /\ Connecting' /\ Refused'
  BY DEF Early, Authenticating, Replying, Connecting, Refused
<1>6. Opened'
  BY StaysUnopened
<1> QED
  BY <1>2, <1>4, <1>5, <1>6 DEF TunnelInv

\* A question to the proxy, and the phase that waits for its answer.
Awaits(question) ==
    CASE question = "connect" -> "connect"
      [] question = "greeting" -> "method"
      [] question = "auth" -> "auth"
      [] question = "command" -> "reply"

LEMMA AskKeeps ==
    ASSUME TunnelInv, phase \notin {"open", "connect", "status", "failed"},
           NEW q \in {"connect", "greeting", "auth", "command"},
           phase' = Awaits(q), Silent(q)', q = "connect" => config.proxy = "http",
           socket' \in Seq(Nat), need' \in Nat, UNCHANGED <<config, todo, up, buf>>,
           UNCHANGED rawVars
    PROVE  TunnelInv'
<1>1. asked' = q /\ ~up' /\ produced' = 0 /\ buf' = << >>
  BY DEF Silent, TunnelInv, Connecting
<1>2. phase' \in {"connect", "method", "auth", "reply"}
  BY DEF Awaits
<1>3. TunnelTyped'
  BY <1>1, <1>2 DEF TunnelInv, TunnelTyped, Phases, rawVars
<1>4. Early' /\ Aligned' /\ Refused'
  BY <1>2 DEF Early, Aligned, Refused
<1>5. Authenticating'
  BY DEF Authenticating, TwoBytes, Awaits
<1>6. Replying'
  BY DEF Replying, Awaits
<1>7. Connecting'
  <2>1. EndOfHead \notin ToSet(buf')
    BY <1>1 DEF ToSet
  <2> QED
    BY <1>1, <1>2, <2>1 DEF Connecting, Awaits
<1> QED
  BY <1>3, <1>4, <1>5, <1>6, <1>7, StaysUnopened DEF TunnelInv

LEMMA TcpKeeps ==
    ASSUME TunnelInv, TcpConnects, UNCHANGED rawVars
    PROVE  TunnelInv'
<1>1. /\ phase = "tcp" /\ config.proxy \in {"none", "http", "socks5"}
      /\ UNCHANGED <<config, socket, todo, produced, buf>>
      /\ buf = << >>
      /\ Silent("nothing") /\ Coming' = Coming
  BY ConfigsAssumption DEF TcpConnects, TunnelInv, TunnelTyped, Early, Connecting, Coming
<1>2. CASE config.proxy = "none"
  <2>1. up' /\ phase' \in {"tls", "open"} /\ UNCHANGED <<asked, need>>
    BY <1>1, <1>2 DEF TcpConnects, Reached
  <2>2. Follows(Coming', 0, produced')
    BY <1>1, EmptySeq DEF Follows, Silent
  <2> QED
    BY <1>1, <2>1, <2>2, ReachedKeeps DEF TunnelInv, TunnelTyped, Silent
<1>3. CASE config.proxy = "http"
  <2>1. phase' = "connect" /\ asked' = "connect" /\ UNCHANGED <<up, need>>
    BY <1>1, <1>3 DEF TcpConnects, Ask
  <2> QED
    BY <1>1, <1>3, <2>1, AskKeeps DEF Silent, Awaits, TunnelInv, TunnelTyped
<1>4. CASE config.proxy = "socks5"
  <2>1. phase' = "method" /\ asked' = "greeting" /\ UNCHANGED <<up, need>>
    BY <1>1, <1>4 DEF TcpConnects, Ask
  <2> QED
    BY <1>1, <1>4, <2>1, AskKeeps DEF Silent, Awaits, TunnelInv, TunnelTyped
<1> QED
  BY <1>1, <1>2, <1>3, <1>4

LEMMA NoHeadYet ==
    ASSUME TunnelInv, phase # "status", phase # "failed"
    PROVE  buf # << >> /\ buf[1] = 200 => EndOfHead \notin ToSet(buf)
  BY DEF TunnelInv, Connecting

LEMMA SimpleFailures ==
    ASSUME TunnelInv, UNCHANGED rawVars,
           BadProxy \/ TcpFails \/ ConnectTooLong \/ TlsFails \/ Broken \/ TimesOut
    PROVE  TunnelInv'
<1>1. /\ phase \notin {"open", "status", "failed"} /\ phase' = "failed"
      /\ UNCHANGED <<config, socket, todo, up, produced, asked, buf, need>>
  BY DEF BadProxy, TcpFails, ConnectTooLong, TlsFails, Broken, TimesOut, Fail, peerVars
<1> QED
  BY <1>1, FailKeeps, NoHeadYet DEF TunnelInv, TunnelTyped

LEMMA TlsDoneKeeps ==
    ASSUME TunnelInv, TlsDone, UNCHANGED rawVars
    PROVE  TunnelInv'
<1>1. /\ phase = "tls" /\ phase' = "open"
      /\ UNCHANGED <<config, socket, todo, up, produced, asked, buf, need, result>>
  BY DEF TlsDone, peerVars
<1>2. TunnelTyped'
  BY <1>1 DEF TunnelInv, TunnelTyped, Phases, rawVars
<1>3. Early' /\ Authenticating' /\ Replying' /\ Connecting' /\ Refused'
  BY <1>1 DEF TunnelInv, Early, Authenticating, Replying, Connecting, Refused
<1>4. Aligned'
  BY <1>1 DEF TunnelInv, Aligned, PlainTunnel, Coming, rawVars
<1> QED
  BY <1>1, <1>2, <1>3, <1>4, StaysUnopened DEF TunnelInv

-----------------------------------------------------------------------------
(* perform_socks5 keeps the invariant.                                       *)

LEMMA ComingTyped ==
    ASSUME TunnelTyped
    PROVE  /\ Coming \in Seq(Nat) /\ Len(Coming) = Len(socket) + Len(todo)
           /\ Len(socket) \in Nat /\ Len(todo) \in Nat
           /\ \A k \in 1..Len(socket) : Coming[k] = socket[k]
  BY Concat DEF TunnelTyped, Coming

\* n bytes are read from the socket.
LEMMA SocketRead ==
    ASSUME TunnelTyped, NEW n \in 0..Len(socket), socket' = Drop(socket, n), UNCHANGED todo
    PROVE  /\ socket' \in Seq(Nat) /\ Coming' \in Seq(Nat) /\ Len(Coming') = Len(Coming) - n
           /\ \A k \in 1..(Len(Coming) - n) : Coming'[k] = Coming[n + k]
<1>1. socket \in Seq(Nat) /\ todo \in Seq(Nat)
  BY DEF TunnelTyped
<1>2. AfterRead(Nat, socket, todo, n)
  BY <1>1, ReadAhead
<1>3. Coming' = Drop(socket, n) \o todo
  BY DEF Coming
<1> QED
  BY <1>2, <1>3 DEF Coming, AfterRead

\* SendCommand, once the two bytes it waited for are read.
LEMMA CommandKeeps ==
    ASSUME TunnelInv, phase \in {"method", "auth"}, Len(socket) >= 2, socket' = Drop(socket, 2),
           UNCHANGED <<config, peerVars, buf>>, UNCHANGED rawVars,
           \/ SendCommand
           \/ Ask("auth", "auth")
           \/ Fail("connection")
    PROVE  TunnelInv'
<1>1. TunnelTyped /\ 2 \in 0..Len(socket)
  BY ComingTyped DEF TunnelInv
<1>2. UNCHANGED <<config, todo, up, produced, buf>> /\ need \in Nat
  BY DEF peerVars, TunnelInv, TunnelTyped
<1>3. Coming # << >> /\ Len(Coming) >= 2
  BY <1>1, ComingTyped
<1>4. asked = "nothing" /\ ~up /\ produced = 0 /\ Len(Coming) = 2
  BY <1>3 DEF TunnelInv, Authenticating, TwoBytes, Silent
<1>5. socket' \in Seq(Nat) /\ Coming' \in Seq(Nat) /\ Len(Coming') = 0
  BY <1>1, <1>2, <1>4, SocketRead
<1>6. Coming' = << >>
  BY <1>5
<1>7. CASE Fail("connection")
  BY <1>2, <1>5, <1>7, FailKeeps, NoHeadYet DEF Fail
<1>8. CASE Ask("command", "reply")
  <2>1. Silent("command")' /\ phase' = Awaits("command") /\ need' \in Nat
    BY <1>2, <1>4, <1>6, <1>8 DEF Ask, Silent, Awaits
  <2> QED
    BY <1>2, <1>5, <2>1, AskKeeps
<1>9. CASE Ask("auth", "auth")
  <2>1. Silent("auth")' /\ phase' = Awaits("auth") /\ need' \in Nat
    BY <1>2, <1>4, <1>6, <1>9 DEF Ask, Silent, Awaits
  <2> QED
    BY <1>2, <1>5, <2>1, AskKeeps
<1> QED
  BY <1>7, <1>8, <1>9 DEF SendCommand

LEMMA MethodAuthKeep ==
    ASSUME TunnelInv, ReadMethod \/ ReadAuth, UNCHANGED rawVars
    PROVE  TunnelInv'
<1>1. /\ phase \in {"method", "auth"} /\ Len(socket) >= 2 /\ socket' = Drop(socket, 2)
      /\ UNCHANGED <<config, peerVars, buf>>
  BY DEF ReadMethod, ReadAuth
<1>2. SendCommand \/ Ask("auth", "auth") \/ Fail("connection")
  BY DEF ReadMethod, ReadAuth
<1> QED
  BY <1>1, <1>2, CommandKeeps

\* In the phases that read the reply, what else they need.
LEMMA ReplyKeeps ==
    ASSUME TunnelInv, phase \in {"reply", "length"}, phase' \in {"length", "drain"}, up,
           UNCHANGED <<config, todo, up, produced, buf, asked>>, UNCHANGED rawVars,
           asked = "nothing", socket' \in Seq(Nat), need' \in Nat, Replying'
    PROVE  TunnelInv'
<1>1. TunnelTyped'
  BY DEF TunnelInv, TunnelTyped, Phases, rawVars
<1>2. Early' /\ Authenticating' /\ Connecting' /\ Aligned' /\ Refused'
  BY DEF TunnelInv, Early, Authenticating, Connecting, Aligned, Refused
<1> QED
  BY <1>1, <1>2, StaysUnopened DEF TunnelInv

LEMMA ReadReplyKeeps ==
    ASSUME TunnelInv, ReadReply, UNCHANGED rawVars
    PROVE  TunnelInv'
<1>1. /\ phase = "reply" /\ Len(socket) >= 4 /\ socket' = Drop(socket, 4)
      /\ UNCHANGED <<config, todo, up, produced, buf>>
  BY DEF ReadReply, peerVars
<1>2. TunnelTyped /\ 4 \in 0..Len(socket)
  BY <1>1, ComingTyped DEF TunnelInv
<1>3. /\ Coming \in Seq(Nat) /\ Len(Coming) \in Nat /\ Len(Coming) >= 4
      /\ Coming[1] = socket[1] /\ Coming[2] = socket[2] /\ Coming[4] = socket[4]
  <2>1. 1 \in 1..Len(socket) /\ 2 \in 1..Len(socket) /\ 4 \in 1..Len(socket)
    BY <1>1, <1>2
  <2> QED
    BY <1>1, <1>2, <2>1, ComingTyped
<1>4. Coming # << >>
  BY <1>3
<1>5. /\ asked = "nothing"
      /\ \E n \in 4..Len(Coming) : Follows(Coming, n, produced) /\ Reply(Coming, n, up)
  BY <1>1, <1>4 DEF TunnelInv, Replying, Silent
<1>6. PICK n \in 4..Len(Coming) : Follows(Coming, n, produced) /\ Reply(Coming, n, up)
  BY <1>5
<1>7. /\ socket' \in Seq(Nat) /\ Coming' \in Seq(Nat) /\ Len(Coming') = Len(Coming) - 4
      /\ \A k \in 1..(Len(Coming) - 4) : Coming'[k] = Coming[4 + k]
  BY <1>1, <1>2, SocketRead
<1>8. produced \in Nat /\ n \in Nat /\ 4 \in 0..n
  BY <1>2, <1>3, <1>6 DEF TunnelTyped
<1>9. Follows(Coming', n - 4, produced)
  BY <1>3, <1>6, <1>7, <1>8, FollowsShift
<1> DEFINE granted == Coming[1] = 5 /\ Coming[2] = 0
<1>10. CASE granted /\ Coming[4] = 1
  <2>1. up /\ n - 4 = 6 /\ Awaiting("drain", 6)
    <3>1. Awaiting("drain", 6)
      BY <1>3, <1>10 DEF ReadReply
    <3>2. up /\ n = 10
      BY <1>6, <1>10 DEF Reply
    <3> QED
      BY <3>1, <3>2
  <2>2. Replying'
    BY <1>1, <1>5, <1>9, <2>1 DEF Replying, Awaiting
  <2> QED
    BY <1>1, <1>5, <1>7, <2>1, <2>2, ReplyKeeps DEF Awaiting
<1>11. CASE granted /\ Coming[4] = 4
  <2>1. up /\ n - 4 = 18 /\ Awaiting("drain", 18)
    <3>1. Awaiting("drain", 18)
      BY <1>3, <1>11 DEF ReadReply
    <3>2. up /\ n = 22
      BY <1>6, <1>11 DEF Reply
    <3> QED
      BY <3>1, <3>2
  <2>2. Replying'
    BY <1>1, <1>5, <1>9, <2>1 DEF Replying, Awaiting
  <2> QED
    BY <1>1, <1>5, <1>7, <2>1, <2>2, ReplyKeeps DEF Awaiting
<1>12. CASE granted /\ Coming[4] = 3
  <2>1. up /\ n >= 5 /\ n = 5 + Coming[5] + 2 /\ Awaiting("length", 1)
    <3>1. Awaiting("length", 1)
      BY <1>3, <1>12 DEF ReadReply
    <3>2. up /\ n >= 5 /\ n = 5 + Coming[5] + 2
      BY <1>6, <1>12 DEF Reply
    <3> QED
      BY <3>1, <3>2
  <2>2. 5 \in 1..Len(Coming) /\ Coming[5] \in Nat /\ Coming'[1] = Coming[5] /\ Len(Coming') >= 1
    <3>1. 5 \in 1..Len(Coming) /\ 1 \in 1..(Len(Coming) - 4)
      BY <1>3, <1>6, <2>1
    <3>2. Coming'[1] = Coming[4 + 1]
      BY <1>7, <3>1
    <3>3. Coming \in Seq(Nat)
      BY <1>3
    <3>4. Coming[5] \in Nat
      BY <3>1, <3>3, ElementOfSeq
    <3>5. Len(Coming) \in Nat /\ Len(Coming') = Len(Coming) - 4
      BY <1>7, <3>3
    <3>6. Len(Coming') >= 1
      BY <3>1, <3>5
    <3> QED
      BY <3>1, <3>2, <3>4, <3>6
  <2>3. n - 4 = 1 + Coming'[1] + 2
    BY <1>8, <2>1, <2>2
  <2>4. Replying'
    BY <1>1, <1>5, <1>9, <2>1, <2>2, <2>3 DEF Replying, Awaiting
  <2> QED
    BY <1>1, <1>5, <1>7, <2>1, <2>4, ReplyKeeps DEF Awaiting
<1>13. CASE ~(granted /\ Coming[4] \in {1, 3, 4})
  <2>1. Fail("connection")
    BY <1>3, <1>13 DEF ReadReply
  <2> QED
    BY <1>1, <1>7, <2>1, FailKeeps, NoHeadYet DEF Fail
<1> QED
  BY <1>10, <1>11, <1>12, <1>13

LEMMA ReadLengthKeeps ==
    ASSUME TunnelInv, ReadLength, UNCHANGED rawVars
    PROVE  TunnelInv'
<1>1. /\ phase = "length" /\ Len(socket) >= 1 /\ socket' = Tail(socket)
      /\ Awaiting("drain", Head(socket) + 2)
      /\ UNCHANGED <<config, todo, up, produced, buf>>
  BY DEF ReadLength, peerVars
<1>2. TunnelTyped /\ 1 \in 0..Len(socket) /\ socket # << >> /\ produced \in Nat
  BY <1>1, ComingTyped DEF TunnelInv, TunnelTyped
<1>3. socket' = Drop(socket, 1)
  BY <1>1, <1>2, TailIsSubSeq DEF Drop, TunnelTyped
<1>4. Coming \in Seq(Nat) /\ Len(Coming) >= 1 /\ Coming[1] = Head(socket) /\ Coming[1] \in Nat
  <2>1. Coming \in Seq(Nat) /\ Len(Coming) = Len(socket) + Len(todo) /\ Coming[1] = socket[1]
    BY <1>1, <1>2, ComingTyped
  <2>2. Len(socket) \in Nat /\ Len(todo) \in Nat /\ socket \in Seq(Nat)
    BY <1>2, ComingTyped DEF TunnelTyped
  <2>3. Head(socket) = socket[1]
    BY <1>2, <2>2
  <2>4. Head(socket) \in Nat
    BY <1>2, <2>2, HeadTailProperties
  <2>5. Len(Coming) >= 1
    BY <1>1, <2>1, <2>2
  <2> QED
    BY <2>1, <2>3, <2>4, <2>5
<1>5. /\ socket' \in Seq(Nat) /\ Coming' \in Seq(Nat) /\ Len(Coming') = Len(Coming) - 1
      /\ \A k \in 1..(Len(Coming) - 1) : Coming'[k] = Coming[1 + k]
  BY <1>1, <1>2, <1>3, SocketRead
<1>6. asked = "nothing" /\ up /\ Follows(Coming, 1 + Coming[1] + 2, produced)
  BY <1>1 DEF TunnelInv, Replying
<1> DEFINE n == 1 + Coming[1] + 2
<1>7. n \in Nat /\ 1 \in 0..n /\ n - 1 = Head(socket) + 2 /\ Head(socket) + 2 \in Nat
  BY <1>4
<1> HIDE DEF n
<1>8. Follows(Coming, n, produced)
  BY <1>6 DEF n
<1>9. Follows(Coming', n - 1, produced)
  BY <1>2, <1>4, <1>5, <1>7, <1>8, FollowsShift
<1>10. Replying'
  BY <1>1, <1>6, <1>7, <1>9 DEF Replying, Awaiting
<1> QED
  BY <1>1, <1>5, <1>6, <1>7, <1>10, ReplyKeeps DEF Awaiting

LEMMA DrainKeeps ==
    ASSUME TunnelInv, Drain, UNCHANGED rawVars
    PROVE  TunnelInv'
<1>1. /\ phase = "drain" /\ Len(socket) >= need /\ socket' = Drop(socket, need)
      /\ phase' \in {"tls", "open"} /\ need' = 0
      /\ UNCHANGED <<config, todo, up, produced, asked, buf>>
  BY DEF Drain, peerVars
<1>2. TunnelTyped /\ need \in Nat /\ need \in 0..Len(socket) /\ produced \in Nat
  BY <1>1, ComingTyped DEF TunnelInv, TunnelTyped
<1>3. asked = "nothing" /\ up /\ Follows(Coming, need, produced) /\ buf = << >>
  BY <1>1 DEF TunnelInv, Replying, Connecting
<1>4. /\ socket' \in Seq(Nat) /\ Coming' \in Seq(Nat) /\ Len(Coming') = Len(Coming) - need
      /\ \A k \in 1..(Len(Coming) - need) : Coming'[k] = Coming[need + k]
  BY <1>1, <1>2, SocketRead
<1>5. need \in 0..need /\ need - need = 0
  BY <1>2
<1>6. Follows(Coming', need - need, produced)
  BY <1>2, <1>3, <1>4, <1>5, ComingTyped, FollowsShift
<1>7. Follows(Coming', 0, produced')
  BY <1>1, <1>5, <1>6
<1> QED
  BY <1>1, <1>2, <1>3, <1>4, <1>7, ReachedKeeps DEF TunnelTyped

-----------------------------------------------------------------------------
(* perform_http_connect keeps the invariant.                                 *)

LEMMA ReadConnectKeeps ==
    ASSUME TunnelInv, ReadConnect, UNCHANGED rawVars
    PROVE  TunnelInv'
<1> DEFINE n == Smaller(Len(socket), BufMax - Len(buf))
<1>1. /\ phase = "connect" /\ socket # << >>
      /\ buf' = buf \o SubSeq(socket, 1, n) /\ socket' = Drop(socket, n)
      /\ phase' = IF EndOfHead \in ToSet(buf') THEN "status" ELSE "connect"
      /\ UNCHANGED <<config, todo, up, produced, asked, need, result>>
  BY DEF ReadConnect, peerVars
<1>2. TunnelTyped /\ socket \in Seq(Nat) /\ todo \in Seq(Nat) /\ buf \in Seq(Nat)
  BY DEF TunnelInv, TunnelTyped
<1>3. n \in 0..Len(socket)
  BY <1>2, BufAssumption DEF ReadConnect, Smaller
<1> HIDE DEF n
<1> DEFINE l == SubSeq(socket, 1, n)
           r == Drop(socket, n)
<1>4. l \in Seq(Nat) /\ r \in Seq(Nat) /\ l \o r = socket
  BY <1>2, <1>3, ReadAhead DEF AfterRead
<1> HIDE DEF l, r
<1>5. buf' = buf \o l /\ socket' = r
  BY <1>1 DEF l, r
<1>6. buf' \in Seq(Nat) /\ socket' \in Seq(Nat) /\ Coming' = r \o todo
  BY <1>1, <1>2, <1>4, <1>5, Concat DEF Coming
<1>7. buf' \o Coming' = buf \o Coming
  <2>1. r \o todo \in Seq(Nat)
    BY <1>2, <1>4, Concat
  <2>2. (buf \o l) \o (r \o todo) = buf \o (l \o (r \o todo))
    BY <1>2, <1>4, <2>1, Associative, Zenon
  <2>3. (l \o r) \o todo = l \o (r \o todo)
    <3>1. l \in Seq(Nat) /\ r \in Seq(Nat) /\ todo \in Seq(Nat)
      BY <1>2, <1>4
    <3> QED
      BY <3>1, Associative, Zenon
  <2> QED
    BY <1>4, <1>5, <1>6, <2>2, <2>3 DEF Coming
<1>8. /\ config.proxy = "http" /\ asked = "nothing"
      /\ Replied(buf \o Coming, produced, up, config.scheme)
  <2>1. Coming # << >>
    BY <1>1, <1>2, ConcatEqualIffEmpty DEF Coming
  <2> QED
    BY <1>1, <2>1 DEF TunnelInv, Connecting, Silent
<1>9. Replied(buf' \o Coming', produced', up', config'.scheme)
  BY <1>1, <1>7, <1>8
<1>10. phase' \in {"connect", "status"} /\ (phase' = "status" <=> EndOfHead \in ToSet(buf'))
  BY <1>1
<1>11. TunnelTyped'
  BY <1>1, <1>2, <1>6, <1>10 DEF TunnelTyped, Phases, rawVars
<1>12. Early' /\ Authenticating' /\ Replying' /\ Aligned' /\ Refused'
  BY <1>10 DEF Early, Authenticating, Replying, Aligned, Refused
<1>13. Connecting'
  BY <1>1, <1>8, <1>9, <1>10 DEF Connecting
<1> QED
  BY <1>1, <1>11, <1>12, <1>13, StaysUnopened DEF TunnelInv

LEMMA CheckStatusKeeps ==
    ASSUME TunnelInv, CheckStatus, UNCHANGED rawVars
    PROVE  TunnelInv'
<1>1. phase = "status" /\ UNCHANGED <<config, socket, todo, up, produced>>
  BY DEF CheckStatus, peerVars
<1>2. /\ TunnelTyped /\ buf \in Seq(Nat) /\ Coming \in Seq(Nat) /\ Len(buf) \in Nat
      /\ Len(Coming) \in Nat
  BY ComingTyped DEF TunnelInv, TunnelTyped
<1>3. PICK k \in 1..Len(buf) : buf[k] = EndOfHead
  BY <1>1, <1>2 DEF TunnelInv, Connecting, ToSet
<1> DEFINE c == buf \o Coming
<1>4. asked = "nothing" /\ Replied(c, produced, up, config.scheme)
  BY <1>1 DEF TunnelInv, Connecting
<1>5. Len(c) = Len(buf) + Len(Coming) /\ \A i \in 1..Len(buf) : c[i] = buf[i]
  BY <1>2, Concat
<1> HIDE DEF c
<1>6. PICK n \in 2..Len(c) :
         /\ Len(c) = n + produced
         /\ \A i \in 1..Len(c) : c[i] = EndOfHead => i = n
         /\ c[1] = 200 <=> up
         /\ produced = 0 \/ (config.scheme = "http" /\ up)
  BY <1>4 DEF Replied
<1>7. k \in 1..Len(c) /\ 1 \in 1..Len(buf)
  BY <1>2, <1>3, <1>5
<1>8. k = n /\ (buf[1] = 200 <=> up)
  BY <1>3, <1>5, <1>6, <1>7
<1>9. CASE StatusOk(buf[1])
  <2>1. Reached /\ buf' = << >> /\ up
    BY <1>8, <1>9 DEF CheckStatus, StatusOk
  <2>2. ~PlainTunnel => Follows(Coming', 0, produced')
    <3> SUFFICES ASSUME ~PlainTunnel
                 PROVE  Follows(Coming', 0, produced')
      OBVIOUS
    <3>1. produced = 0
      BY <1>1, <1>6 DEF PlainTunnel, TunnelInv, Connecting
    <3>2. Len(Coming) = 0
      BY <1>2, <1>3, <1>5, <1>6, <1>8, <3>1
    <3>3. Coming' = Coming
      BY <1>1 DEF Coming
    <3> QED
      BY <1>1, <3>1, <3>2, <3>3 DEF Follows
  <2>3. phase' \in {"tls", "open"} /\ asked' = "nothing" /\ need' \in Nat
    BY <1>2, <1>4, <2>1 DEF Reached, TunnelTyped
  <2>4. socket' \in Seq(Nat) /\ todo' \in Seq(Nat) /\ produced' \in Nat /\ up' /\ UNCHANGED config
    BY <1>1, <1>2, <2>1 DEF TunnelTyped
  <2> QED
    BY <1>1, <2>1, <2>2, <2>3, <2>4, ReachedKeeps
<1>10. CASE ~StatusOk(buf[1])
  <2>1. Fail("connection") /\ UNCHANGED buf /\ buf[1] # 200
    BY <1>10 DEF CheckStatus, StatusOk
  <2> QED
    BY <1>1, <1>2, <2>1, FailKeeps DEF Fail, TunnelTyped
<1> QED
  BY <1>9, <1>10

LEMMA ConnectStepKeeps ==
    ASSUME TunnelInv, ConnectStep, UNCHANGED rawVars
    PROVE  TunnelInv'
  BY PrepareKeeps, SimpleFailures, TcpKeeps, ReadConnectKeeps, CheckStatusKeeps, MethodAuthKeep,
     ReadReplyKeeps, ReadLengthKeeps, DrainKeeps, TlsDoneKeeps DEF ConnectStep

-----------------------------------------------------------------------------
(* The peer keeps the invariant.                                             *)

\* Nothing it looks at changes.
LEMMA ComingStays ==
    ASSUME TunnelInv, Coming' = Coming, socket' \in Seq(Nat), todo' \in Seq(Nat), UNCHANGED rawVars,
           UNCHANGED <<phase, config, asked, up, produced, buf, need, result>>
    PROVE  TunnelInv'
<1>1. TunnelTyped'
  BY DEF TunnelInv, TunnelTyped, rawVars
<1>2. \A q : Silent(q)' <=> Silent(q)
  BY DEF Silent
<1>3. Early' /\ Opened' /\ Refused'
  BY <1>2 DEF TunnelInv, Early, Opened, Refused, rawVars
<1>4. Authenticating'
  BY <1>2 DEF TunnelInv, Authenticating, TwoBytes
<1>5. Replying'
  BY <1>2 DEF TunnelInv, Replying
<1>6. Connecting'
  BY <1>2 DEF TunnelInv, Connecting
<1>7. Aligned'
  BY DEF TunnelInv, Aligned, PlainTunnel, rawVars
<1> QED
  BY <1>1, <1>3, <1>4, <1>5, <1>6, <1>7 DEF TunnelInv

LEMMA QuietPeerKeeps ==
    ASSUME TunnelInv, Arrive \/ PeerCloses, UNCHANGED rawVars
    PROVE  TunnelInv'
<1>1. UNCHANGED <<phase, config, asked, up, produced, buf, need, result>>
  BY DEF Arrive, PeerCloses
<1>2. socket \in Seq(Nat) /\ todo \in Seq(Nat)
  BY DEF TunnelInv, TunnelTyped
<1>3. Coming' = Coming /\ socket' \in Seq(Nat) /\ todo' \in Seq(Nat)
  <2>1. CASE Arrive
    <3>1. todo # << >> /\ socket' = Append(socket, Head(todo)) /\ todo' = Tail(todo)
      BY <2>1 DEF Arrive
    <3>2. Head(todo) \in Nat /\ Tail(todo) \in Seq(Nat)
      BY <1>2, <3>1, HeadTailProperties
    <3>3. Append(socket, Head(todo)) \in Seq(Nat)
      BY <1>2, <3>2, AppendProperties
    <3>4. Append(socket, Head(todo)) \o Tail(todo) = socket \o todo
      BY <1>2, <3>1, Arrives
    <3> QED
      BY <3>1, <3>2, <3>3, <3>4 DEF Coming
  <2>2. CASE PeerCloses
    BY <1>2, <2>2 DEF PeerCloses, Coming
  <2> QED
    BY <2>1, <2>2
<1> QED
  BY <1>1, <1>3, ComingStays

LEMMA ConnectAnswer ==
    ASSUME NEW a \in ConnectAnswers, NEW scheme
    PROVE  a.bytes \in Seq(Nat) /\ a.up \in BOOLEAN /\ Replied(a.bytes, 0, a.up, scheme)
<1>1. PICK s \in {200, 407, 0}, h \in 0..MaxHeaders :
         a = [bytes |-> ConnectReply(s, h), up |-> s = 200]
  BY DEF ConnectAnswers
<1> DEFINE lines == [k \in 1..h |-> HeaderLine]
           front == <<s>> \o lines
           all == front \o <<EndOfHead>>
<1>2. a.bytes = all /\ a.up = (s = 200)
  BY <1>1 DEF ConnectReply
<1>3. h \in Nat /\ s \in Nat /\ s # EndOfHead
  BY DataAssumption DEF EndOfHead
<1>4. lines \in Seq(Nat) /\ Len(lines) = h /\ \A k \in 1..h : lines[k] = HeaderLine
  BY <1>3 DEF HeaderLine
<1>5. <<s>> \in Seq(Nat) /\ Len(<<s>>) = 1 /\ <<s>>[1] = s
  BY <1>3
<1>6. <<EndOfHead>> \in Seq(Nat) /\ Len(<<EndOfHead>>) = 1
  BY DEF EndOfHead
<1> HIDE DEF lines
<1>7. front \in Seq(Nat) /\ Len(front) = 1 + h /\ front[1] = s
      /\ \A k \in 1..(1 + h) : front[k] # EndOfHead
  <2>1. /\ front \in Seq(Nat) /\ Len(front) = Len(<<s>>) + Len(lines)
        /\ \A k \in 1..(Len(<<s>>) + Len(lines)) : front[k] =
             IF k <= Len(<<s>>) THEN <<s>>[k] ELSE lines[k - Len(<<s>>)]
    BY <1>4, <1>5, ConcatProperties
  <2> HIDE DEF front
  <2>2. \A k \in 1..(1 + h) : front[k] = IF k <= 1 THEN <<s>>[k] ELSE lines[k - 1]
    BY <1>4, <1>5, <2>1
  <2>3. front[1] = s
    BY <1>3, <1>5, <2>2
  <2>4. ASSUME NEW k \in 1..(1 + h), k # 1
        PROVE  front[k] = HeaderLine
    <3>1. k - 1 \in 1..h /\ ~(k <= 1)
      BY <1>3, <2>4
    <3> QED
      BY <1>4, <2>2, <3>1
  <2>5. HeaderLine # EndOfHead
    BY DEF HeaderLine, EndOfHead
  <2> QED
    BY <1>3, <1>4, <1>5, <2>1, <2>3, <2>4, <2>5
<1> HIDE DEF front
<1>8. /\ all \in Seq(Nat) /\ Len(all) = h + 2
      /\ \A k \in 1..(1 + h) : all[k] = front[k]
  <2>1. all \in Seq(Nat) /\ Len(all) = Len(front) + Len(<<EndOfHead>>)
        /\ \A k \in 1..Len(front) : all[k] = front[k]
    BY <1>6, <1>7, Concat
  <2> QED
    BY <1>3, <1>6, <1>7, <2>1
<1> HIDE DEF all
<1>9. all[1] = s /\ \A k \in 1..Len(all) : all[k] = EndOfHead => k = Len(all)
  BY <1>3, <1>7, <1>8
<1>10. Len(all) \in 2..Len(all) /\ Len(all) = Len(all) + 0
  BY <1>3, <1>8
<1>11. Replied(all, 0, s = 200, scheme)
  BY <1>9, <1>10 DEF Replied
<1> QED
  BY <1>2, <1>8, <1>11

LEMMA TwoByteAnswer ==
    ASSUME NEW a \in GreetingAnswers \cup AuthAnswers
    PROVE  a.bytes \in Seq(Nat) /\ a.up = FALSE /\ Len(a.bytes) = 2
<1>1. PICK v \in {1, 4, 5}, m \in {0, 1, 2, 255} : a = [bytes |-> <<v, m>>, up |-> FALSE]
  BY DEF GreetingAnswers, AuthAnswers
<1>2. <<v, m>> \in Seq(Nat) /\ Len(<<v, m>>) = 2
  OBVIOUS
<1> QED
  BY <1>1, <1>2

\* Four or five bytes and as many zeros as they announce.
LEMMA Granting ==
    ASSUME NEW s \in Seq(Nat), NEW m \in Nat, Len(s) >= 4
    PROVE  /\ s \o Zeros(m) \in Seq(Nat) /\ Len(s \o Zeros(m)) = Len(s) + m
           /\ \A k \in 1..Len(s) : (s \o Zeros(m))[k] = s[k]
<1>1. Zeros(m) \in Seq(Nat) /\ Len(Zeros(m)) = m
  BY DEF Zeros
<1> QED
  BY <1>1, Concat

CommandReply(c, granted) ==
    /\ c \in Seq(Nat) /\ granted \in BOOLEAN
    /\ \E n \in 4..Len(c) : Follows(c, n, 0) /\ Reply(c, n, granted)

LEMMA Granted ==
    ASSUME NEW s \in Seq(Nat), NEW m \in Nat, Len(s) >= 4, s[1] = 5, s[2] = 0,
           \/ s[4] = 1 /\ Len(s) + m = 10
           \/ s[4] = 4 /\ Len(s) + m = 22
           \/ s[4] = 3 /\ Len(s) = 5 /\ s[5] \in Nat /\ m = s[5] + 2
    PROVE  CommandReply(s \o Zeros(m), TRUE)
<1> DEFINE c == s \o Zeros(m)
           n == Len(s) + m
<1>1. /\ c \in Seq(Nat) /\ Len(c) = Len(s) + m
      /\ \A k \in 1..Len(s) : c[k] = s[k]
  BY Granting
<1> HIDE DEF c
<1>2. n \in 4..Len(c) /\ Len(s) \in Nat /\ Len(c) = n
  BY <1>1
<1>3. 1 \in 1..Len(s) /\ 2 \in 1..Len(s) /\ 4 \in 1..Len(s)
  BY <1>2
<1>4. c[1] = 5 /\ c[2] = 0 /\ c[4] = s[4]
  BY <1>1, <1>3
<1>5. ASSUME s[4] = 3
      PROVE  c[5] = s[5] /\ n = 5 + c[5] + 2 /\ n >= 5
  <2>1. Len(s) = 5 /\ s[5] \in Nat /\ m = s[5] + 2
    BY <1>5
  <2>2. c[5] = s[5]
    BY <1>1, <2>1
  <2> QED
    BY <2>1, <2>2
<1>6. Reply(c, n, TRUE)
  BY <1>4, <1>5 DEF Reply
<1>7. Follows(c, n, 0)
  BY <1>2 DEF Follows
<1> HIDE DEF n
<1>8. CommandReply(c, TRUE)
  BY <1>1, <1>2, <1>6, <1>7 DEF CommandReply
<1> QED
  BY <1>8 DEF c

LEMMA CommandAnswer ==
    ASSUME NEW a \in CommandAnswers
    PROVE  CommandReply(a.bytes, a.up)
<1>1. ASSUME NEW s \in {<<5, 5, 0, 1>>, <<5, 0, 0, 9>>}, a = [bytes |-> s, up |-> FALSE]
      PROVE  CommandReply(a.bytes, a.up)
  <2>1. s \in Seq(Nat) /\ Len(s) = 4 /\ (s[2] = 5 \/ s[4] = 9)
    <3>1. CASE s = <<5, 5, 0, 1>>
      BY <3>1
    <3>2. CASE s = <<5, 0, 0, 9>>
      BY <3>2
    <3> QED
      BY <1>1, <3>1, <3>2
  <2>2. a.bytes = s /\ a.up = FALSE
    BY <1>1
  <2>3. Follows(s, 4, 0) /\ Reply(s, 4, FALSE) /\ 4 \in 4..Len(s)
    BY <2>1 DEF Follows, Reply
  <2> QED
    BY <2>1, <2>2, <2>3 DEF CommandReply
<1>2. CASE a = [bytes |-> <<5, 0, 0, 1>> \o Zeros(6), up |-> TRUE]
  <2> DEFINE s == <<5, 0, 0, 1>>
  <2>1. s \in Seq(Nat) /\ Len(s) = 4 /\ s[1] = 5 /\ s[2] = 0 /\ s[4] = 1
    OBVIOUS
  <2> HIDE DEF s
  <2>2. CommandReply(s \o Zeros(6), TRUE)
    <3>1. 6 \in Nat /\ Len(s) >= 4 /\ Len(s) + 6 = 10
      BY <2>1
    <3> QED
      BY <2>1, <3>1, Granted, Zenon
  <2> QED
    BY <1>2, <2>2 DEF s
<1>3. CASE a = [bytes |-> <<5, 0, 0, 4>> \o Zeros(18), up |-> TRUE]
  <2> DEFINE s == <<5, 0, 0, 4>>
  <2>1. s \in Seq(Nat) /\ Len(s) = 4 /\ s[1] = 5 /\ s[2] = 0 /\ s[4] = 4
    OBVIOUS
  <2> HIDE DEF s
  <2>2. CommandReply(s \o Zeros(18), TRUE)
    <3>1. 18 \in Nat /\ Len(s) >= 4 /\ Len(s) + 18 = 22
      BY <2>1
    <3> QED
      BY <2>1, <3>1, Granted, Zenon
  <2> QED
    BY <1>3, <2>2 DEF s
<1>4. ASSUME NEW l \in NameLengths, a = [bytes |-> <<5, 0, 0, 3, l>> \o Zeros(l + 2), up |-> TRUE]
      PROVE  CommandReply(a.bytes, a.up)
  <2> DEFINE s == <<5, 0, 0, 3, l>>
             m == l + 2
  <2>1. l \in Nat /\ m \in Nat
    BY NamesAssumption
  <2>2. s \in Seq(Nat) /\ Len(s) = 5 /\ s[1] = 5 /\ s[2] = 0 /\ s[4] = 3 /\ s[5] = l
    BY <2>1
  <2>3. m = s[5] + 2
    BY <2>2
  <2> HIDE DEF s, m
  <2>4. CommandReply(s \o Zeros(m), TRUE)
    <3>1. Len(s) >= 4 /\ s[5] \in Nat
      BY <2>1, <2>2
    <3> QED
      BY <2>1, <2>2, <2>3, <3>1, Granted, Zenon
  <2> QED
    BY <1>4, <2>4 DEF s, m
<1> QED
  BY <1>1, <1>2, <1>3, <1>4 DEF CommandAnswers

LEMMA AnswerKeeps ==
    ASSUME TunnelInv, Answer, UNCHANGED rawVars
    PROVE  TunnelInv'
<1>1. /\ asked # "nothing" /\ phase # "failed" /\ asked' = "nothing"
      /\ UNCHANGED <<phase, config, socket, produced, buf, need, result>>
  BY DEF Answer
<1>2. PICK a \in Answers(asked) : todo' = todo \o a.bytes /\ up' = a.up
  BY DEF Answer
<1>3. /\ phase \in {"connect", "method", "auth", "reply"}
      /\ phase = "connect" => asked = "connect" /\ buf = << >> /\ config.proxy = "http"
      /\ phase = "method" => asked = "greeting"
      /\ phase = "auth" => asked = "auth"
      /\ phase = "reply" => asked = "command"
      /\ Coming = << >> /\ produced = 0
  BY <1>1 DEF TunnelInv, TunnelTyped, Phases, Early, Authenticating, TwoBytes, Replying,
              Connecting, Aligned, Silent
<1>4. /\ asked = "connect" => a \in ConnectAnswers
      /\ asked = "greeting" => a \in GreetingAnswers
      /\ asked = "auth" => a \in AuthAnswers
      /\ asked = "command" => a \in CommandAnswers
  BY DEF Answers
<1>5. a.bytes \in Seq(Nat) /\ a.up \in BOOLEAN
  <2>1. CASE phase = "connect"
    BY <1>3, <1>4, <2>1, ConnectAnswer
  <2>2. CASE phase \in {"method", "auth"}
    BY <1>3, <1>4, <2>2, TwoByteAnswer
  <2>3. CASE phase = "reply"
    BY <1>3, <1>4, <2>3, CommandAnswer DEF CommandReply
  <2> QED
    BY <1>3, <2>1, <2>2, <2>3
<1>6. Coming' = a.bytes /\ todo' \in Seq(Nat)
  <2>1. socket = << >> /\ todo = << >>
    BY <1>3, ConcatEqualIffEmpty DEF TunnelInv, TunnelTyped, Coming
  <2>2. << >> \o a.bytes = a.bytes
    BY <1>5, ConcatEmptySeq
  <2> QED
    BY <1>1, <1>2, <1>5, <2>1, <2>2 DEF Coming
<1>7. TunnelTyped'
  BY <1>1, <1>2, <1>5, <1>6 DEF TunnelInv, TunnelTyped, rawVars
<1>8. Early' /\ Aligned' /\ Refused'
  BY <1>1, <1>3 DEF Early, Aligned, Refused
<1>9. Authenticating'
  <2>1. CASE phase \in {"method", "auth"}
    <3>1. Len(a.bytes) = 2 /\ a.up = FALSE
      BY <1>3, <1>4, <2>1, TwoByteAnswer
    <3> QED
      BY <1>1, <1>2, <1>3, <1>6, <3>1 DEF Authenticating, TwoBytes
  <2>2. CASE phase \notin {"method", "auth"}
    BY <1>1, <2>2 DEF Authenticating
  <2> QED
    BY <2>1, <2>2
<1>10. Replying'
  <2>1. CASE phase = "reply"
    <3>1. \E n \in 4..Len(Coming') : Follows(Coming', n, produced') /\ Reply(Coming', n, up')
      BY <1>1, <1>2, <1>3, <1>4, <1>6, <2>1, CommandAnswer DEF CommandReply
    <3> QED
      BY <1>1, <1>3, <2>1, <3>1 DEF Replying
  <2>2. CASE phase # "reply"
    BY <1>1, <1>3, <2>2 DEF Replying
  <2> QED
    BY <2>1, <2>2
<1>11. Connecting'
  <2>1. CASE phase = "connect"
    <3>1. Replied(a.bytes, 0, a.up, config.scheme)
      BY <1>3, <1>4, <2>1, ConnectAnswer
    <3>2. buf' \o Coming' = a.bytes
      BY <1>1, <1>3, <1>5, <1>6, <2>1, ConcatEmptySeq
    <3>3. Replied(buf' \o Coming', produced', up', config'.scheme)
      BY <1>1, <1>2, <1>3, <3>1, <3>2
    <3> QED
      BY <1>1, <1>3, <2>1, <3>3 DEF TunnelInv, Connecting
  <2>2. CASE phase # "connect"
    BY <1>1, <1>3, <2>2 DEF TunnelInv, Connecting
  <2> QED
    BY <2>1, <2>2
<1>12. Opened'
  BY <1>3, StaysUnopened
<1> QED
  BY <1>7, <1>8, <1>9, <1>10, <1>11, <1>12 DEF TunnelInv

\* A byte of the target behind a CONNECT reply.
LEMMA RepliedAppend ==
    ASSUME NEW c \in Seq(Nat), NEW p \in Nat, NEW scheme, scheme = "http",
           Replied(c, p, TRUE, scheme)
    PROVE  Replied(Append(c, Data(p + 1)), p + 1, TRUE, scheme)
<1> DEFINE e == Data(p + 1)
           d == Append(c, e)
<1>1. e \in Nat /\ e # EndOfHead
  BY DEF Data, EndOfHead
<1> HIDE DEF e
<1>2. /\ Len(d) = Len(c) + 1 /\ d[Len(c) + 1] = e /\ Len(c) \in Nat
      /\ \A i \in 1..Len(c) : d[i] = c[i]
  BY <1>1, AppendProperties
<1> HIDE DEF d
<1>3. PICK n \in 2..Len(c) :
         /\ Len(c) = n + p
         /\ \A k \in 1..Len(c) : c[k] = EndOfHead => k = n
         /\ c[1] = 200
  BY DEF Replied
<1>4. n \in 2..Len(d) /\ Len(d) = n + (p + 1) /\ 1 \in 1..Len(c)
  BY <1>2, <1>3
<1>5. ASSUME NEW k \in 1..Len(d), d[k] = EndOfHead
      PROVE  k = n
  <2>1. k \in 1..Len(c)
    BY <1>1, <1>2, <1>5
  <2> QED
    BY <1>2, <1>3, <1>5, <2>1
<1>6. d[1] = 200
  BY <1>2, <1>3, <1>4
<1>7. Replied(d, p + 1, TRUE, scheme)
  BY <1>4, <1>5, <1>6 DEF Replied
<1> QED
  BY <1>7 DEF d, e

LEMMA TargetSendsKeeps ==
    ASSUME TunnelInv, TargetSends, UNCHANGED rawVars
    PROVE  TunnelInv'
<1> DEFINE e == Data(produced + 1)
<1>1. /\ up /\ phase # "failed" /\ (config.scheme = "http" \/ phase = "open")
      /\ produced' = produced + 1 /\ todo' = Append(todo, e)
      /\ UNCHANGED <<phase, config, socket, asked, up, buf, need, result>>
  BY DEF TargetSends
<1>2. /\ TunnelTyped /\ socket \in Seq(Nat) /\ todo \in Seq(Nat) /\ buf \in Seq(Nat)
      /\ received \in Seq(Nat) /\ produced \in Nat /\ produced' \in Nat /\ up = TRUE
      /\ Coming \in Seq(Nat) /\ Len(Coming) \in Nat
  BY <1>1, ComingTyped DEF TunnelInv, TunnelTyped
<1>3. e \in Nat
  BY <1>2 DEF Data
<1> HIDE DEF e
<1>4. todo' \in Seq(Nat) /\ Coming' = Append(Coming, e)
  <2>1. Append(todo, e) \in Seq(Nat)
    BY <1>2, <1>3, AppendProperties
  <2>2. socket \o Append(todo, e) = Append(socket \o todo, e)
    BY <1>2, <1>3, AppendedNat, Zenon
  <2> QED
    BY <1>1, <2>1, <2>2 DEF Coming
<1>5. /\ Coming' \in Seq(Nat) /\ Len(Coming') = Len(Coming) + 1
      /\ \A k \in 1..Len(Coming) : Coming'[k] = Coming[k]
  <2>1. /\ Append(Coming, e) \in Seq(Nat) /\ Len(Append(Coming, e)) = Len(Coming) + 1
        /\ \A k \in 1..Len(Coming) : Append(Coming, e)[k] = Coming[k]
    BY <1>2, <1>3, AppendProperties
  <2> QED
    BY <1>4, <2>1
<1>6. ASSUME NEW n \in Nat, Follows(Coming, n, produced)
      PROVE  Follows(Coming', n, produced')
  <2>1. Follows(Append(Coming, Data(produced + 1)), n, produced + 1)
    BY <1>2, <1>6, FollowsAppend
  <2> QED
    BY <1>1, <1>4, <2>1 DEF e
<1>7. TunnelTyped'
  BY <1>1, <1>2, <1>4 DEF TunnelTyped, rawVars
<1>8. phase \notin {"start", "tcp", "method", "auth"}
  BY <1>1 DEF TunnelInv, Early, Authenticating, TwoBytes, Silent
<1>9. Early' /\ Authenticating' /\ Refused'
  BY <1>1, <1>8 DEF Early, Authenticating, Refused
<1>10. Opened'
  BY <1>1 DEF TunnelInv, Opened, rawVars
<1>11. Replying'
  <2>1. CASE phase = "reply"
    <3>1. /\ asked = "nothing"
          /\ \E n \in 4..Len(Coming) : Follows(Coming, n, produced) /\ Reply(Coming, n, up)
      BY <1>1, <2>1 DEF TunnelInv, Replying, Silent
    <3>2. PICK n \in 4..Len(Coming) : Follows(Coming, n, produced) /\ Reply(Coming, n, up)
      BY <3>1
    <3>3. n \in Nat /\ n \in 4..Len(Coming')
      BY <1>2, <1>5, <3>2
    <3>4. 1 \in 1..Len(Coming) /\ 2 \in 1..Len(Coming) /\ 4 \in 1..Len(Coming)
      BY <1>2, <3>2
    <3>5. Coming'[1] = Coming[1] /\ Coming'[2] = Coming[2] /\ Coming'[4] = Coming[4]
      BY <1>5, <3>4
    <3>6. n >= 5 => Coming'[5] = Coming[5]
      BY <1>2, <1>5, <3>2
    <3>7. Reply(Coming', n, up')
      BY <1>1, <3>2, <3>5, <3>6 DEF Reply
    <3>8. Follows(Coming', n, produced')
      BY <1>6, <3>2, <3>3
    <3> QED
      BY <1>1, <2>1, <3>1, <3>3, <3>7, <3>8 DEF Replying
  <2>2. CASE phase = "length"
    <3>1. /\ asked = "nothing" /\ up /\ need = 1 /\ Len(Coming) >= 1
          /\ Follows(Coming, 1 + Coming[1] + 2, produced)
      BY <2>2 DEF TunnelInv, Replying
    <3>2. 1 \in 1..Len(Coming)
      BY <1>2, <3>1
    <3>3. Coming[1] \in Nat /\ Coming'[1] = Coming[1] /\ Len(Coming') >= 1
      BY <1>2, <1>5, <3>2, ElementOfSeq
    <3>4. 1 + Coming[1] + 2 \in Nat
      BY <3>3
    <3>5. Follows(Coming', 1 + Coming[1] + 2, produced')
      BY <1>6, <3>1, <3>4
    <3> QED
      BY <1>1, <2>2, <3>1, <3>3, <3>5 DEF Replying
  <2>3. CASE phase = "drain"
    <3>1. asked = "nothing" /\ up /\ Follows(Coming, need, produced) /\ need \in Nat
      BY <1>2, <2>3 DEF TunnelInv, Replying, TunnelTyped
    <3>2. Follows(Coming', need, produced')
      BY <1>6, <3>1
    <3> QED
      BY <1>1, <2>3, <3>1, <3>2 DEF Replying
  <2>4. CASE phase \notin {"reply", "length", "drain"}
    BY <1>1, <2>4 DEF Replying
  <2> QED
    BY <2>1, <2>2, <2>3, <2>4
<1>12. Connecting'
  <2>1. CASE phase \in {"connect", "status"}
    <3>1. /\ config.proxy = "http" /\ asked = "nothing"
          /\ Replied(buf \o Coming, produced, up, config.scheme)
      BY <1>1, <2>1 DEF TunnelInv, Connecting, Silent
    <3>2. buf \o Coming \in Seq(Nat) /\ buf' \o Coming' = Append(buf \o Coming, e)
      <4>1. buf \o Coming \in Seq(Nat)
        BY <1>2, Concat
      <4>2. buf \o Append(Coming, e) = Append(buf \o Coming, e)
        BY <1>2, <1>3, AppendedNat, Zenon
      <4> QED
        BY <1>1, <1>4, <4>1, <4>2
    <3>3. config.scheme = "http"
      BY <1>1, <2>1
    <3> DEFINE c == buf \o Coming
    <3> HIDE DEF c
    <3>4. c \in Seq(Nat) /\ Replied(c, produced, TRUE, config.scheme)
      BY <1>2, <3>1, <3>2 DEF c
    <3>5. Replied(Append(c, Data(produced + 1)), produced + 1, TRUE, config.scheme)
      BY <1>2, <3>3, <3>4, RepliedAppend
    <3>6. Replied(buf' \o Coming', produced', up', config'.scheme)
      BY <1>1, <1>2, <3>2, <3>5 DEF c, e
    <3> QED
      BY <1>1, <2>1, <3>1, <3>6 DEF TunnelInv, Connecting
  <2>2. CASE phase \notin {"connect", "status"}
    BY <1>1, <2>2 DEF TunnelInv, Connecting
  <2> QED
    BY <2>1, <2>2
<1>13. Aligned'
  <2> SUFFICES ASSUME phase \in {"tls", "open"}, ~PlainTunnel
               PROVE  Follows(received' \o Coming', 0, produced')
    BY <1>1 DEF TunnelInv, Aligned, PlainTunnel
  <2> DEFINE c == received \o Coming
  <2>1. c \in Seq(Nat) /\ received' \o Coming' = Append(c, e)
    <3>1. received' = received
      BY DEF rawVars
    <3>2. received \o Append(Coming, e) = Append(received \o Coming, e)
      BY <1>2, <1>3, AppendedNat, Zenon
    <3> QED
      BY <1>2, <1>4, <3>1, <3>2, Concat
  <2>2. Follows(c, 0, produced)
    BY DEF TunnelInv, Aligned
  <2> HIDE DEF c
  <2>3. Follows(Append(c, Data(produced + 1)), 0, produced + 1)
    BY <1>2, <2>1, <2>2, FollowsAppend
  <2> QED
    BY <1>1, <2>1, <2>3 DEF e
<1> QED
  BY <1>7, <1>9, <1>10, <1>11, <1>12, <1>13 DEF TunnelInv

-----------------------------------------------------------------------------
(* The operations keep the invariant: only reads move bytes.                 *)

LEMMA ReadKeeps ==
    ASSUME TunnelInv, NEW o \in Ops, Read(o)
    PROVE  TunnelInv'
<1> DEFINE n == Smaller(Len(socket), MaxBytes)
<1>1. /\ op[o].at = "running" /\ socket # << >>
      /\ received' = received \o SubSeq(socket, 1, n) /\ socket' = Drop(socket, n)
      /\ \E how \in Over : op' = [op EXCEPT ![o].at = how]
      /\ UNCHANGED <<phase, config, todo, asked, up, produced, buf, need, result>>
  BY DEF Read, Running, Finish, Over
<1>2. phase = "open" /\ phase' = "open"
  BY <1>1 DEF TunnelInv, Opened
<1>3. TunnelTyped /\ socket \in Seq(Nat) /\ todo \in Seq(Nat) /\ received \in Seq(Nat)
  BY DEF TunnelInv, TunnelTyped
<1>4. n \in 0..Len(socket)
  BY <1>3, LenAssumption DEF Smaller
<1> HIDE DEF n
<1> DEFINE l == SubSeq(socket, 1, n)
           r == Drop(socket, n)
<1>5. l \in Seq(Nat) /\ r \in Seq(Nat) /\ l \o r = socket
  BY <1>3, <1>4, ReadAhead DEF AfterRead
<1> HIDE DEF l, r
<1>6. received' = received \o l /\ socket' = r /\ Coming' = r \o todo
  BY <1>1 DEF l, r, Coming
<1>7. received' \in Seq(Nat) /\ socket' \in Seq(Nat)
  BY <1>3, <1>5, <1>6, Concat
<1>8. received' \o Coming' = received \o Coming
  <2>1. r \o todo \in Seq(Nat)
    BY <1>3, <1>5, Concat
  <2>2. (received \o l) \o (r \o todo) = received \o (l \o (r \o todo))
    BY <1>3, <1>5, <2>1, Associative, Zenon
  <2>3. (l \o r) \o todo = l \o (r \o todo)
    <3>1. l \in Seq(Nat) /\ r \in Seq(Nat) /\ todo \in Seq(Nat)
      BY <1>3, <1>5
    <3> QED
      BY <3>1, Associative, Zenon
  <2> QED
    BY <1>5, <1>6, <2>2, <2>3 DEF Coming
<1>9. TunnelTyped'
  BY <1>1, <1>3, <1>7 DEF TunnelTyped
<1>10. Early' /\ Authenticating' /\ Replying' /\ Connecting' /\ Refused' /\ Opened'
  BY <1>1, <1>2 DEF TunnelInv, Early, Authenticating, Replying, Connecting, Refused, Opened
<1>11. Aligned'
  BY <1>1, <1>2, <1>8 DEF TunnelInv, Aligned, PlainTunnel
<1> QED
  BY <1>9, <1>10, <1>11 DEF TunnelInv

LEMMA OtherOpsKeep ==
    ASSUME TunnelInv, OpInv, NEW o \in Ops,
           \/ \E kind \in Kinds : Call(o, kind)
           \/ Enqueue(o) \/ FindsClosed(o) \/ Begin(o) \/ Write(o) \/ Flush(o) \/ WriteFails(o)
           \/ ReadEnds(o) \/ ReadTimesOut(o) \/ Shutdown(o) \/ Cancel(o)
    PROVE  TunnelInv'
<1>1. UNCHANGED connectVars /\ UNCHANGED received
  BY DEF Call, Enqueue, FindsClosed, Begin, Write, Flush, WriteFails, ReadEnds, ReadTimesOut,
         Shutdown, Cancel
<1>2. phase = "open"
  <2>1. CASE \E kind \in Kinds : Call(o, kind)
    BY <2>1 DEF Call
  <2>2. CASE op[o].at # "idle"
    BY <2>2 DEF TunnelInv, Opened
  <2> QED
    BY <2>1, <2>2 DEF Enqueue, FindsClosed, Begin, Write, Flush, WriteFails, ReadEnds,
                      ReadTimesOut, Shutdown, Cancel, Running
<1>3. UNCHANGED <<phase, config, socket, todo, asked, up, produced, buf, need, result, received>>
  BY <1>1 DEF connectVars
<1>4. TunnelTyped' /\ Opened'
  BY <1>2, <1>3 DEF TunnelInv, TunnelTyped, Opened
<1>5. Early' /\ Authenticating' /\ Replying' /\ Connecting' /\ Refused'
  BY <1>2, <1>3 DEF TunnelInv, Early, Authenticating, Replying, Connecting, Refused
<1>6. Aligned'
  BY <1>3 DEF TunnelInv, Aligned, PlainTunnel, Coming
<1> QED
  BY <1>4, <1>5, <1>6 DEF TunnelInv

LEMMA TunnelStep == TunnelInv /\ OpInv /\ [Next]_vars => TunnelInv'
<1> SUFFICES ASSUME TunnelInv, OpInv, [Next]_vars
             PROVE  TunnelInv'
  OBVIOUS
<1>1. CASE ConnectStep /\ UNCHANGED rawVars
  BY <1>1, ConnectStepKeeps
<1>2. CASE Peer /\ UNCHANGED rawVars
  BY <1>2, AnswerKeeps, TargetSendsKeeps, QuietPeerKeeps DEF Peer
<1>3. ASSUME NEW o \in Ops, (\E kind \in Kinds : Call(o, kind)) \/ Operate(o) \/ Cancel(o)
      PROVE  TunnelInv'
  BY <1>3, ReadKeeps, OtherOpsKeep DEF Operate
<1>4. CASE UNCHANGED vars \/ PeerStalls
  <2>1. /\ UNCHANGED rawVars
        /\ UNCHANGED <<phase, config, socket, todo, asked, up, produced, buf, need, result>>
    BY <1>4 DEF vars, connectVars, PeerStalls
  <2>2. Coming' = Coming /\ socket' \in Seq(Nat) /\ todo' \in Seq(Nat)
    BY <2>1 DEF TunnelInv, TunnelTyped, Coming
  <2> QED
    BY <2>1, <2>2, ComingStays
<1> QED
  BY <1>1, <1>2, <1>3, <1>4 DEF Next

LEMMA TunnelInvariant == Spec => []TunnelInv
  BY TunnelInit, TunnelStep, OpInvariant, PTL DEF Spec

\* connect_stream hands out a connection through a proxy only if the proxy has
\* granted it, and never refuses a grant that its buffer holds, for every
\* configuration, size of buffer and length of reply.
THEOREM OnlyGrantedTunnels == Spec => []TunnelGranted
<1>1. TunnelInv => TunnelGranted
  BY DEF TunnelInv, Aligned, Refused, TunnelGranted
<1> QED
  BY <1>1, TunnelInvariant, PTL

\* perform_socks5 leaves the socket at the first byte of the target for every
\* address type and length of name the proxy answers with, and from there on
\* reads, timeouts and cancelled calls lose, double and reorder nothing.
THEOREM TunnelsAreAligned == Spec => []TunnelAligned
<1>1. TunnelInv => TunnelAligned
  <2> SUFFICES ASSUME TunnelInv, phase = "open", ~PlainTunnel
               PROVE  AsSent
    BY DEF TunnelAligned, PlainTunnel
  <2> DEFINE c == received \o Coming
             sent == [k \in 1..produced |-> Data(k)]
  <2>1. /\ received \in Seq(Nat) /\ socket \in Seq(Nat) /\ todo \in Seq(Nat) /\ produced \in Nat
        /\ Coming \in Seq(Nat)
    BY ComingTyped DEF TunnelInv, TunnelTyped
  <2>2. c \in Seq(Nat) /\ Follows(c, 0, produced)
    BY <2>1, Concat DEF TunnelInv, Aligned
  <2>3. (received \o socket) \o todo = c
    BY <2>1, Associative, Zenon DEF Coming
  <2> HIDE DEF c
  <2>4. sent \in Seq(Nat) /\ Len(sent) = produced /\ \A k \in 1..produced : sent[k] = Data(k)
    BY <2>1 DEF Data
  <2> HIDE DEF sent
  <2>5. Len(c) = produced /\ \A k \in 1..produced : c[k] = Data(k)
    BY <2>1, <2>2 DEF Follows
  <2>6. c = sent
    BY <2>2, <2>4, <2>5, SeqEqual
  <2> QED
    BY <2>3, <2>6 DEF AsSent, sent
<1> QED
  BY <1>1, TunnelInvariant, PTL
=============================================================================
