----------------------------- MODULE StreamProofs -----------------------------
(***************************************************************************)
(* The streaming batch, for batches of every length, every number of        *)
(* permits and every chunk size; and the mock over it, for any handlers,    *)
(* batches and calls and any interleaving of registrations, the batch       *)
(* iterator, request() and the real client's stream.                        *)
(***************************************************************************)
EXTENDS MockClient, FiniteSetTheorems, SequenceTheorems, WellFoundedInduction, TLAPS

USE NAssumption, ConcurrencyAssumption

-----------------------------------------------------------------------------
(* Sequences in the order of another.                                        *)

Distinct(c) == \A p, q \in 1..Len(c) : c[p] = c[q] => p = q

Ordered(s, c) ==
    \A j, k \in 1..Len(s), p, q \in 1..Len(c) :
        j < k /\ s[j] = c[p] /\ s[k] = c[q] => p < q

LEMMA ElementsOf ==
    ASSUME NEW S, NEW s \in Seq(S)
    PROVE  /\ \A e : e \in ToSet(s) <=> \E k \in 1..Len(s) : s[k] = e
           /\ ToSet(s) \subseteq S
  BY DEF ToSet

LEMMA ElementsOfConcat ==
    ASSUME NEW S, NEW s \in Seq(S), NEW t \in Seq(S)
    PROVE  ToSet(s \o t) = ToSet(s) \cup ToSet(t)
<1>1. /\ s \o t \in Seq(S) /\ Len(s \o t) = Len(s) + Len(t)
      /\ \A k \in 1..Len(s) : (s \o t)[k] = s[k]
      /\ \A k \in 1..Len(t) : (s \o t)[Len(s) + k] = t[k]
      /\ Len(s) \in Nat /\ Len(t) \in Nat
  OBVIOUS
<1>2. ASSUME NEW e \in ToSet(s) \cup ToSet(t)
      PROVE  e \in ToSet(s \o t)
  <2>1. CASE e \in ToSet(s)
    <3>1. PICK k \in 1..Len(s) : s[k] = e
      BY <2>1, ElementsOf
    <3>2. k \in 1..Len(s \o t) /\ (s \o t)[k] = e
      BY <1>1, <3>1
    <3> QED
      BY <1>1, <3>2, ElementsOf
  <2>2. CASE e \in ToSet(t)
    <3>1. PICK k \in 1..Len(t) : t[k] = e
      BY <2>2, ElementsOf
    <3>2. Len(s) + k \in 1..Len(s \o t) /\ (s \o t)[Len(s) + k] = e
      BY <1>1, <3>1
    <3> QED
      BY <1>1, <3>2, ElementsOf
  <2> QED
    BY <2>1, <2>2
<1>3. ASSUME NEW e \in ToSet(s \o t)
      PROVE  e \in ToSet(s) \cup ToSet(t)
  <2>1. PICK k \in 1..Len(s \o t) : (s \o t)[k] = e
    BY <1>1, ElementsOf
  <2>2. CASE k <= Len(s)
    <3>1. k \in 1..Len(s) /\ s[k] = e
      BY <1>1, <2>1, <2>2
    <3> QED
      BY <3>1, ElementsOf
  <2>3. CASE k > Len(s)
    <3>1. k - Len(s) \in 1..Len(t) /\ k = Len(s) + (k - Len(s))
      BY <1>1, <2>1, <2>3
    <3>2. t[k - Len(s)] = e
      BY <1>1, <2>1, <3>1
    <3> QED
      BY <3>1, <3>2, ElementsOf
  <2> QED
    BY <1>1, <2>1, <2>2, <2>3
<1> QED
  BY <1>2, <1>3

LEMMA ElementsOfAppend ==
    ASSUME NEW S, NEW s \in Seq(S), NEW e \in S
    PROVE  ToSet(Append(s, e)) = ToSet(s) \cup {e}
<1>1. /\ Append(s, e) \in Seq(S) /\ Len(Append(s, e)) = Len(s) + 1 /\ Len(s) \in Nat
      /\ \A k \in 1..Len(s) : Append(s, e)[k] = s[k]
      /\ Append(s, e)[Len(s) + 1] = e
  OBVIOUS
<1>2. ASSUME NEW x
      PROVE  (\E k \in 1..(Len(s) + 1) : Append(s, e)[k] = x)
                 <=> (\E k \in 1..Len(s) : s[k] = x) \/ x = e
  <2>1. \A k : k \in 1..(Len(s) + 1) <=> k \in 1..Len(s) \/ k = Len(s) + 1
    BY <1>1
  <2> QED
    BY <1>1, <2>1
<1>3. \A x : x \in ToSet(s) <=> \E k \in 1..Len(s) : s[k] = x
  BY ElementsOf
<1>4. \A x : x \in ToSet(Append(s, e)) <=> \E k \in 1..(Len(s) + 1) : Append(s, e)[k] = x
  <2> DEFINE a == Append(s, e)
  <2> HIDE DEF a
  <2>1. a \in Seq(S) /\ Len(a) = Len(s) + 1
    BY <1>1 DEF a
  <2>2. \A x : x \in ToSet(a) <=> \E k \in 1..Len(a) : a[k] = x
    BY <2>1, ElementsOf
  <2> QED
    BY <2>1, <2>2 DEF a
<1>5. \A x : x \in ToSet(Append(s, e)) <=> x \in ToSet(s) \/ x = e
  BY <1>2, <1>3, <1>4
<1> QED
  BY <1>5

\* An element new to both goes last in both ...
LEMMA AppendKeepsOrder ==
    ASSUME NEW S, NEW s \in Seq(S), NEW c \in Seq(S), NEW e \in S,
           Ordered(s, c), Distinct(c), ToSet(s) \subseteq ToSet(c), e \notin ToSet(c)
    PROVE  /\ Distinct(Append(c, e))
           /\ Ordered(Append(s, e), Append(c, e))
           /\ Ordered(s, Append(c, e))
<1>1. /\ Len(Append(c, e)) = Len(c) + 1 /\ Len(c) \in Nat
      /\ \A k \in 1..Len(c) : Append(c, e)[k] = c[k]
      /\ Append(c, e)[Len(c) + 1] = e
      /\ Len(Append(s, e)) = Len(s) + 1 /\ Len(s) \in Nat
      /\ \A k \in 1..Len(s) : Append(s, e)[k] = s[k]
      /\ Append(s, e)[Len(s) + 1] = e
  OBVIOUS
<1>2. \A k \in 1..Len(c) : c[k] # e
  BY ElementsOf
<1>3. \A k \in 1..Len(s) : s[k] # e
  BY ElementsOf
<1>4. Distinct(Append(c, e))
  BY <1>1, <1>2 DEF Distinct
<1>5. Ordered(Append(s, e), Append(c, e))
  <2> DEFINE a == Append(s, e)
             b == Append(c, e)
  <2>0. /\ Len(b) = Len(c) + 1 /\ (\A k \in 1..Len(c) : b[k] = c[k]) /\ b[Len(c) + 1] = e
        /\ Len(a) = Len(s) + 1 /\ (\A k \in 1..Len(s) : a[k] = s[k]) /\ a[Len(s) + 1] = e
        /\ Len(c) \in Nat /\ Len(s) \in Nat
    BY <1>1
  <2> HIDE DEF a, b
  <2> SUFFICES ASSUME NEW j \in 1..(Len(s) + 1), NEW k \in 1..(Len(s) + 1),
                      NEW p \in 1..(Len(c) + 1), NEW q \in 1..(Len(c) + 1),
                      j < k, a[j] = b[p], a[k] = b[q]
               PROVE  p < q
    BY <2>0, ZenonT(40) DEF Ordered, a, b
  <2>1. j \in 1..Len(s) /\ a[j] = s[j] /\ s[j] # e
    BY <2>0, <1>3
  <2>2. p \in 1..Len(c) /\ c[p] = s[j]
    <3>1. p # Len(c) + 1
      BY <2>0, <2>1
    <3>2. p \in 1..Len(c)
      BY <2>0, <3>1
    <3>3. b[p] = c[p]
      BY <2>0, <3>2
    <3> QED
      BY <2>1, <3>2, <3>3
  <2>3. CASE k = Len(s) + 1
    <3>1. q = Len(c) + 1
      BY <2>0, <1>2, <2>3
    <3> QED
      BY <2>0, <2>2, <3>1
  <2>4. CASE k \in 1..Len(s)
    <3>1. q \in 1..Len(c) /\ c[q] = s[k]
      BY <2>0, <1>3, <2>4
    <3> QED
      BY <2>1, <2>2, <2>4, <3>1 DEF Ordered
  <2> QED
    BY <2>0, <2>3, <2>4, SMTT(40)
<1>6. Ordered(s, Append(c, e))
  BY <1>1, <1>2, <1>3 DEF Ordered
<1> QED
  BY <1>4, <1>5, <1>6

\* ... and what is cut out of the one, the other keeps in between.
LEMMA CutKeepsOrder ==
    ASSUME NEW S, NEW d \in Seq(S), NEW b \in Seq(S), NEW h \in Seq(S), NEW c \in Seq(S),
           Ordered(d \o b \o h, c), ToSet(d \o b \o h) \subseteq ToSet(c)
    PROVE  /\ Ordered(d \o h, c)
           /\ ToSet(d \o h) = ToSet(d \o b \o h) \ ToSet(b)
<1> DEFINE s == d \o b \o h
           t == d \o h
           Pos(k) == IF k <= Len(d) THEN k ELSE k + Len(b)
<1>1. /\ s \in Seq(S) /\ t \in Seq(S) /\ Len(d) \in Nat /\ Len(b) \in Nat /\ Len(h) \in Nat
      /\ Len(s) = Len(d) + Len(b) + Len(h) /\ Len(t) = Len(d) + Len(h)
  OBVIOUS
<1>2. /\ \A k \in 1..Len(t) : Pos(k) \in 1..Len(s) /\ t[k] = s[Pos(k)]
      /\ \A k \in 1..Len(b) : b[k] = s[Len(d) + k]
  <2>1. ASSUME NEW k \in 1..Len(t)
        PROVE  Pos(k) \in 1..Len(s)
    BY <1>1
  <2>2. ASSUME NEW k \in 1..Len(t), k <= Len(d)
        PROVE  t[k] = d[k] /\ s[k] = d[k]
    BY <1>1, <2>2
  <2>3. ASSUME NEW k \in 1..Len(t), ~(k <= Len(d))
        PROVE  t[k] = h[k - Len(d)] /\ s[k + Len(b)] = h[k - Len(d)]
    BY <1>1, <2>3
  <2>4. \A k \in 1..Len(b) : b[k] = s[Len(d) + k]
    BY <1>1
  <2> QED
    BY <2>1, <2>2, <2>3, <2>4
<1>3. \A j, k \in 1..Len(t) : j < k => Pos(j) < Pos(k)
  BY <1>1
<1>4. \A k \in 1..Len(t) : \A j \in 1..Len(b) : Pos(k) # Len(d) + j
  BY <1>1
<1>5. \A j \in 1..Len(b) : Len(d) + j \in 1..Len(s)
  BY <1>1
<1> HIDE DEF s, t, Pos
<1>6. Ordered(t, c)
  BY <1>2, <1>3 DEF Ordered, s
<1>7. \A j, k \in 1..Len(s) : s[j] = s[k] => j = k
  <2> SUFFICES ASSUME NEW j \in 1..Len(s), NEW k \in 1..Len(s), s[j] = s[k], j # k
               PROVE  FALSE
    OBVIOUS
  <2>1. PICK p \in 1..Len(c) : c[p] = s[j]
    BY <1>1, ElementsOf DEF s
  <2>2. j < k \/ k < j
    BY <1>1
  <2>3. p < p
    BY <2>1, <2>2 DEF Ordered, s
  <2> QED
    BY <2>3
<1>8. ToSet(s) = ToSet(d) \cup ToSet(b) \cup ToSet(h) /\ ToSet(t) = ToSet(d) \cup ToSet(h)
  <2>1. d \o b \in Seq(S)
    OBVIOUS
  <2>2. ToSet(d \o b) = ToSet(d) \cup ToSet(b)
    BY ElementsOfConcat
  <2>3. ToSet((d \o b) \o h) = ToSet(d \o b) \cup ToSet(h)
    <3> DEFINE u == d \o b
    <3> HIDE DEF u
    <3>1. u \in Seq(S)
      BY <2>1 DEF u
    <3>2. ToSet(u \o h) = ToSet(u) \cup ToSet(h)
      BY <3>1, ElementsOfConcat
    <3> QED
      BY <3>2 DEF u
  <2>4. ToSet(d \o h) = ToSet(d) \cup ToSet(h)
    BY ElementsOfConcat
  <2> QED
    BY <2>2, <2>3, <2>4 DEF s, t
<1>9. ASSUME NEW e \in ToSet(t), e \in ToSet(b)
      PROVE  FALSE
  <2>1. PICK k \in 1..Len(t) : t[k] = e
    BY <1>1, <1>9, ElementsOf
  <2>2. PICK j \in 1..Len(b) : b[j] = e
    BY <1>9, ElementsOf
  <2>3. s[Pos(k)] = s[Len(d) + j] /\ Pos(k) \in 1..Len(s) /\ Len(d) + j \in 1..Len(s)
    BY <1>2, <1>5, <2>1, <2>2
  <2> QED
    BY <1>4, <1>7, <2>3
<1> QED
  BY <1>6, <1>8, <1>9 DEF s, t

\* A result that is handed on stays where it is in line.
LEMMA HandedOn ==
    ASSUME NEW S, NEW d \in Seq(S), NEW b \in Seq(S), NEW h \in Seq(S)
    PROVE  (d \o b) \o << >> \o h = d \o b \o h
  OBVIOUS

-----------------------------------------------------------------------------
(***************************************************************************)
(* The inductive invariant.  Requests from next on have no task yet; a      *)
(* permit is free or held by a task until it has sent; what is under way to *)
(* Python is in the order of completion; and the end that __anext__ reports *)
(* is one that no task is left to follow.                                   *)
(***************************************************************************)
TaskStates == {"absent", "sending", "sent", "released", "gone"}

Typed ==
    /\ driver \in {"deferred", "pace", "permit", "finished"}
    /\ next \in 1..(N + 1)
    /\ task \in [Requests -> TaskStates]
    /\ permits \in Nat
    /\ consumer \in {"idle", "loop", "next", "stopped", "dropped"}
    /\ channel \in Seq(Requests) /\ batch \in Seq(Requests)
    /\ delivered \in Seq(Requests) /\ completed \in Seq(Requests)

Dispatched ==
    /\ driver \in {"pace", "permit"} => next <= N
    /\ driver = "finished" => next = N + 1
    /\ \A i \in Requests : task[i] = "absent" <=> i >= next

Holders == {i \in Requests : task[i] \in {"sending", "sent"}}
Conserved == permits + Cardinality(Holders) = Concurrency

Kept == delivered \o batch \o channel
InLine ==
    /\ ToSet(Kept) = ToSet(completed) \ lost
    /\ Ordered(Kept, completed)
    /\ Distinct(completed)
    /\ lost \subseteq ToSet(completed)
    /\ \A i \in ToSet(completed) : task[i] \in {"sent", "released", "gone"}

AtTheEnd ==
    /\ consumer \in {"idle", "dropped"} => batch = << >>
    /\ consumer = "stopped" =>
         /\ driver = "finished"
         /\ \A i \in Requests : task[i] = "gone"
         /\ batch = << >> /\ channel = << >>

IInv == Typed /\ Dispatched /\ Conserved /\ InLine /\ AtTheEnd

LEMMA HoldersFinite ==
    IsFiniteSet(Holders) /\ Cardinality(Holders) \in Nat /\ Requests \subseteq Nat
<1>1. IsFiniteSet(Requests)
  BY FS_Interval DEF Requests
<1>2. Holders \in SUBSET Requests
  BY DEF Holders
<1>3. Requests \subseteq Nat
  BY DEF Requests
<1> QED
  BY <1>1, <1>2, <1>3, FS_Subset, FS_CardinalityType

-----------------------------------------------------------------------------
(* What steps have in common.                                                *)

\* A task goes on, or all tasks stay where they are.
LEMMA LineUnmoved ==
    ASSUME InLine, Kept' = Kept, UNCHANGED <<completed, lost>>,
           \A i \in ToSet(completed) : task'[i] \in {"sent", "released", "gone"}
    PROVE  InLine'
<1>1. ToSet(completed)' = ToSet(completed) /\ ToSet(Kept)' = ToSet(Kept)
  BY DEF ToSet
<1> QED
  BY <1>1 DEF InLine, Ordered, Distinct

\* One task goes on from a state to a later one.
LEMMA TaskMoves ==
    ASSUME Typed, Dispatched, NEW i \in Requests, NEW to \in TaskStates \ {"absent"},
           task[i] # "absent", task' = [task EXCEPT ![i] = to], UNCHANGED <<driver, next>>
    PROVE  /\ task' \in [Requests -> TaskStates]
           /\ task'[i] = to
           /\ \A j \in Requests : j # i => task'[j] = task[j]
           /\ Dispatched'
<1>1. /\ task' \in [Requests -> TaskStates] /\ task'[i] = to
      /\ \A j \in Requests : j # i => task'[j] = task[j]
  BY DEF Typed
<1> QED
  BY <1>1 DEF Dispatched

\* The driver and the tasks take no part.
LEMMA ProducersRest ==
    ASSUME IInv, UNCHANGED producerVars
    PROVE  Dispatched' /\ Conserved'
<1>1. Holders' = Holders
  BY DEF Holders, producerVars
<1> QED
  BY <1>1 DEF IInv, Dispatched, Conserved, producerVars

-----------------------------------------------------------------------------
(* The driver and the tasks.                                                 *)

LEMMA PaceStep == ASSUME IInv, Pace PROVE IInv'
<1>1. /\ driver = "pace" /\ driver' = "permit"
      /\ UNCHANGED <<next, task, permits, channel, consumer, batch, delivered, completed, lost>>
  BY DEF Pace, consumerVars
<1>2. Typed' /\ Dispatched'
  BY <1>1 DEF IInv, Typed, Dispatched
<1>3. Conserved'
  BY <1>1 DEF IInv, Conserved, Holders
<1>4. InLine'
  BY <1>1, LineUnmoved DEF IInv, InLine, Kept
<1>5. AtTheEnd'
  BY <1>1 DEF IInv, AtTheEnd
<1> QED
  BY <1>2, <1>3, <1>4, <1>5 DEF IInv

\* A permit goes from the semaphore to a task that had none.
LEMMA DispatchStep == ASSUME IInv, Dispatch PROVE IInv'
<1>1. /\ driver = "permit" /\ permits > 0 /\ permits' = permits - 1
      /\ task' = [task EXCEPT ![next] = "sending"] /\ next' = next + 1
      /\ driver' = AfterDispatch(next + 1)
      /\ UNCHANGED <<channel, consumer, batch, delivered, completed, lost>>
  BY DEF Dispatch, consumerVars
<1>2. next \in Requests /\ next \in Nat /\ permits \in Nat /\ task \in [Requests -> TaskStates]
  BY <1>1 DEF IInv, Typed, Dispatched, Requests
<1>3. /\ task' \in [Requests -> TaskStates] /\ task'[next] = "sending"
      /\ \A j \in Requests : j # next => task'[j] = task[j]
  BY <1>1, <1>2 DEF TaskStates
<1>4. Typed'
  BY <1>1, <1>2, <1>3 DEF IInv, Typed, AfterDispatch, Requests
<1>5. Dispatched'
  <2>1. /\ driver' \in {"pace", "permit"} => next' <= N
        /\ driver' = "finished" => next' = N + 1
    BY <1>1, <1>2 DEF AfterDispatch, Requests
  <2>2. \A i \in Requests : task'[i] = "absent" <=> i >= next'
    BY <1>1, <1>2, <1>3 DEF IInv, Dispatched, Requests
  <2> QED
    BY <2>1, <2>2 DEF Dispatched
<1>6. task[next] = "absent"
  BY <1>2 DEF IInv, Dispatched
<1>7. Conserved'
  <2>1. next \notin Holders /\ Holders' = Holders \cup {next}
    BY <1>2, <1>3, <1>6 DEF Holders
  <2>2. Cardinality(Holders') = Cardinality(Holders) + 1
    BY <2>1, HoldersFinite, FS_AddElement
  <2> QED
    BY <1>1, <1>2, <2>2, HoldersFinite DEF IInv, Conserved
<1>8. InLine'
  <2>1. \A i \in ToSet(completed) : i \in Requests
    BY ElementsOf DEF IInv, Typed
  <2>2. \A i \in ToSet(completed) : task'[i] \in {"sent", "released", "gone"}
    BY <1>3, <1>6, <2>1 DEF IInv, InLine
  <2> QED
    BY <1>1, <2>2, LineUnmoved DEF IInv, Kept
<1>9. AtTheEnd'
  BY <1>1 DEF IInv, AtTheEnd
<1> QED
  BY <1>4, <1>5, <1>7, <1>8, <1>9 DEF IInv

\* A result joins the end of the line, or is lost with the receiver.
LEMMA SendStep == ASSUME IInv, NEW i \in Requests, Send(i) PROVE IInv'
<1>1. /\ task[i] = "sending" /\ task' = [task EXCEPT ![i] = "sent"]
      /\ completed' = Append(completed, i)
      /\ UNCHANGED <<driver, next, permits, consumer, batch, delivered>>
  BY DEF Send, consumerVars
<1>2. /\ Typed /\ InLine /\ completed \in Seq(Requests) /\ channel \in Seq(Requests)
      /\ batch \in Seq(Requests) /\ delivered \in Seq(Requests) /\ Kept \in Seq(Requests)
  BY DEF IInv, Typed, Kept
<1>3. /\ task' \in [Requests -> TaskStates] /\ task'[i] = "sent" /\ Dispatched'
      /\ \A j \in Requests : j # i => task'[j] = task[j]
  BY <1>1, TaskMoves DEF IInv, TaskStates
<1>4. Conserved'
  <2>1. Holders' = Holders
    BY <1>1, <1>3 DEF Holders
  <2> QED
    BY <1>1, <2>1 DEF IInv, Conserved
<1>5. i \notin ToSet(completed) /\ i \notin ToSet(Kept) /\ i \notin lost
      /\ ToSet(Kept) \subseteq ToSet(completed)
  BY <1>1, <1>2 DEF InLine
<1>6. ToSet(completed') = ToSet(completed) \cup {i} /\ ToSet(completed) \subseteq Requests
  BY <1>1, <1>2, ElementsOfAppend, ElementsOf
<1>7. \A j \in ToSet(completed') : task'[j] \in {"sent", "released", "gone"}
  BY <1>2, <1>3, <1>6 DEF InLine
<1>8. /\ Distinct(Append(completed, i))
      /\ Ordered(Append(Kept, i), Append(completed, i))
      /\ Ordered(Kept, Append(completed, i))
  BY <1>2, <1>5, AppendKeepsOrder DEF InLine
<1>9. InLine' /\ channel' \in Seq(Requests)
  <2>1. CASE consumer = "dropped"
    <3>1. UNCHANGED channel /\ lost' = lost \cup {i}
      BY <2>1 DEF Send
    <3>2. Kept' = Kept
      BY <1>1, <3>1 DEF Kept
    <3>3. ToSet(Kept)' = ToSet(Kept)
      BY <3>2 DEF ToSet
    <3>4. Ordered(Kept, completed)' /\ Distinct(completed)'
      BY <1>1, <1>8, <3>2
    <3>5. ToSet(completed)' = ToSet(completed) \cup {i}
      BY <1>6 DEF ToSet
    <3> QED
      BY <1>2, <1>5, <1>7, <3>1, <3>3, <3>4, <3>5 DEF InLine, ToSet
  <2>2. CASE consumer # "dropped"
    <3>1. UNCHANGED lost /\ channel' = Append(channel, i)
      BY <2>2 DEF Send
    <3>2. Kept' = Append(Kept, i)
      <4> DEFINE u == delivered \o batch
      <4>1. u \in Seq(Requests)
        BY <1>2
      <4>2. Kept' = u \o Append(channel, i) /\ Kept = u \o channel
        BY <1>1, <3>1 DEF Kept
      <4> HIDE DEF u
      <4>3. Append(channel, i) = channel \o <<i>> /\ <<i>> \in Seq(Requests)
        BY <1>2, AppendIsConcat
      <4>4. u \o (channel \o <<i>>) = (u \o channel) \o <<i>>
        BY <1>2, <4>1, <4>3, ConcatAssociative, SMTT(40)
      <4> QED
        BY <1>2, <4>2, <4>3, <4>4, AppendIsConcat
    <3>3. ToSet(Append(Kept, i)) = ToSet(Kept) \cup {i}
      BY <1>2, ElementsOfAppend
    <3>4. ToSet(Kept)' = ToSet(Kept) \cup {i}
      BY <3>2, <3>3 DEF ToSet
    <3>5. Ordered(Kept, completed)' /\ Distinct(completed)'
      BY <1>1, <1>8, <3>2
    <3>6. ToSet(completed)' = ToSet(completed) \cup {i}
      BY <1>6 DEF ToSet
    <3>7. channel' \in Seq(Requests)
      BY <1>2, <3>1
    <3> QED
      BY <1>2, <1>5, <1>7, <3>1, <3>4, <3>5, <3>6, <3>7 DEF InLine, ToSet
  <2> QED
    BY <1>2, <2>1, <2>2
<1>10. AtTheEnd'
  BY <1>1 DEF IInv, AtTheEnd
<1>11. Typed'
  BY <1>1, <1>2, <1>3, <1>9 DEF Typed
<1> QED
  BY <1>3, <1>4, <1>9, <1>10, <1>11 DEF IInv

\* A permit comes back when the result is sent, or without one.
LEMMA ReleaseStep ==
    ASSUME IInv, NEW i \in Requests, Panic(i) \/ DropPermit(i) PROVE IInv'
<1>1. PICK to \in {"released", "gone"} :
        /\ task' = [task EXCEPT ![i] = to] /\ task[i] \in {"sending", "sent"}
        /\ permits' = permits + 1
        /\ UNCHANGED <<driver, next, channel, consumer, batch, delivered, completed, lost>>
  BY DEF Panic, DropPermit, consumerVars
<1>2. /\ task' \in [Requests -> TaskStates] /\ task'[i] = to /\ Dispatched'
      /\ \A j \in Requests : j # i => task'[j] = task[j]
  BY <1>1, TaskMoves DEF IInv, TaskStates
<1>3. Typed'
  BY <1>1, <1>2 DEF IInv, Typed
<1>4. Conserved'
  <2>1. i \in Holders /\ Holders' = Holders \ {i}
    BY <1>1, <1>2 DEF Holders
  <2>2. Cardinality(Holders') = Cardinality(Holders) - 1
    BY <2>1, HoldersFinite, FS_RemoveElement
  <2> QED
    BY <1>1, <2>2, HoldersFinite DEF IInv, Conserved, Typed
<1>5. InLine'
  <2>1. \A j \in ToSet(completed) : j \in Requests
    BY ElementsOf DEF IInv, Typed
  <2>2. \A j \in ToSet(completed) : task'[j] \in {"sent", "released", "gone"}
    BY <1>2, <2>1 DEF IInv, InLine
  <2> QED
    BY <1>1, <2>2, LineUnmoved DEF IInv, Kept
<1>6. AtTheEnd'
  BY <1>1 DEF IInv, AtTheEnd
<1> QED
  BY <1>2, <1>3, <1>4, <1>5, <1>6 DEF IInv

LEMMA DropSenderStep == ASSUME IInv, NEW i \in Requests, DropSender(i) PROVE IInv'
<1>1. /\ task' = [task EXCEPT ![i] = "gone"] /\ task[i] = "released"
      /\ UNCHANGED <<driver, next, permits, channel, consumer, batch, delivered, completed, lost>>
  BY DEF DropSender, consumerVars
<1>2. /\ task' \in [Requests -> TaskStates] /\ task'[i] = "gone" /\ Dispatched'
      /\ \A j \in Requests : j # i => task'[j] = task[j]
  BY <1>1, TaskMoves DEF IInv, TaskStates
<1>3. Typed'
  BY <1>1, <1>2 DEF IInv, Typed
<1>4. Conserved'
  <2>1. Holders' = Holders
    BY <1>1, <1>2 DEF Holders
  <2> QED
    BY <1>1, <2>1 DEF IInv, Conserved
<1>5. InLine'
  <2>1. \A j \in ToSet(completed) : j \in Requests
    BY ElementsOf DEF IInv, Typed
  <2>2. \A j \in ToSet(completed) : task'[j] \in {"sent", "released", "gone"}
    BY <1>2, <2>1 DEF IInv, InLine
  <2> QED
    BY <1>1, <2>2, LineUnmoved DEF IInv, Kept
<1>6. AtTheEnd'
  BY <1>1 DEF IInv, AtTheEnd
<1> QED
  BY <1>2, <1>3, <1>4, <1>5, <1>6 DEF IInv

-----------------------------------------------------------------------------
(* The iterator.                                                             *)

\* Steps of the iterator that leave what is in line where it is.
LEMMA HandsOn ==
    ASSUME IInv, UNCHANGED <<producerVars, completed, lost>>, Kept' = Kept,
           consumer' \in {"idle", "loop", "next"}, consumer' = "idle" => batch' = << >>,
           channel' \in Seq(Requests), batch' \in Seq(Requests), delivered' \in Seq(Requests)
    PROVE  IInv'
<1>1. Typed'
  BY DEF IInv, Typed, producerVars
<1>2. Dispatched' /\ Conserved'
  BY ProducersRest
<1>3. InLine'
  BY LineUnmoved DEF IInv, InLine, producerVars
<1>4. AtTheEnd'
  BY DEF AtTheEnd
<1> QED
  BY <1>1, <1>2, <1>3, <1>4 DEF IInv

LEMMA AnextStep == ASSUME IInv, Anext PROVE IInv'
<1>1. /\ consumer' = "loop" /\ batch' = batch /\ batch' = << >>
      /\ UNCHANGED <<producerVars, channel, delivered, completed, lost>>
  BY DEF Anext, IInv, AtTheEnd
<1>2. channel' \in Seq(Requests) /\ batch' \in Seq(Requests) /\ delivered' \in Seq(Requests)
  BY <1>1 DEF IInv, Typed
<1>3. Kept' = Kept
  BY <1>1 DEF Kept
<1> QED
  BY <1>1, <1>2, <1>3, HandsOn

LEMMA YieldStep == ASSUME IInv, Flush \/ EndFlushes PROVE IInv'
<1>1. /\ consumer' = "idle" /\ batch' = << >> /\ delivered' = delivered \o batch
      /\ UNCHANGED <<producerVars, channel, completed, lost>>
  BY DEF Flush, EndFlushes, Yield
<1>2. channel \in Seq(Requests) /\ batch \in Seq(Requests) /\ delivered \in Seq(Requests)
  BY DEF IInv, Typed
<1>3. channel' \in Seq(Requests) /\ batch' \in Seq(Requests) /\ delivered' \in Seq(Requests)
  BY <1>1, <1>2
<1>4. (delivered \o batch) \o << >> \o channel = delivered \o batch \o channel
  BY <1>2, HandedOn
<1>5. Kept' = Kept
  BY <1>1, <1>4 DEF Kept
<1> QED
  BY <1>1, <1>3, <1>5, HandsOn

LEMMA ReceiveStep == ASSUME IInv, Receive PROVE IInv'
<1>1. /\ consumer' = "loop" /\ channel # << >>
      /\ batch' = Append(batch, Head(channel)) /\ channel' = Tail(channel)
      /\ UNCHANGED <<producerVars, delivered, completed, lost>>
  BY DEF Receive
<1>2. channel \in Seq(Requests) /\ batch \in Seq(Requests) /\ delivered \in Seq(Requests)
  BY DEF IInv, Typed
<1>3. channel' \in Seq(Requests) /\ batch' \in Seq(Requests) /\ delivered' \in Seq(Requests)
  BY <1>1, <1>2
<1>4. delivered \o batch' \o channel' = delivered \o batch \o channel
  <2> DEFINE x == Head(channel)
             t == Tail(channel)
             u == delivered \o batch
  <2>1. x \in Requests /\ t \in Seq(Requests) /\ <<x>> \in Seq(Requests) /\ u \in Seq(Requests)
    BY <1>1, <1>2, HeadTailProperties
  <2>2. <<x>> \o t = channel
    BY <1>1, <1>2
  <2> HIDE DEF x, t
  <2>3. batch' = batch \o <<x>> /\ channel' = t
    BY <1>1, <1>2, <2>1, AppendIsConcat DEF x, t
  <2>4. delivered \o (batch \o <<x>>) = u \o <<x>>
    BY <1>2, <2>1, ConcatAssociative
  <2> HIDE DEF u
  <2>5. (u \o <<x>>) \o t = u \o (<<x>> \o t)
    BY <2>1, ConcatAssociative
  <2> QED
    BY <2>2, <2>3, <2>4, <2>5 DEF u
<1>5. Kept' = Kept
  BY <1>1, <1>4 DEF Kept
<1> QED
  BY <1>1, <1>3, <1>5, HandsOn

LEMMA ElapseStep == ASSUME IInv, Elapse PROVE IInv'
<1>1. /\ consumer' = consumer /\ consumer \in {"loop", "next"}
      /\ UNCHANGED <<producerVars, channel, batch, delivered, completed, lost>>
  BY DEF Elapse
<1>2. channel' \in Seq(Requests) /\ batch' \in Seq(Requests) /\ delivered' \in Seq(Requests)
  BY <1>1 DEF IInv, Typed
<1>3. Kept' = Kept
  BY <1>1 DEF Kept
<1> QED
  BY <1>1, <1>2, <1>3, HandsOn

\* The first poll spawns the driver, which may have nothing to do.
LEMMA AwaitStep == ASSUME IInv, Await PROVE IInv'
<1>1. /\ consumer' = "next" /\ driver' = IF driver = "deferred" THEN AfterDispatch(next) ELSE driver
      /\ UNCHANGED <<next, task, permits, channel, batch, delivered, completed, lost>>
  BY DEF Await
<1>2. Typed' /\ Dispatched'
  BY <1>1 DEF IInv, Typed, Dispatched, AfterDispatch
<1>3. Conserved'
  BY <1>1 DEF IInv, Conserved, Holders
<1>4. InLine'
  BY <1>1, LineUnmoved DEF IInv, InLine, Kept
<1>5. AtTheEnd'
  BY <1>1 DEF AtTheEnd
<1> QED
  BY <1>2, <1>3, <1>4, <1>5 DEF IInv

\* The end: all senders are gone, so that no request is left to be dispatched.
LEMMA EndStopsStep == ASSUME IInv, EndStops PROVE IInv'
<1>1. /\ consumer' = "stopped" /\ channel = << >> /\ batch = << >> /\ ChannelEnded
      /\ UNCHANGED <<producerVars, channel, batch, delivered, completed, lost>>
  BY DEF EndStops
<1>2. Typed'
  BY <1>1 DEF IInv, Typed, producerVars
<1>3. InLine'
  BY <1>1, LineUnmoved DEF IInv, InLine, Kept, producerVars
<1>4. \A i \in Requests : task[i] = "gone"
  BY <1>1 DEF ChannelEnded, IInv, Dispatched, Requests
<1>5. AtTheEnd'
  BY <1>1, <1>4 DEF AtTheEnd, ChannelEnded, producerVars
<1> QED
  BY <1>1, <1>2, <1>3, <1>5, ProducersRest DEF IInv

\* A cancelled call loses its chunk, and nothing else.
LEMMA CancelStep == ASSUME IInv, CancelAnext PROVE IInv'
<1>1. /\ consumer' = "idle" /\ batch' = << >> /\ lost' = lost \cup ToSet(batch)
      /\ UNCHANGED <<producerVars, channel, delivered, completed>>
  BY DEF CancelAnext
<1>2. /\ channel \in Seq(Requests) /\ batch \in Seq(Requests) /\ delivered \in Seq(Requests)
      /\ completed \in Seq(Requests) /\ InLine
  BY DEF IInv, Typed
<1>3. Typed'
  BY <1>1 DEF IInv, Typed, producerVars
<1>4. /\ Ordered(delivered \o channel, completed)
      /\ ToSet(delivered \o channel) = ToSet(Kept) \ ToSet(batch)
  BY <1>2, CutKeepsOrder DEF InLine, Kept
<1>5. Kept' = delivered \o channel
  <2>1. delivered \o << >> = delivered
    BY <1>2, ConcatEmptySeq
  <2> QED
    BY <1>1, <2>1 DEF Kept
<1>6. /\ ToSet(Kept)' = ToSet(Kept) \ ToSet(batch) /\ ToSet(completed)' = ToSet(completed)
      /\ Ordered(Kept, completed)' /\ Distinct(completed)'
  BY <1>1, <1>2, <1>4, <1>5 DEF InLine
<1>7. ToSet(batch) \subseteq ToSet(completed)
  <2>1. ToSet(Kept) = ToSet(delivered \o batch) \cup ToSet(channel)
    <3>1. delivered \o batch \in Seq(Requests)
      BY <1>2
    <3> QED
      BY <1>2, <3>1, ElementsOfConcat, ZenonT(40) DEF Kept
  <2>2. ToSet(delivered \o batch) = ToSet(delivered) \cup ToSet(batch)
    BY <1>2, ElementsOfConcat
  <2> QED
    BY <1>2, <2>1, <2>2 DEF InLine
<1>8. InLine'
  BY <1>1, <1>2, <1>6, <1>7 DEF InLine, producerVars
<1>9. AtTheEnd'
  BY <1>1 DEF AtTheEnd
<1> QED
  BY <1>1, <1>3, <1>8, <1>9, ProducersRest DEF IInv

\* A dropped iterator loses what the channel holds.
LEMMA DropStep == ASSUME IInv, DropIterator PROVE IInv'
<1>1. /\ consumer = "idle" /\ consumer' = "dropped" /\ channel' = << >>
      /\ lost' = lost \cup ToSet(channel)
      /\ UNCHANGED <<producerVars, batch, delivered, completed>>
  BY DEF DropIterator
<1>2. /\ channel \in Seq(Requests) /\ delivered \in Seq(Requests) /\ batch = << >>
      /\ completed \in Seq(Requests) /\ << >> \in Seq(Requests) /\ InLine
  BY <1>1 DEF IInv, Typed, AtTheEnd
<1>3. Typed'
  BY <1>1 DEF IInv, Typed, producerVars
<1>4. Kept = delivered \o channel /\ Kept' = delivered
  BY <1>1, <1>2, ConcatEmptySeq DEF Kept
<1>5. delivered \o channel \o << >> = delivered \o channel /\ delivered \o << >> = delivered
  BY <1>2
<1>6. /\ Ordered(delivered, completed)
      /\ ToSet(delivered) = ToSet(delivered \o channel) \ ToSet(channel)
  <2> DEFINE none == << >>
  <2>1. none \in Seq(Requests) /\ delivered \o channel \o none = Kept /\ delivered \o none = delivered
    BY <1>2, <1>4, <1>5
  <2> HIDE DEF none
  <2>2. /\ Ordered(delivered \o channel \o none, completed)
        /\ ToSet(delivered \o channel \o none) \subseteq ToSet(completed)
    BY <1>2, <2>1 DEF InLine
  <2>3. /\ Ordered(delivered \o none, completed)
        /\ ToSet(delivered \o none) = ToSet(delivered \o channel \o none) \ ToSet(channel)
    <3> DEFINE Ends(d, b, h, c) ==
                 Ordered(d \o b \o h, c) /\ ToSet(d \o b \o h) \subseteq ToSet(c) =>
                 Ordered(d \o h, c) /\ ToSet(d \o h) = ToSet(d \o b \o h) \ ToSet(b)
    <3>1. \A d, b, h, c \in Seq(Requests) : Ends(d, b, h, c)
      BY CutKeepsOrder
    <3> HIDE DEF Ends
    <3>2. Ends(delivered, channel, none, completed)
      BY <1>2, <2>1, <3>1
    <3> QED
      BY <2>2, <3>2 DEF Ends
  <2> QED
    BY <1>4, <2>1, <2>3
<1>7. ToSet(channel) \subseteq ToSet(completed)
  BY <1>2, <1>4, ElementsOfConcat DEF InLine
<1>8. /\ ToSet(Kept)' = ToSet(Kept) \ ToSet(channel) /\ ToSet(completed)' = ToSet(completed)
      /\ Ordered(Kept, completed)' /\ Distinct(completed)'
  BY <1>1, <1>2, <1>4, <1>6 DEF InLine
<1>9. InLine'
  BY <1>1, <1>2, <1>7, <1>8 DEF InLine, producerVars
<1>10. AtTheEnd'
  BY <1>1, <1>2 DEF AtTheEnd
<1> QED
  BY <1>1, <1>3, <1>9, <1>10, ProducersRest DEF IInv

\* Time and the count of cancelled calls are nothing to the invariant.
LEMMA StutterStep ==
    ASSUME IInv,
           UNCHANGED <<driver, next, task, permits, channel, consumer, batch, delivered,
                       completed, lost>>
    PROVE  IInv'
<1>1. Kept' = Kept
  BY DEF Kept
<1>2. InLine'
  BY <1>1, LineUnmoved DEF IInv, InLine
<1>3. UNCHANGED producerVars
  BY DEF producerVars
<1> QED
  BY <1>2, <1>3, ProducersRest DEF IInv, Typed, AtTheEnd

-----------------------------------------------------------------------------
LEMMA InitIInv == Init => IInv
<1> SUFFICES ASSUME Init
             PROVE  IInv
  OBVIOUS
<1>1. Typed /\ Dispatched /\ AtTheEnd
  BY DEF Init, Typed, Dispatched, AtTheEnd, TaskStates, Requests
<1>2. Conserved
  <2>1. Holders = {}
    BY DEF Init, Holders
  <2> QED
    BY <2>1, FS_EmptySet DEF Init, Conserved
<1>3. InLine
  <2>1. Kept = << >> /\ completed = << >> /\ Len(completed) = 0 /\ Len(Kept) = 0
    BY DEF Init, Kept
  <2>2. ToSet(Kept) = {} /\ ToSet(completed) = {} /\ lost = {}
    BY <2>1 DEF Init, ToSet
  <2> QED
    BY <2>1, <2>2 DEF InLine, Ordered, Distinct
<1> QED
  BY <1>1, <1>2, <1>3 DEF IInv

LEMMA NextIInv == IInv /\ [Next]_vars => IInv'
<1> SUFFICES ASSUME IInv, [Next]_vars
             PROVE  IInv'
  OBVIOUS
<1>1. CASE Driver
  BY <1>1, PaceStep, DispatchStep DEF Driver
<1>2. ASSUME NEW i \in Requests, Task(i)
      PROVE  IInv'
  BY <1>2, SendStep, ReleaseStep, DropSenderStep DEF Task
<1>3. CASE Iterate
  BY <1>3, AnextStep, YieldStep, AwaitStep, ReceiveStep, EndStopsStep DEF Iterate
<1>4. CASE Elapse \/ CancelAnext \/ DropIterator
  BY <1>4, ElapseStep, CancelStep, DropStep
<1>5. CASE UNCHANGED vars
  BY <1>5, StutterStep DEF vars
<1> QED
  BY <1>1, <1>2, <1>3, <1>4, <1>5 DEF Next

LEMMA InductiveInvariant == Spec => []IInv
  BY InitIInv, NextIInv, PTL DEF Spec

LEMMA CompletionFollows == IInv => CompletionOrder
<1> SUFFICES ASSUME IInv
             PROVE  CompletionOrder
  OBVIOUS
<1>1. InLine /\ (consumer = "stopped" => batch \o channel = << >>)
  BY DEF IInv, AtTheEnd
<1>2. consumer = "stopped" => next = N + 1 /\ \A i \in Requests : task[i] = "gone"
  BY DEF IInv, AtTheEnd, Dispatched
<1> QED
  BY <1>1, <1>2 DEF InLine, Kept, Ordered, Distinct, CompletionOrder

\* Results reach Python in the order of completion, each once, less what
\* cancelled calls and a dropped iterator threw away; and the iterator only
\* stops when every request has been dispatched and is over.
THEOREM ResultsComeInCompletionOrder == Spec => []CompletionOrder
  BY CompletionFollows, InductiveInvariant, PTL

-----------------------------------------------------------------------------
(***************************************************************************)
(* The stream implements BoundedDispatch.  A dispatch maps to Start: the    *)
(* tasks that send hold permits, of which one was free; a send or a panic   *)
(* maps to Finish, a chunk handed to Python to Deliver; every other step is *)
(* a stutter.                                                               *)
(***************************************************************************)
LEMMA SameCardinality == \A S : Promise!Cardinality(S) = Cardinality(S)
BY DEF Promise!Cardinality, Cardinality

LEMMA InitRefines == Init => Promise!Init
BY DEF Init, Promise!Init, Promise!Requests, Requests, Phase

LEMMA DispatchRefines ==
    ASSUME IInv, Dispatch
    PROVE  Promise!Next
<1>1. next \in Requests /\ task[next] = "absent" /\ task \in [Requests -> TaskStates]
  BY DEF Dispatch, IInv, Typed, Dispatched, Requests
<1>2. Phase[next] = "waiting" /\ Phase' = [Phase EXCEPT ![next] = "in flight"]
  BY <1>1 DEF Dispatch, Phase
<1>3. Promise!InFlight \in SUBSET Holders
  BY DEF Promise!InFlight, Promise!Requests, Requests, Phase, Holders
<1>4. Cardinality(Promise!InFlight) <= Cardinality(Holders) /\ Cardinality(Promise!InFlight) \in Nat
  BY <1>3, HoldersFinite, FS_Subset, FS_CardinalityType
<1>5. Cardinality(Holders) < Concurrency
  BY HoldersFinite DEF Dispatch, IInv, Conserved, Typed
<1>6. Promise!Cardinality(Promise!InFlight) < Concurrency
  BY <1>4, <1>5, HoldersFinite, SameCardinality
<1>7. UNCHANGED delivered
  BY DEF Dispatch, consumerVars
<1>8. Promise!Start(next)
  BY <1>2, <1>6, <1>7 DEF Promise!Start
<1> QED
  BY <1>1, <1>8 DEF Promise!Next, Promise!Requests, Requests

LEMMA FinishRefines ==
    ASSUME IInv, NEW i \in Requests, Send(i) \/ Panic(i)
    PROVE  Promise!Next
<1>1. task \in [Requests -> TaskStates] /\ task[i] = "sending" /\ UNCHANGED delivered
  BY DEF IInv, Typed, Send, Panic, consumerVars
<1>2. Phase[i] = "in flight" /\ Phase' = [Phase EXCEPT ![i] = "over"]
  BY <1>1 DEF Send, Panic, Phase
<1>3. Promise!Finish(i)
  BY <1>1, <1>2 DEF Promise!Finish
<1> QED
  BY <1>3 DEF Promise!Next, Promise!Requests, Requests

\* A chunk has results that were not delivered before, of requests that are over.
LEMMA DeliverRefines ==
    ASSUME IInv, IInv', Flush \/ EndFlushes
    PROVE  Promise!Deliver
<1>1. /\ delivered' = delivered \o batch /\ batch # << >> /\ UNCHANGED <<task, completed>>
      /\ batch' = << >>
  BY ChunkAssumption DEF Flush, EndFlushes, Yield, MustFlush, producerVars
<1>2. /\ delivered \in Seq(Requests) /\ batch \in Seq(Requests) /\ channel' \in Seq(Requests)
      /\ delivered' \in Seq(Requests) /\ completed' \in Seq(Requests)
  BY DEF IInv, Typed
<1>3. Len(delivered') > Len(delivered) /\ SubSeq(delivered', 1, Len(delivered)) = delivered
  BY <1>1, <1>2
<1>4. Kept' = delivered' \o channel'
  <2>1. delivered' \o << >> = delivered'
    BY <1>2, ConcatEmptySeq
  <2> QED
    BY <1>1, <2>1 DEF Kept
<1>5. /\ Kept' \in Seq(Requests) /\ Len(Kept') >= Len(delivered') /\ Len(delivered') \in Nat
      /\ Len(Kept') \in Nat
      /\ \A k \in 1..Len(delivered') : Kept'[k] = delivered'[k]
  BY <1>2, <1>4
<1>6. ToSet(Kept') \subseteq ToSet(completed') /\ Ordered(Kept', completed')
  BY DEF IInv, InLine
<1>7. ASSUME NEW k \in 1..Len(delivered')
      PROVE  \E p \in 1..Len(completed') : completed'[p] = delivered'[k]
  <2>1. k \in 1..Len(Kept')
    BY <1>5
  <2>2. Kept'[k] \in ToSet(Kept')
    BY <1>5, <2>1, ElementsOf
  <2> QED
    BY <1>2, <1>5, <1>6, <2>2, ElementsOf
<1>8. ASSUME NEW k \in 1..Len(delivered')
      PROVE  delivered'[k] \in Requests /\ Phase[delivered'[k]] = "over"
  <2>1. delivered'[k] \in ToSet(completed')
    BY <1>2, <1>7, ElementsOf
  <2>2. delivered'[k] \in Requests /\ task'[delivered'[k]] \in {"sent", "released", "gone"}
    BY <1>2, <2>1 DEF IInv, InLine
  <2> QED
    BY <1>1, <2>2 DEF Phase
<1>9. ASSUME NEW j \in 1..Len(delivered'), NEW k \in 1..Len(delivered'), j # k
      PROVE  delivered'[j] # delivered'[k]
  <2> SUFFICES ASSUME delivered'[j] = delivered'[k]
               PROVE  FALSE
    OBVIOUS
  <2>1. PICK p \in 1..Len(completed') : completed'[p] = delivered'[j]
    BY <1>7
  <2>2. j \in 1..Len(Kept') /\ k \in 1..Len(Kept') /\ (j < k \/ k < j)
    BY <1>5, <1>9
  <2>3. p < p
    BY <1>5, <1>6, <2>1, <2>2 DEF Ordered
  <2> QED
    BY <1>2, <2>3
<1>10. Phase' = Phase
  BY <1>1 DEF Phase
<1> QED
  BY <1>3, <1>8, <1>9, <1>10 DEF Promise!Deliver, Promise!Requests, Requests

LEMMA QuietRefines ==
    ASSUME IInv,
           \/ Pace \/ Anext \/ Await \/ Receive \/ EndStops \/ Elapse \/ CancelAnext \/ DropIterator
           \/ UNCHANGED vars
           \/ \E i \in Requests : DropPermit(i) \/ DropSender(i)
    PROVE  UNCHANGED Promise!vars
<1>1. UNCHANGED delivered
  BY DEF Pace, Anext, Await, Receive, EndStops, Elapse, CancelAnext, DropIterator, DropPermit,
         DropSender, consumerVars, vars
<1>2. CASE UNCHANGED task
  BY <1>1, <1>2 DEF Promise!vars, Phase
<1>3. ASSUME NEW i \in Requests, DropPermit(i) \/ DropSender(i)
      PROVE  UNCHANGED Promise!vars
  <2>1. task \in [Requests -> TaskStates] /\ task[i] \in {"sent", "released"}
    BY <1>3 DEF IInv, Typed, DropPermit, DropSender
  <2>2. Phase' = Phase
    BY <1>3, <2>1 DEF Phase, DropPermit, DropSender
  <2> QED
    BY <1>1, <2>2 DEF Promise!vars
<1>4. CASE \/ Pace \/ Anext \/ Await \/ Receive \/ EndStops \/ Elapse \/ CancelAnext
           \/ DropIterator \/ UNCHANGED vars
  <2>1. UNCHANGED task
    BY <1>4 DEF Pace, Anext, Await, Receive, EndStops, Elapse, CancelAnext, DropIterator,
                producerVars, vars
  <2> QED
    BY <1>2, <2>1
<1> QED
  BY <1>3, <1>4

LEMMA StepRefines ==
    ASSUME IInv, IInv', [Next]_vars
    PROVE  [Promise!Next]_(Promise!vars)
<1>1. CASE Dispatch
  BY <1>1, DispatchRefines
<1>2. ASSUME NEW i \in Requests, Send(i) \/ Panic(i)
      PROVE  [Promise!Next]_(Promise!vars)
  BY <1>2, FinishRefines
<1>3. CASE Flush \/ EndFlushes
  BY <1>3, DeliverRefines DEF Promise!Next
<1>4. CASE \/ Pace \/ Anext \/ Await \/ Receive \/ EndStops \/ Elapse \/ CancelAnext
           \/ DropIterator \/ UNCHANGED vars
           \/ \E i \in Requests : DropPermit(i) \/ DropSender(i)
  BY <1>4, QuietRefines
<1> QED
  BY <1>1, <1>2, <1>3, <1>4 DEF Next, Driver, Task, Iterate

\* The stream keeps the promise of both batch functions, for every length of
\* batch, number of permits and chunk size, and whatever its consumer does:
\* each request is sent at most once, never more than `concurrency` at a time,
\* and each result is delivered at most once, for a request that is over.
THEOREM StreamKeepsPromise == Spec => PromiseKept
<1>1. IInv /\ IInv' /\ [Next]_vars => [Promise!Next]_(Promise!vars)
  BY StepRefines
<1> QED
  BY <1>1, InitRefines, InductiveInvariant, PTL DEF Spec, PromiseKept, Promise!Spec

-----------------------------------------------------------------------------
(* The queues.                                                               *)

Holds(queue, h) == \E a \in 1..Len(queue) : queue[a] = h

\* Used, UsedBefore and DueBefore over the first n dispatches of a log.
UsedIn(L, g, n) == \E j \in 1..n : L[j].picked = g
UsedBeforeIn(L, g, h, n) == \E j \in 1..n : L[j].picked = g /\ \A l \in 1..j : L[l].picked # h
DueBeforeIn(L, g, h, n) ==
    IF UsedIn(L, g, n)
    THEN UsedIn(L, h, n) /\ UsedBeforeIn(L, g, h, n)
    ELSE UsedIn(L, h, n) \/ g < h

\* After n dispatches, with m handlers registered, this one is due.
Fitting(R, m, request) == {h \in 1..m : Fits(R[h], request)}
Due(R, L, picked, n, m, request) ==
    IF Fitting(R, m, request) = {}
    THEN picked = None
    ELSE /\ picked \in Fitting(R, m, request)
         /\ \A h \in Fitting(R, m, request) \ {picked} : DueBeforeIn(L, picked, h, n)

\* Handlers and log entries of whatever shape, in sequences.
QueueTypes ==
    /\ \E S : registered \in Seq(S)
    /\ \E S : log \in Seq(S)
    /\ handlers \in Seq(1..Len(registered))
    /\ recycled \in Seq(1..Len(registered))

\* Every handler is in one of the queues: fresh in the order of registration
\* and before its first answer, recycled in the order of the first answers.
Queued ==
    /\ \A h \in 1..Len(registered) : Holds(handlers, h) \/ Holds(recycled, h)
    /\ \A a, b \in 1..Len(handlers) : a < b => handlers[a] < handlers[b]
    /\ \A a \in 1..Len(handlers) : ~UsedIn(log, handlers[a], Len(log))
    /\ \A a \in 1..Len(recycled) : UsedIn(log, recycled[a], Len(log))
    /\ \A a, b \in 1..Len(recycled) :
          a < b => UsedBeforeIn(log, recycled[a], recycled[b], Len(log))

\* Each dispatch was given what was due, of handlers that are still registered.
GivenDue ==
    \A i \in 1..Len(log) :
        /\ log[i].known \in Nat /\ log[i].known <= Len(registered)
        /\ Due(registered, log, log[i].picked, i - 1, log[i].known, log[i].request)

QueueInv == QueueTypes /\ Queued /\ GivenDue

LEMMA DispatchedInOrder == QueueInv => HandlersFifo
<1> SUFFICES ASSUME QueueInv, NEW i \in DOMAIN log
             PROVE  LET fitting == {h \in 1..log[i].known : Fits(registered[h], log[i].request)}
                    IN  IF fitting = {}
                        THEN log[i].picked = None
                        ELSE /\ log[i].picked \in fitting
                             /\ \A h \in fitting \ {log[i].picked} :
                                    DueBefore(log[i].picked, h, i)
  BY DEF HandlersFifo
<1>1. i \in 1..Len(log)
  BY DEF QueueInv, QueueTypes
<1>2. Due(registered, log, log[i].picked, i - 1, log[i].known, log[i].request)
  BY <1>1 DEF QueueInv, GivenDue
<1>3. \A g, h : DueBefore(g, h, i) <=> DueBeforeIn(log, g, h, i - 1)
  BY Zenon DEF DueBefore, DueBeforeIn, Used, UsedIn, UsedBefore, UsedBeforeIn
<1> QED
  BY <1>2, <1>3, Zenon DEF Due, Fitting

-----------------------------------------------------------------------------
(* Facts about sequences.                                                    *)

LEMMA Appended ==
    ASSUME NEW S, NEW s \in Seq(S), NEW e
    PROVE  /\ Append(s, e) \in Seq(S \cup {e})
           /\ Len(s) \in Nat /\ Len(Append(s, e)) = Len(s) + 1
           /\ \A i \in 1..Len(s) : Append(s, e)[i] = s[i]
           /\ Append(s, e)[Len(s) + 1] = e
<1>1. s \in Seq(S \cup {e})
  BY SeqMonotonic
<1> QED
  BY <1>1, AppendProperties

\* Without its k'th element: those before it, and those after it one earlier.
LEMMA Removed ==
    ASSUME NEW S, NEW s \in Seq(S), NEW k \in 1..Len(s)
    PROVE  /\ RemoveAt(s, k) \in Seq(S)
           /\ Len(s) \in Nat /\ Len(RemoveAt(s, k)) = Len(s) - 1
           /\ \A i \in 1..(k - 1) : RemoveAt(s, k)[i] = s[i]
           /\ \A i \in k..(Len(s) - 1) : RemoveAt(s, k)[i] = s[i + 1]
<1> DEFINE front == SubSeq(s, 1, k - 1)
           back == SubSeq(s, k + 1, Len(s))
<1>1. Len(s) \in Nat /\ k \in Nat /\ k >= 1 /\ k <= Len(s)
  OBVIOUS
<1>2. \A i \in 1..Len(s) : s[i] \in S
  OBVIOUS
<1>3. front \in Seq(S) /\ Len(front) = k - 1 /\ \A i \in 1..(k - 1) : front[i] = s[i]
  BY <1>1, <1>2, SubSeqProperties
<1>4. back \in Seq(S) /\ Len(back) = Len(s) - k /\ \A i \in 1..(Len(s) - k) : back[i] = s[k + i]
  BY <1>1, <1>2, SubSeqProperties
<1>5. RemoveAt(s, k) = front \o back
  BY DEF RemoveAt
<1> HIDE DEF front, back
<1>6. /\ front \o back \in Seq(S) /\ Len(front \o back) = (k - 1) + (Len(s) - k)
      /\ \A i \in 1..((k - 1) + (Len(s) - k)) :
            (front \o back)[i] = IF i <= k - 1 THEN front[i] ELSE back[i - (k - 1)]
  <2>1. /\ front \o back \in Seq(S) /\ Len(front \o back) = Len(front) + Len(back)
        /\ \A i \in 1..(Len(front) + Len(back)) :
              (front \o back)[i] = IF i <= Len(front) THEN front[i] ELSE back[i - Len(front)]
    BY <1>3, <1>4, ConcatProperties
  <2>2. Len(front) = k - 1 /\ Len(back) = Len(s) - k
    BY <1>3, <1>4
  <2> QED
    BY <2>1, <2>2, Zenon
<1>7. ASSUME NEW i \in 1..(k - 1)
      PROVE  RemoveAt(s, k)[i] = s[i]
  BY <1>1, <1>3, <1>5, <1>6
<1>8. ASSUME NEW i \in k..(Len(s) - 1)
      PROVE  RemoveAt(s, k)[i] = s[i + 1]
  <2>1. i - (k - 1) \in 1..(Len(s) - k) /\ k + (i - (k - 1)) = i + 1 /\ ~(i <= k - 1)
        /\ i \in 1..((k - 1) + (Len(s) - k))
    BY <1>1
  <2> QED
    BY <1>4, <1>5, <1>6, <2>1
<1> QED
  BY <1>1, <1>5, <1>6, <1>7, <1>8

\* A queue without a first fitting handler has none that fits.
LEMMA NoFirstFit ==
    ASSUME NEW S, NEW queue \in Seq(S), NEW request, FirstFit(queue, request) = {}
    PROVE  \A k \in 1..Len(queue) : ~Fits(registered[queue[k]], request)
<1> DEFINE T == {k \in 1..Len(queue) : Fits(registered[queue[k]], request)}
           R == OpToRel(<, Nat)
<1>1. SUFFICES ASSUME T # {}
               PROVE  FALSE
  OBVIOUS
<1>2. T \subseteq Nat
  OBVIOUS
<1>3. IsWellFoundedOn(R, Nat)
  BY NatLessThanWellFounded
<1>4. PICK k \in T : \A j \in T : ~(<<j, k>> \in R)
  <2> HIDE DEF T, R
  <2> QED
    BY <1>1, <1>2, <1>3, WFMin
<1>5. \A j \in T : ~(j < k)
  <2> HIDE DEF T
  <2> QED
    BY <1>2, <1>4 DEF OpToRel
<1>6. \A j \in 1..(k - 1) : ~Fits(registered[queue[j]], request)
  BY <1>5
<1>7. k \in FirstFit(queue, request)
  <2>1. k \in DOMAIN queue
    OBVIOUS
  <2> QED
    BY <1>6, <2>1 DEF FirstFit
<1> QED
  BY <1>7

-----------------------------------------------------------------------------
(* What is due does not change with later registrations and dispatches.      *)

LEMMA UsedBeforeStable ==
    ASSUME NEW n \in Nat, NEW L, NEW K, \A j \in 1..n : K[j] = L[j], NEW g, NEW h
    PROVE  UsedBeforeIn(K, g, h, n) <=> UsedBeforeIn(L, g, h, n)
<1>1. \A j \in 1..n : \A l \in 1..j : l \in 1..n
  OBVIOUS
<1>2. ASSUME UsedBeforeIn(L, g, h, n)
      PROVE  UsedBeforeIn(K, g, h, n)
  <2>1. PICK j \in 1..n : L[j].picked = g /\ \A l \in 1..j : L[l].picked # h
    BY <1>2, Zenon DEF UsedBeforeIn
  <2>2. K[j].picked = g /\ \A l \in 1..j : K[l].picked # h
    BY <1>1, <2>1
  <2> QED
    BY <2>2, Zenon DEF UsedBeforeIn
<1>3. ASSUME UsedBeforeIn(K, g, h, n)
      PROVE  UsedBeforeIn(L, g, h, n)
  <2>1. PICK j \in 1..n : K[j].picked = g /\ \A l \in 1..j : K[l].picked # h
    BY <1>3, Zenon DEF UsedBeforeIn
  <2>2. L[j].picked = g /\ \A l \in 1..j : L[l].picked # h
    BY <1>1, <2>1
  <2> QED
    BY <2>2, Zenon DEF UsedBeforeIn
<1> QED
  BY <1>2, <1>3

LEMMA DueStable ==
    ASSUME NEW n \in Nat, NEW m \in Nat, NEW L, NEW K, NEW R, NEW Q, NEW picked, NEW request,
           \A j \in 1..n : K[j] = L[j],
           \A h \in 1..m : Q[h] = R[h],
           Due(R, L, picked, n, m, request)
    PROVE  Due(Q, K, picked, n, m, request)
<1>1. Fitting(Q, m, request) = Fitting(R, m, request)
  BY DEF Fitting
<1>2. \A h : UsedIn(K, h, n) <=> UsedIn(L, h, n)
  BY DEF UsedIn
<1>3. \A g, h : UsedBeforeIn(K, g, h, n) <=> UsedBeforeIn(L, g, h, n)
  BY UsedBeforeStable
<1>4. \A g, h : DueBeforeIn(K, g, h, n) <=> DueBeforeIn(L, g, h, n)
  BY <1>2, <1>3, Zenon DEF DueBeforeIn
<1> QED
  BY <1>1, <1>4, Zenon DEF Due

\* pick_handler takes what is due.
LEMMA FreshIsDue ==
    ASSUME QueueInv, NEW request, NEW k \in FirstFit(handlers, request)
    PROVE  Due(registered, log, handlers[k], Len(log), Len(registered), request)
<1> DEFINE F == Fitting(registered, Len(registered), request)
<1>1. /\ k \in 1..Len(handlers) /\ Fits(registered[handlers[k]], request)
      /\ \A j \in 1..(k - 1) : ~Fits(registered[handlers[j]], request)
  BY DEF FirstFit, QueueInv, QueueTypes
<1>2. handlers[k] \in 1..Len(registered)
  BY <1>1 DEF QueueInv, QueueTypes
<1>3. handlers[k] \in F
  BY <1>1, <1>2, Zenon DEF Fitting
<1>4. ~UsedIn(log, handlers[k], Len(log))
  BY <1>1 DEF QueueInv, Queued
<1>5. ASSUME NEW h \in F, h # handlers[k]
      PROVE  UsedIn(log, h, Len(log)) \/ handlers[k] < h
  <2>1. h \in 1..Len(registered) /\ Fits(registered[h], request)
    BY <1>5 DEF Fitting
  <2>2. CASE Holds(handlers, h)
    <3>1. PICK a \in 1..Len(handlers) : handlers[a] = h
      BY <2>2 DEF Holds
    <3>2. a # k /\ a \notin 1..(k - 1)
      BY <1>1, <1>5, <2>1, <3>1
    <3>3. k < a
      BY <1>1, <3>2 DEF QueueInv, QueueTypes
    <3> QED
      BY <1>1, <3>1, <3>3 DEF QueueInv, Queued
  <2>3. CASE Holds(recycled, h)
    BY <2>3 DEF Holds, QueueInv, Queued
  <2> QED
    BY <2>1, <2>2, <2>3 DEF QueueInv, Queued
<1> HIDE DEF F
<1> QED
  BY <1>3, <1>4, <1>5, Zenon DEF Due, DueBeforeIn, F

LEMMA RecycledIsDue ==
    ASSUME QueueInv, NEW request, FirstFit(handlers, request) = {},
           NEW k \in FirstFit(recycled, request)
    PROVE  Due(registered, log, recycled[k], Len(log), Len(registered), request)
<1> DEFINE F == Fitting(registered, Len(registered), request)
<1>1. /\ k \in 1..Len(recycled) /\ Fits(registered[recycled[k]], request)
      /\ \A j \in 1..(k - 1) : ~Fits(registered[recycled[j]], request)
  BY DEF FirstFit, QueueInv, QueueTypes
<1>2. recycled[k] \in 1..Len(registered)
  BY <1>1 DEF QueueInv, QueueTypes
<1>3. recycled[k] \in F
  BY <1>1, <1>2, Zenon DEF Fitting
<1>4. UsedIn(log, recycled[k], Len(log))
  BY <1>1 DEF QueueInv, Queued
<1>5. \A a \in 1..Len(handlers) : ~Fits(registered[handlers[a]], request)
  BY NoFirstFit DEF QueueInv, QueueTypes
<1>6. ASSUME NEW h \in F, h # recycled[k]
      PROVE  UsedIn(log, h, Len(log)) /\ UsedBeforeIn(log, recycled[k], h, Len(log))
  <2>1. h \in 1..Len(registered) /\ Fits(registered[h], request)
    BY <1>6 DEF Fitting
  <2>2. ~Holds(handlers, h)
    BY <1>5, <2>1 DEF Holds
  <2>3. PICK a \in 1..Len(recycled) : recycled[a] = h
    BY <2>1, <2>2 DEF Holds, QueueInv, Queued
  <2>4. a # k /\ a \notin 1..(k - 1)
    BY <1>1, <1>6, <2>1, <2>3
  <2>5. k < a
    BY <1>1, <2>4 DEF QueueInv, QueueTypes
  <2> QED
    BY <1>1, <2>3, <2>5 DEF QueueInv, Queued
<1> HIDE DEF F
<1> QED
  BY <1>3, <1>4, <1>6, Zenon DEF Due, DueBeforeIn, F

LEMMA NoneIsDue ==
    ASSUME QueueInv, NEW request, FirstFit(handlers \o recycled, request) = {}
    PROVE  Due(registered, log, None, Len(log), Len(registered), request)
<1> DEFINE queue == handlers \o recycled
           m == Len(registered)
<1>1. handlers \in Seq(1..m) /\ recycled \in Seq(1..m)
  BY DEF QueueInv, QueueTypes
<1>2. /\ queue \in Seq(1..m) /\ Len(queue) = Len(handlers) + Len(recycled)
      /\ \A i \in 1..(Len(handlers) + Len(recycled)) :
            queue[i] = IF i <= Len(handlers) THEN handlers[i] ELSE recycled[i - Len(handlers)]
  BY <1>1, ConcatProperties
<1> HIDE DEF queue
<1>3. \A a \in 1..Len(queue) : ~Fits(registered[queue[a]], request)
  BY <1>2, NoFirstFit DEF queue
<1>4. ASSUME NEW a \in 1..Len(handlers)
      PROVE  ~Fits(registered[handlers[a]], request)
  <2>1. a \in 1..(Len(handlers) + Len(recycled)) /\ a <= Len(handlers)
    BY <1>1
  <2>2. queue[a] = handlers[a]
    BY <1>2, <2>1
  <2> QED
    BY <1>2, <1>3, <2>1, <2>2
<1>5. ASSUME NEW a \in 1..Len(recycled)
      PROVE  ~Fits(registered[recycled[a]], request)
  <2>1. /\ Len(handlers) + a \in 1..(Len(handlers) + Len(recycled))
        /\ ~(Len(handlers) + a <= Len(handlers)) /\ (Len(handlers) + a) - Len(handlers) = a
    BY <1>1
  <2>2. queue[Len(handlers) + a] = recycled[a]
    BY <1>2, <2>1
  <2> QED
    BY <1>2, <1>3, <2>1, <2>2
<1>6. Fitting(registered, m, request) = {}
  <2>1. ASSUME NEW h \in 1..m
        PROVE  ~Fits(registered[h], request)
    BY <1>4, <1>5 DEF QueueInv, Queued, Holds
  <2> QED
    BY <2>1 DEF Fitting
<1> QED
  BY <1>6 DEF Due

-----------------------------------------------------------------------------
(* The steps.                                                                *)

LEMMA LoggedEntry ==
    ASSUME QueueInv, NEW request, NEW picked, Logged(request, picked)
    PROVE  /\ Len(log) \in Nat /\ Len(log') = Len(log) + 1
           /\ \A i \in 1..Len(log) : log'[i] = log[i]
           /\ log'[Len(log) + 1].picked = picked
           /\ log'[Len(log) + 1].known = Len(registered)
           /\ log'[Len(log) + 1].request = request
           /\ (\E S : log \in Seq(S))'
<1> DEFINE e == [request |-> request, known |-> Len(registered), picked |-> picked]
<1>1. PICK S : log \in Seq(S)
  BY DEF QueueInv, QueueTypes
<1>2. log' = Append(log, e)
  BY DEF Logged
<1>3. e.request = request /\ e.known = Len(registered) /\ e.picked = picked
  OBVIOUS
<1> HIDE DEF e
<1>4. /\ log' \in Seq(S \cup {e})
      /\ Len(log) \in Nat /\ Len(log') = Len(log) + 1
      /\ \A i \in 1..Len(log) : log'[i] = log[i]
      /\ log'[Len(log) + 1] = e
  BY <1>1, <1>2, Appended
<1>5. \E T : log' \in Seq(T)
  BY <1>4, Zenon
<1> QED
  BY <1>3, <1>4, <1>5

\* A dispatch that was given what is due, the handlers being the same.
LEMMA DispatchedStays ==
    ASSUME QueueInv, NEW request, NEW picked, Logged(request, picked), registered' = registered,
           Due(registered, log, picked, Len(log), Len(registered), request)
    PROVE  GivenDue'
<1> DEFINE n == Len(log)
<1>1. n \in Nat /\ Len(log') = n + 1 /\ Len(registered) \in Nat
  BY LoggedEntry DEF QueueInv, QueueTypes
<1>2. /\ \A i \in 1..n : log'[i] = log[i]
      /\ log'[n + 1].picked = picked /\ log'[n + 1].known = Len(registered)
      /\ log'[n + 1].request = request
  BY LoggedEntry
<1> HIDE DEF n
<1>3. ASSUME NEW i \in 1..n
      PROVE  /\ log'[i].known \in Nat /\ log'[i].known <= Len(registered)
             /\ Due(registered, log', log'[i].picked, i - 1, log'[i].known, log'[i].request)
  <2>1. /\ log[i].known \in Nat /\ log[i].known <= Len(registered)
        /\ Due(registered, log, log[i].picked, i - 1, log[i].known, log[i].request)
    BY <1>3 DEF QueueInv, GivenDue, n
  <2>2. i - 1 \in Nat /\ \A j \in 1..(i - 1) : log'[j] = log[j]
    BY <1>1, <1>2, <1>3
  <2>3. Due(registered, log', log[i].picked, i - 1, log[i].known, log[i].request)
    BY <2>1, <2>2, DueStable
  <2> QED
    BY <1>2, <2>1, <2>3
<1>4. Due(registered, log', picked, n, Len(registered), request)
  BY <1>1, <1>2, DueStable DEF n
<1>5. ASSUME NEW i \in 1..(n + 1)
      PROVE  /\ log'[i].known \in Nat /\ log'[i].known <= Len(registered)
             /\ Due(registered, log', log'[i].picked, i - 1, log'[i].known, log'[i].request)
  <2>1. CASE i \in 1..n
    BY <1>3, <2>1
  <2>2. CASE i = n + 1
    <3>1. i - 1 = n
      BY <1>1, <2>2
    <3> QED
      BY <1>1, <1>2, <1>4, <2>2, <3>1
  <2> QED
    BY <1>1, <2>1, <2>2
<1> QED
  BY <1>1, <1>5 DEF GivenDue

\* One more dispatch: what was used stays used, in its order.
LEMMA UsesGrow ==
    ASSUME NEW n \in Nat, NEW L, NEW K, \A j \in 1..n : K[j] = L[j]
    PROVE  /\ \A h : UsedIn(L, h, n) => UsedIn(K, h, n + 1)
           /\ \A h : ~UsedIn(L, h, n) /\ K[n + 1].picked # h => ~UsedIn(K, h, n + 1)
           /\ \A g, h : UsedBeforeIn(L, g, h, n) => UsedBeforeIn(K, g, h, n + 1)
           /\ \A g, h : UsedIn(L, g, n) /\ ~UsedIn(L, h, n) => UsedBeforeIn(K, g, h, n + 1)
<1>1. \A j \in 1..n : j \in 1..(n + 1) /\ \A l \in 1..j : l \in 1..n
  OBVIOUS
<1>2. \A j \in 1..(n + 1) : j \in 1..n \/ j = n + 1
  OBVIOUS
<1>3. \A h : UsedIn(L, h, n) => UsedIn(K, h, n + 1)
  BY <1>1 DEF UsedIn
<1>4. \A h : ~UsedIn(L, h, n) /\ K[n + 1].picked # h => ~UsedIn(K, h, n + 1)
  BY <1>2 DEF UsedIn
<1>5. ASSUME NEW g, NEW h, UsedBeforeIn(L, g, h, n)
      PROVE  UsedBeforeIn(K, g, h, n + 1)
  <2>1. PICK j \in 1..n : L[j].picked = g /\ \A l \in 1..j : L[l].picked # h
    BY <1>5, Zenon DEF UsedBeforeIn
  <2>2. K[j].picked = g /\ \A l \in 1..j : K[l].picked # h
    BY <1>1, <2>1
  <2> QED
    BY <1>1, <2>2, Zenon DEF UsedBeforeIn
<1>6. ASSUME NEW g, NEW h, UsedIn(L, g, n), ~UsedIn(L, h, n)
      PROVE  UsedBeforeIn(K, g, h, n + 1)
  <2>1. PICK j \in 1..n : L[j].picked = g
    BY <1>6, Zenon DEF UsedIn
  <2>2. \A l \in 1..n : L[l].picked # h
    BY <1>6, Zenon DEF UsedIn
  <2>3. K[j].picked = g /\ \A l \in 1..j : K[l].picked # h
    BY <1>1, <2>1, <2>2
  <2> QED
    BY <1>1, <2>3, Zenon DEF UsedBeforeIn
<1> QED
  BY <1>3, <1>4, <1>5, <1>6

LEMMA AddKeeps ==
    ASSUME QueueInv, NEW h, AddHandler(h)
    PROVE  QueueInv'
<1> DEFINE m == Len(registered)
<1>1. PICK S : registered \in Seq(S)
  BY DEF QueueInv, QueueTypes
<1>2. /\ registered' = Append(registered, h) /\ handlers' = Append(handlers, Len(registered'))
      /\ recycled' = recycled /\ log' = log
  BY DEF AddHandler
<1>3. /\ registered' \in Seq(S \cup {h}) /\ m \in Nat /\ Len(registered') = m + 1
      /\ \A i \in 1..m : registered'[i] = registered[i]
  BY <1>1, <1>2, Appended
<1>4. handlers \in Seq(1..m) /\ recycled \in Seq(1..m)
  BY DEF QueueInv, QueueTypes
<1> HIDE DEF m
<1>5. 1..m \subseteq 1..(m + 1) /\ m + 1 \in 1..(m + 1)
  BY <1>3
<1>6. handlers \in Seq(1..(m + 1)) /\ recycled \in Seq(1..(m + 1))
  BY <1>4, <1>5, SeqMonotonic
<1>7. /\ handlers' \in Seq(1..(m + 1)) /\ Len(handlers) \in Nat /\ Len(handlers') = Len(handlers) + 1
      /\ \A i \in 1..Len(handlers) : handlers'[i] = handlers[i]
      /\ handlers'[Len(handlers) + 1] = m + 1
  BY <1>2, <1>3, <1>5, <1>6, AppendProperties
<1>8. QueueTypes'
  <2>1. \E T : registered' \in Seq(T)
    BY <1>3, Zenon
  <2>2. \E T : log' \in Seq(T)
    BY <1>2 DEF QueueInv, QueueTypes
  <2> QED
    BY <1>2, <1>3, <1>6, <1>7, <2>1, <2>2 DEF QueueTypes
<1>9. ~UsedIn(log, m + 1, Len(log))
  <2> SUFFICES ASSUME NEW j \in 1..Len(log), log[j].picked = m + 1
               PROVE  FALSE
    BY DEF UsedIn
  <2>1. /\ log[j].known \in Nat /\ log[j].known <= m
        /\ Due(registered, log, log[j].picked, j - 1, log[j].known, log[j].request)
    BY DEF QueueInv, GivenDue, m
  <2>2. log[j].picked = None \/ log[j].picked \in 1..log[j].known
    BY <2>1, Zenon DEF Due, Fitting
  <2> QED
    BY <1>3, <2>1, <2>2, NoneAssumption
<1>10. \A g \in 1..(m + 1) : Holds(handlers', g) \/ Holds(recycled', g)
  <2>1. ASSUME NEW g \in 1..m
        PROVE  Holds(handlers', g) \/ Holds(recycled, g)
    <3>1. Holds(handlers, g) \/ Holds(recycled, g)
      BY <2>1 DEF QueueInv, Queued, m
    <3> QED
      BY <1>7, <3>1 DEF Holds
  <2>2. Holds(handlers', m + 1)
    BY <1>7 DEF Holds
  <2> QED
    BY <1>2, <1>3, <2>1, <2>2
<1>11. \A a, b \in 1..Len(handlers') : a < b => handlers'[a] < handlers'[b]
  <2> SUFFICES ASSUME NEW a \in 1..Len(handlers'), NEW b \in 1..Len(handlers'), a < b
               PROVE  handlers'[a] < handlers'[b]
    OBVIOUS
  <2>1. a \in 1..Len(handlers) /\ handlers'[a] = handlers[a] /\ handlers[a] \in 1..m
    <3>1. a \in 1..Len(handlers)
      BY <1>7
    <3>2. handlers[a] \in 1..m
      BY <1>4, <3>1, ElementOfSeq
    <3> QED
      BY <1>7, <3>1, <3>2
  <2>2. CASE b \in 1..Len(handlers)
    BY <1>7, <2>1, <2>2 DEF QueueInv, Queued
  <2>3. CASE b = Len(handlers) + 1
    BY <1>3, <1>7, <2>1, <2>3
  <2> QED
    BY <1>7, <2>2, <2>3
<1>12. \A a \in 1..Len(handlers') : ~UsedIn(log, handlers'[a], Len(log))
  <2> SUFFICES ASSUME NEW a \in 1..Len(handlers')
               PROVE  ~UsedIn(log, handlers'[a], Len(log))
    OBVIOUS
  <2>1. CASE a \in 1..Len(handlers)
    BY <1>7, <2>1 DEF QueueInv, Queued
  <2>2. CASE a = Len(handlers) + 1
    BY <1>7, <1>9, <2>2
  <2> QED
    BY <1>7, <2>1, <2>2
<1>13. Queued'
  BY <1>2, <1>3, <1>10, <1>11, <1>12 DEF QueueInv, Queued
<1>14. GivenDue'
  <2> SUFFICES ASSUME NEW i \in 1..Len(log)
               PROVE  /\ log[i].known \in Nat /\ log[i].known <= Len(registered')
                      /\ Due(registered', log, log[i].picked, i - 1, log[i].known, log[i].request)
    BY <1>2 DEF GivenDue
  <2>1. /\ log[i].known \in Nat /\ log[i].known <= m
        /\ Due(registered, log, log[i].picked, i - 1, log[i].known, log[i].request)
    BY DEF QueueInv, GivenDue, m
  <2>2. \A g \in 1..log[i].known : registered'[g] = registered[g]
    BY <1>3, <2>1
  <2>3. i - 1 \in Nat
    OBVIOUS
  <2>4. Due(registered', log, log[i].picked, i - 1, log[i].known, log[i].request)
    BY <2>1, <2>2, <2>3, DueStable
  <2> QED
    BY <1>3, <2>1, <2>4
<1> QED
  BY <1>8, <1>13, <1>14 DEF QueueInv

\* A dispatch that moves no handler: it had one of the recycled, or none.
LEMMA RepeatKeeps ==
    ASSUME QueueInv, NEW request, NEW picked, Logged(request, picked),
           UNCHANGED <<registered, handlers, recycled>>,
           picked = None \/ Holds(recycled, picked),
           Due(registered, log, picked, Len(log), Len(registered), request)
    PROVE  QueueInv'
<1> DEFINE n == Len(log)
<1>1. /\ n \in Nat /\ Len(log') = n + 1
      /\ \A j \in 1..n : log'[j] = log[j]
      /\ log'[n + 1].picked = picked
      /\ (\E S : log \in Seq(S))'
  BY LoggedEntry
<1> HIDE DEF n
<1>2. QueueTypes'
  BY <1>1 DEF QueueInv, QueueTypes
<1>3. \A a \in 1..Len(handlers) : handlers[a] # picked
  <2> SUFFICES ASSUME NEW a \in 1..Len(handlers), handlers[a] = picked
               PROVE  FALSE
    OBVIOUS
  <2>1. handlers[a] \in Nat
    BY DEF QueueInv, QueueTypes
  <2>2. Holds(recycled, picked)
    BY <2>1, NoneAssumption
  <2>3. UsedIn(log, picked, n) /\ ~UsedIn(log, handlers[a], n)
    BY <2>2 DEF Holds, QueueInv, Queued, n
  <2> QED
    BY <2>3
<1>4. /\ \A h : UsedIn(log, h, n) => UsedIn(log', h, n + 1)
      /\ \A h : ~UsedIn(log, h, n) /\ picked # h => ~UsedIn(log', h, n + 1)
      /\ \A g, h : UsedBeforeIn(log, g, h, n) => UsedBeforeIn(log', g, h, n + 1)
  BY <1>1, UsesGrow
<1>5. Queued'
  <2>1. /\ \A h \in 1..Len(registered) : Holds(handlers, h) \/ Holds(recycled, h)
        /\ \A a, b \in 1..Len(handlers) : a < b => handlers[a] < handlers[b]
        /\ \A a \in 1..Len(handlers) : ~UsedIn(log', handlers[a], n + 1)
        /\ \A a \in 1..Len(recycled) : UsedIn(log', recycled[a], n + 1)
        /\ \A a, b \in 1..Len(recycled) :
              a < b => UsedBeforeIn(log', recycled[a], recycled[b], n + 1)
    BY <1>3, <1>4 DEF QueueInv, Queued, n
  <2> QED
    BY <1>1, <2>1 DEF Queued
<1> QED
  BY <1>2, <1>5, DispatchedStays DEF QueueInv

\* A dispatch that moves the first fresh handler that fits.
LEMMA TakeKeeps ==
    ASSUME QueueInv, NEW request, NEW k \in FirstFit(handlers, request), TakeFresh(k, request)
    PROVE  QueueInv'
<1> DEFINE n == Len(log)
           m == Len(registered)
           p == handlers[k]
           H == Len(handlers)
           R == Len(recycled)
<1>1. k \in 1..H /\ handlers \in Seq(1..m) /\ recycled \in Seq(1..m) /\ H \in Nat /\ R \in Nat
  BY DEF FirstFit, QueueInv, QueueTypes
<1>2. /\ handlers' = RemoveAt(handlers, k) /\ recycled' = Append(recycled, p)
      /\ Logged(request, p) /\ registered' = registered
  BY DEF TakeFresh
<1>3. p \in 1..m
  BY <1>1, ElementOfSeq
<1>4. /\ n \in Nat /\ Len(log') = n + 1
      /\ \A j \in 1..n : log'[j] = log[j]
      /\ log'[n + 1].picked = p
      /\ (\E S : log \in Seq(S))'
  BY <1>2, LoggedEntry
<1>5. /\ handlers' \in Seq(1..m) /\ Len(handlers') = H - 1
      /\ \A i \in 1..(k - 1) : handlers'[i] = handlers[i]
      /\ \A i \in k..(H - 1) : handlers'[i] = handlers[i + 1]
  BY <1>1, <1>2, Removed
<1>6. /\ recycled' \in Seq(1..m) /\ Len(recycled') = R + 1
      /\ \A i \in 1..R : recycled'[i] = recycled[i]
      /\ recycled'[R + 1] = p
  BY <1>1, <1>2, <1>3, AppendProperties
<1>7. /\ \A h \in 1..m : Holds(handlers, h) \/ Holds(recycled, h)
      /\ \A a, b \in 1..H : a < b => handlers[a] < handlers[b]
      /\ \A a \in 1..H : ~UsedIn(log, handlers[a], n)
      /\ \A a \in 1..R : UsedIn(log, recycled[a], n)
      /\ \A a, b \in 1..R : a < b => UsedBeforeIn(log, recycled[a], recycled[b], n)
  BY DEF QueueInv, Queued
<1>8. QueueTypes'
  BY <1>2, <1>4, <1>5, <1>6 DEF QueueInv, QueueTypes
<1>9. GivenDue'
  BY <1>2, FreshIsDue, DispatchedStays
<1> HIDE DEF n, m, p, H, R
<1>10. /\ \A h : UsedIn(log, h, n) => UsedIn(log', h, n + 1)
       /\ \A h : ~UsedIn(log, h, n) /\ p # h => ~UsedIn(log', h, n + 1)
       /\ \A g, h : UsedBeforeIn(log, g, h, n) => UsedBeforeIn(log', g, h, n + 1)
       /\ \A g, h : UsedIn(log, g, n) /\ ~UsedIn(log, h, n) => UsedBeforeIn(log', g, h, n + 1)
  BY <1>4, UsesGrow
<1>11. UsedIn(log', p, n + 1) /\ ~UsedIn(log, p, n)
  <2>1. n + 1 \in 1..(n + 1)
    BY <1>4
  <2> QED
    BY <1>1, <1>4, <1>7, <2>1 DEF UsedIn, p
\* Where the handlers that stay were.
<1>12. /\ \A a \in 1..(H - 1) : a < k => a \in 1..H /\ handlers'[a] = handlers[a]
       /\ \A a \in 1..(H - 1) : a >= k => a + 1 \in 1..H /\ handlers'[a] = handlers[a + 1]
  <2>1. \A a \in 1..(H - 1) : a \in Nat /\ a \in 1..H /\ a + 1 \in 1..H
                              /\ (a < k => a \in 1..(k - 1)) /\ (a >= k => a \in k..(H - 1))
    BY <1>1
  <2> QED
    BY <1>5, <2>1, Zenon
<1>13. /\ \A a \in 1..H : a < k => a \in 1..(H - 1)
       /\ \A a \in 1..H : a > k => a - 1 \in 1..(H - 1) /\ handlers'[a - 1] = handlers[a]
  <2>1. ASSUME NEW a \in 1..H, a > k
        PROVE  a - 1 \in k..(H - 1) /\ a - 1 \in 1..(H - 1) /\ (a - 1) + 1 = a
    BY <1>1, <2>1
  <2> QED
    BY <1>1, <1>5, <2>1
<1>14. ASSUME NEW h \in 1..m
       PROVE  Holds(handlers', h) \/ Holds(recycled', h)
  <2>1. CASE Holds(handlers, h)
    <3>1. PICK a \in 1..H : handlers[a] = h
      BY <2>1 DEF Holds, H
    <3>2. CASE a = k
      <4>1. R + 1 \in 1..Len(recycled')
        BY <1>1, <1>6
      <4> QED
        BY <1>6, <3>1, <3>2, <4>1 DEF Holds, p
    <3>3. CASE a < k
      <4>1. a \in 1..(H - 1) /\ handlers'[a] = h
        BY <1>12, <1>13, <3>1, <3>3, Zenon
      <4> QED
        BY <1>5, <4>1 DEF Holds
    <3>4. CASE a > k
      BY <1>5, <1>13, <3>1, <3>4 DEF Holds
    <3> QED
      BY <1>1, <3>2, <3>3, <3>4
  <2>2. CASE Holds(recycled, h)
    <3>1. PICK a \in 1..R : recycled[a] = h
      BY <2>2 DEF Holds, R
    <3>2. a \in 1..Len(recycled') /\ recycled'[a] = h
      BY <1>1, <1>6, <3>1
    <3> QED
      BY <3>2 DEF Holds
  <2> QED
    BY <1>7, <2>1, <2>2
<1>15. ASSUME NEW a \in 1..(H - 1), NEW b \in 1..(H - 1), a < b
       PROVE  handlers'[a] < handlers'[b]
  <2>1. a < b + 1 /\ a + 1 < b + 1 /\ (b < k => a < k) /\ (a >= k => b >= k)
        /\ (a < k \/ a >= k) /\ (b < k \/ b >= k)
    BY <1>1, <1>15
  <2>2. CASE b < k
    <3>1. /\ a \in 1..H /\ handlers'[a] = handlers[a]
          /\ b \in 1..H /\ handlers'[b] = handlers[b]
      BY <1>12, <1>15, <2>1, <2>2, Zenon
    <3> QED
      BY <1>7, <1>15, <3>1
  <2>3. CASE a < k /\ b >= k
    <3>1. /\ a \in 1..H /\ handlers'[a] = handlers[a]
          /\ b + 1 \in 1..H /\ handlers'[b] = handlers[b + 1]
      BY <1>12, <1>15, <2>3, Zenon
    <3> QED
      BY <1>7, <2>1, <3>1
  <2>4. CASE a >= k
    <3>1. /\ a + 1 \in 1..H /\ handlers'[a] = handlers[a + 1]
          /\ b + 1 \in 1..H /\ handlers'[b] = handlers[b + 1]
      BY <1>12, <1>15, <2>1, <2>4, Zenon
    <3> QED
      BY <1>7, <2>1, <3>1
  <2> QED
    BY <2>1, <2>2, <2>3, <2>4
<1>16. ASSUME NEW a \in 1..(H - 1)
       PROVE  ~UsedIn(log', handlers'[a], n + 1)
  <2>1. PICK b \in 1..H : b # k /\ handlers'[a] = handlers[b]
    <3>1. CASE a < k
      <4>1. a # k
        BY <1>1, <3>1
      <4> QED
        BY <1>12, <1>16, <3>1, <4>1, Zenon
    <3>2. CASE a >= k
      <4>1. a + 1 # k
        BY <1>1, <3>2
      <4> QED
        BY <1>12, <1>16, <3>2, <4>1, Zenon
    <3> QED
      BY <1>1, <3>1, <3>2
  <2>2. handlers[b] # p
    <3>1. handlers[b] \in Nat /\ p \in Nat
      BY <1>1, <1>3, <2>1, ElementOfSeq DEF H, m
    <3>2. handlers[b] < p \/ p < handlers[b]
      BY <1>1, <1>7, <2>1 DEF p
    <3> QED
      BY <3>1, <3>2
  <2> QED
    BY <1>7, <1>10, <2>1, <2>2
<1>17. ASSUME NEW a \in 1..(R + 1)
       PROVE  UsedIn(log', recycled'[a], n + 1)
  <2>1. CASE a \in 1..R
    BY <1>6, <1>7, <1>10, <2>1
  <2>2. CASE a = R + 1
    BY <1>6, <1>11, <2>2
  <2> QED
    BY <1>1, <2>1, <2>2
<1>18. ASSUME NEW a \in 1..(R + 1), NEW b \in 1..(R + 1), a < b
       PROVE  UsedBeforeIn(log', recycled'[a], recycled'[b], n + 1)
  <2>1. a \in 1..R
    BY <1>1, <1>18
  <2>2. CASE b \in 1..R
    BY <1>6, <1>7, <1>10, <1>18, <2>1, <2>2
  <2>3. CASE b = R + 1
    BY <1>6, <1>7, <1>10, <1>11, <2>1, <2>3
  <2> QED
    BY <1>1, <2>2, <2>3
<1>19. Queued'
  <2>1. Len(registered') = m /\ Len(handlers') = H - 1 /\ Len(recycled') = R + 1
        /\ Len(log') = n + 1
    BY <1>2, <1>4, <1>5, <1>6 DEF m
  <2> QED
    BY <1>14, <1>15, <1>16, <1>17, <1>18, <2>1 DEF Queued
<1> QED
  BY <1>8, <1>9, <1>19 DEF QueueInv

LEMMA PickKeeps ==
    ASSUME QueueInv, NEW request, PickHandler(request)
    PROVE  QueueInv'
<1>1. CASE \E k \in FirstFit(handlers, request) : TakeFresh(k, request)
  BY <1>1, TakeKeeps
<1>2. CASE /\ FirstFit(handlers, request) = {}
           /\ \E k \in FirstFit(recycled, request) : Logged(request, recycled[k])
           /\ UNCHANGED <<registered, handlers, recycled>>
  <2>1. PICK k \in FirstFit(recycled, request) : Logged(request, recycled[k])
    BY <1>2
  <2>2. k \in 1..Len(recycled)
    BY DEF FirstFit, QueueInv, QueueTypes
  <2>3. Holds(recycled, recycled[k])
    BY <2>2 DEF Holds
  <2>4. Due(registered, log, recycled[k], Len(log), Len(registered), request)
    BY <1>2, RecycledIsDue
  <2> QED
    BY <1>2, <2>1, <2>3, <2>4, RepeatKeeps
<1>3. CASE /\ FirstFit(handlers \o recycled, request) = {}
           /\ Logged(request, None)
           /\ UNCHANGED <<registered, handlers, recycled>>
  BY <1>3, NoneIsDue, RepeatKeeps
<1> QED
  BY <1>1, <1>2, <1>3 DEF PickHandler

-----------------------------------------------------------------------------
\* The queues as the steps of the iterator, of request() and of the real
\* client's stream see them.
LEMMA QueueSteps ==
    ASSUME [MockNext]_mockVars
    PROVE  \/ \E h : AddHandler(h)
           \/ \E request : PickHandler(request)
           \/ UNCHANGED queueVars
<1>1. CASE \E h \in scenario.registrable : AddHandler(h)
  BY <1>1
<1>2. CASE MockIterate
  BY <1>2 DEF MockIterate, DrainBuffered, DispatchMock, CallbackReturns, Pull, PullStops
<1>3. CASE ChunkArrives \/ RealEnds \/ CancelMock
  BY <1>3 DEF ChunkArrives, RealEnds, CancelMock
<1>4. CASE RealDriver \/ RealPoll \/ DirectIterate \/ Meanwhile
  BY <1>4 DEF RealDriver, RealPoll, DirectIterate, Meanwhile
<1>5. CASE \E i \in Requests : RealTask(i)
  BY <1>5 DEF RealTask
<1>6. CASE Request
  BY <1>6 DEF Request, Delegate, RequestDispatch, RequestCallbackReturns
<1>7. CASE UNCHANGED mockVars
  BY <1>7 DEF mockVars
<1> QED
  BY <1>1, <1>2, <1>3, <1>4, <1>5, <1>6, <1>7 DEF MockNext

LEMMA QueueStep ==
    ASSUME QueueInv, [MockNext]_mockVars
    PROVE  QueueInv'
<1>1. CASE UNCHANGED queueVars
  BY <1>1 DEF queueVars, QueueInv, QueueTypes, Queued, GivenDue
<1> QED
  BY <1>1, QueueSteps, AddKeeps, PickKeeps

LEMMA QueueInit == MockInit => QueueInv
<1> SUFFICES ASSUME MockInit
             PROVE  QueueInv
  OBVIOUS
<1>1. registered = << >> /\ handlers = << >> /\ recycled = << >> /\ log = << >>
  BY DEF MockInit
<1>2. << >> \in Seq({}) /\ Len(<< >>) = 0 /\ << >> \in Seq(1..0)
  OBVIOUS
<1> QED
  BY <1>1, <1>2 DEF QueueInv, QueueTypes, Queued, GivenDue

\* For any handlers, batches and calls, and whatever is registered in between,
\* pick_handler answers each dispatch with the first registered fresh handler
\* that fits, else with the fitting one that answered first, and refuses only
\* what no registered handler fits.
THEOREM HandlersAnswerInOrder == MockSpec => []HandlersFifo
<1>1. MockSpec => []QueueInv
  BY QueueInit, QueueStep, PTL DEF MockSpec
<1> QED
  BY <1>1, DispatchedInOrder, PTL

-----------------------------------------------------------------------------
(* The mock's batch: intercepted configs first, then the real client's.      *)

\* Every place among finitely many numbers is somebody's.
LEMMA EveryPlaceTaken ==
    ASSUME NEW S, S \subseteq Nat, IsFiniteSet(S), NEW r \in 1..Cardinality(S)
    PROVE  \E k \in S : Cardinality({j \in S : j < k}) = r - 1
<1> DEFINE n == Cardinality(S)
           Below(i) == {j \in S : j < i}
           f == [i \in S |-> Cardinality(Below(i))]
<1>1. n \in Nat /\ n >= 1 /\ r - 1 \in 0..(n - 1)
  BY FS_CardinalityType
<1>2. ASSUME NEW i \in S
      PROVE  /\ IsFiniteSet(Below(i)) /\ Cardinality(Below(i)) \in Nat
             /\ Cardinality(Below(i)) <= n - 1
  <2>1. IsFiniteSet(S \ {i}) /\ Cardinality(S \ {i}) = n - 1
    BY <1>2, FS_RemoveElement
  <2>2. Below(i) \in SUBSET (S \ {i})
    BY <1>2
  <2> HIDE DEF Below, n
  <2>3. IsFiniteSet(Below(i)) /\ Cardinality(Below(i)) <= n - 1
    BY <2>1, <2>2, FS_Subset
  <2> QED
    BY <2>3, FS_CardinalityType
<1>3. f \in [S -> 0..(n - 1)]
  <2> HIDE DEF Below, n
  <2> QED
    BY <1>1, <1>2
<1>4. ASSUME NEW i \in S, NEW j \in S, j < i
      PROVE  f[j] < f[i]
  <2>1. j \notin Below(j) /\ Below(j) \cup {j} \in SUBSET Below(i)
    <3>1. \A x \in S : x \in Nat
      OBVIOUS
    <3>2. \A x \in S : x < j => x < i
      BY <1>4, <3>1
    <3>3. ~(j < j)
      BY <3>1
    <3> QED
      BY <1>4, <3>2, <3>3
  <2> HIDE DEF Below, n
  <2>2. /\ IsFiniteSet(Below(j)) /\ Cardinality(Below(j)) \in Nat
        /\ IsFiniteSet(Below(i)) /\ Cardinality(Below(i)) \in Nat
    BY <1>2
  <2>3. Cardinality(Below(j) \cup {j}) = Cardinality(Below(j)) + 1
    BY <2>1, <2>2, FS_AddElement
  <2>4. Cardinality(Below(j) \cup {j}) <= Cardinality(Below(i))
    BY <2>1, <2>2, FS_Subset
  <2>5. f[j] = Cardinality(Below(j)) /\ f[i] = Cardinality(Below(i))
    OBVIOUS
  <2> QED
    BY <2>2, <2>3, <2>4, <2>5
<1>5. f \in Injection(S, 0..(n - 1))
  <2> HIDE DEF f, n
  <2>1. ASSUME NEW i \in S, NEW j \in S, f[i] = f[j]
        PROVE  i = j
    <3>1. f[i] \in Int /\ i \in Nat /\ j \in Nat
      BY <1>1, <1>3
    <3>2. ~(i < j) /\ ~(j < i)
      BY <1>4, <2>1, <3>1
    <3> QED
      BY <3>1, <3>2
  <2> QED
    BY <1>3, <2>1 DEF Injection, IsInjective
<1>6. IsFiniteSet(0..(n - 1)) /\ Cardinality(0..(n - 1)) = n
  <2> HIDE DEF n
  <2>1. 0 \in Int /\ n - 1 \in Int /\ ~(0 > n - 1) /\ (n - 1) - 0 + 1 = n
    BY <1>1
  <2> QED
    BY <2>1, FS_Interval
<1>7. f \in Surjection(S, 0..(n - 1))
  <2> HIDE DEF f
  <2> QED
    BY <1>5, <1>6, FS_Injection
<1>8. PICK i \in S : f[i] = r - 1
  <2> HIDE DEF f, n
  <2> QED
    BY <1>1, <1>7 DEF Surjection
<1> QED
  BY <1>8

Increasing(s) == \A p, q \in 1..Len(s) : p < q => s[p] < s[q]

LEMMA InOrderIncreases ==
    ASSUME NEW n \in Nat, NEW S \in SUBSET (1..n)
    PROVE  InOrder(S) \in Seq(S) /\ Increasing(InOrder(S))
<1> DEFINE m == Cardinality(S)
           Below(i) == {j \in S : j < i}
           s == InOrder(S)
<1>1. IsFiniteSet(1..n) /\ S \subseteq Nat
  BY FS_Interval
<1>2. IsFiniteSet(S) /\ m \in Nat
  BY <1>1, FS_Subset, FS_CardinalityType
<1> DEFINE At(r) == CHOOSE k \in S : Cardinality(Below(k)) = r - 1
<1>3. ASSUME NEW r \in 1..m
      PROVE  At(r) \in S /\ Cardinality(Below(At(r))) = r - 1
  <2>1. \E k \in S : Cardinality(Below(k)) = r - 1
    BY <1>1, <1>2, EveryPlaceTaken
  <2> HIDE DEF Below
  <2> QED
    BY <2>1
<1>4. s = [r \in 1..m |-> At(r)]
  BY DEF InOrder
<1> HIDE DEF s, m, At
<1>5. s \in [1..m -> S] /\ \A r \in 1..m : s[r] = At(r)
  BY <1>3, <1>4
<1>6. s \in Seq(S) /\ Len(s) = m
  BY <1>2, <1>5
<1>7. ASSUME NEW p \in 1..m, NEW q \in 1..m, p < q
      PROVE  s[p] < s[q]
  <2>1. /\ s[p] \in S /\ Cardinality(Below(s[p])) = p - 1
        /\ s[q] \in S /\ Cardinality(Below(s[q])) = q - 1
    BY <1>3, <1>5
  <2>2. s[p] \in Nat /\ s[q] \in Nat
    BY <1>1, <2>1
  <2>3. SUFFICES ASSUME s[q] <= s[p]
                 PROVE  FALSE
    BY <2>2
  <2>4. Below(s[q]) \in SUBSET Below(s[p]) /\ Below(s[p]) \in SUBSET S
    <3>1. \A x \in S : x \in Nat
      BY <1>1
    <3>2. \A x \in S : x < s[q] => x < s[p]
      BY <2>2, <2>3, <3>1
    <3> QED
      BY <3>2
  <2>5. Cardinality(Below(s[q])) <= Cardinality(Below(s[p]))
    <3> HIDE DEF Below
    <3> QED
      BY <1>2, <2>4, FS_Subset
  <2> HIDE DEF Below
  <2>6. q - 1 <= p - 1
    BY <2>1, <2>5
  <2> QED
    BY <1>2, <1>7, <2>6
<1> QED
  BY <1>6, <1>7 DEF Increasing, s

LEMMA Partition ==
    ASSUME NEW sc \in Scenarios
    PROVE  LET I == Intercepted(sc.configs)
               P == PassedThrough(sc.configs)
           IN  /\ I \in Seq(Nat) /\ P \in Seq(Nat) /\ Increasing(I) /\ Increasing(P)
               /\ \A p \in 1..Len(I), q \in 1..Len(P) : I[p] # P[q]
               /\ P # << >> => Len(P) = N
<1> DEFINE C == sc.configs
           A == {k \in DOMAIN C : ShouldIntercept(C[k].url)}
           B == {k \in DOMAIN C : ~ShouldIntercept(C[k].url)}
           I == Intercepted(C)
           P == PassedThrough(C)
<1>1. Len(C) \in Nat /\ DOMAIN C = 1..Len(C) /\ Len(P) \in {0, N}
  BY ScenariosAssumption
<1>2. A \in SUBSET (1..Len(C)) /\ B \in SUBSET (1..Len(C)) /\ I = InOrder(A) /\ P = InOrder(B)
  BY <1>1 DEF Intercepted, PassedThrough
<1>3. \A a \in A : a \notin B
  OBVIOUS
<1> HIDE DEF A, B, I, P, C
<1>4. I \in Seq(A) /\ P \in Seq(B) /\ Increasing(I) /\ Increasing(P)
  BY <1>1, <1>2, InOrderIncreases
<1>5. A \subseteq Nat /\ B \subseteq Nat
  BY <1>1, <1>2
<1>6. I \in Seq(Nat) /\ P \in Seq(Nat)
  BY <1>4, <1>5, SeqMonotonic
<1>7. \A p \in 1..Len(I), q \in 1..Len(P) : I[p] \in A /\ P[q] \in B
  BY <1>4
<1>8. P # << >> => Len(P) = N
  BY <1>1, <1>6
<1> QED
  BY <1>3, <1>4, <1>6, <1>7, <1>8 DEF I, P, C

MockDue == Intercepted(scenario.configs) \o ConfigsOf(delivered)
MockKept == got \o buffered
Taken == Len(Intercepted(scenario.configs)) - Len(pending_mocks)

-----------------------------------------------------------------------------
LEMMA OrderedIsDistinct ==
    ASSUME NEW S, NEW s \in Seq(S), NEW c \in Seq(S), Ordered(s, c), ToSet(s) \subseteq ToSet(c)
    PROVE  Distinct(s)
<1> SUFFICES ASSUME NEW j \in 1..Len(s), NEW k \in 1..Len(s), s[j] = s[k], j # k
             PROVE  FALSE
  BY DEF Distinct
<1>1. PICK p \in 1..Len(c) : c[p] = s[j]
  BY ElementsOf
<1>2. j < k \/ k < j
  OBVIOUS
<1>3. p < p
  BY <1>1, <1>2 DEF Ordered
<1> QED
  BY <1>3

LEMMA JoinedIndex ==
    ASSUME NEW S, NEW s \in Seq(S), NEW t \in Seq(S)
    PROVE  /\ s \o t \in Seq(S) /\ Len(s \o t) = Len(s) + Len(t)
           /\ Len(s) \in Nat /\ Len(t) \in Nat
           /\ \A k \in 1..Len(s) : (s \o t)[k] = s[k]
           /\ \A k \in 1..Len(t) : (s \o t)[Len(s) + k] = t[k]
           /\ \A k \in 1..(Len(s) + Len(t)) :
                 k \in 1..Len(s) \/ (k - Len(s) \in 1..Len(t) /\ k = Len(s) + (k - Len(s)))
  OBVIOUS

\* What is new goes last in both, or in the one only.
LEMMA TogetherKeepOrder ==
    ASSUME NEW S, NEW s \in Seq(S), NEW c \in Seq(S), NEW u \in Seq(S),
           Ordered(s, c), ToSet(s) \subseteq ToSet(c), Distinct(c \o u)
    PROVE  /\ Ordered(s \o u, c \o u)
           /\ Ordered(s, c \o u)
           /\ ToSet(c) \cap ToSet(u) = {}
<1> DEFINE a == s \o u
           d == c \o u
           m == Len(s)
           n == Len(c)
           l == Len(u)
<1>1. /\ Len(a) = m + l /\ Len(d) = n + l /\ m \in Nat /\ n \in Nat /\ l \in Nat
      /\ (\A k \in 1..m : a[k] = s[k]) /\ (\A k \in 1..l : a[m + k] = u[k])
      /\ (\A k \in 1..n : d[k] = c[k]) /\ (\A k \in 1..l : d[n + k] = u[k])
  BY JoinedIndex
<1>2. \A p, q \in 1..(n + l) : d[p] = d[q] => p = q
  BY <1>1 DEF Distinct
<1> HIDE DEF a, d, m, n, l
<1>3. ASSUME NEW k \in 1..m
      PROVE  \E p \in 1..n : c[p] = s[k]
  BY <1>3, ElementsOf DEF m, n
\* Whatever equals an element of s in d is one of c, and of u one of u.
<1>4. ASSUME NEW k \in 1..m, NEW p \in 1..(n + l), d[p] = s[k]
      PROVE  p \in 1..n /\ c[p] = s[k]
  <2>1. PICK q \in 1..n : c[q] = s[k]
    BY <1>3
  <2>2. q \in 1..(n + l) /\ d[q] = s[k]
    BY <1>1, <2>1
  <2>3. p = q
    BY <1>2, <1>4, <2>2
  <2> QED
    BY <2>1, <2>3
<1>5. ASSUME NEW k \in 1..l, NEW p \in 1..(n + l), d[p] = u[k]
      PROVE  p = n + k
  <2>1. n + k \in 1..(n + l) /\ d[n + k] = u[k]
    BY <1>1
  <2> QED
    BY <1>2, <1>5, <2>1
<1>6. ASSUME NEW j \in 1..m, NEW k \in 1..m, NEW p \in 1..(n + l), NEW q \in 1..(n + l),
             j < k, s[j] = d[p], s[k] = d[q]
      PROVE  p < q
  <2>1. p \in 1..n /\ c[p] = s[j] /\ q \in 1..n /\ c[q] = s[k]
    BY <1>4, <1>6
  <2> QED
    BY <1>6, <2>1 DEF Ordered, m, n
<1>7. Ordered(s, d)
  BY <1>1, <1>6 DEF Ordered, m
<1>8. ASSUME NEW j \in 1..(m + l), NEW k \in 1..(m + l), NEW p \in 1..(n + l),
             NEW q \in 1..(n + l), j < k, a[j] = d[p], a[k] = d[q]
      PROVE  p < q
  <2>1. CASE k \in 1..m
    <3>1. j \in 1..m
      BY <1>1, <1>8, <2>1
    <3> QED
      BY <1>1, <1>6, <1>8, <2>1, <3>1
  <2>2. CASE k \notin 1..m
    <3>1. k - m \in 1..l /\ m + (k - m) = k
      BY <1>1, <2>2
    <3>2. q = n + (k - m)
      <4>1. a[k] = u[k - m]
        BY <1>1, <3>1
      <4> QED
        BY <1>5, <1>8, <3>1, <4>1
    <3>3. CASE j \in 1..m
      <4>1. p \in 1..n
        BY <1>1, <1>4, <1>8, <3>3
      <4> QED
        BY <1>1, <3>1, <3>2, <4>1
    <3>4. CASE j \notin 1..m
      <4>1. j - m \in 1..l /\ m + (j - m) = j
        BY <1>1, <3>4
      <4>2. p = n + (j - m)
        <5>1. a[j] = u[j - m]
          BY <1>1, <4>1
        <5> QED
          BY <1>5, <1>8, <4>1, <5>1
      <4> QED
        BY <1>1, <1>8, <3>1, <3>2, <4>1, <4>2
    <3> QED
      BY <3>3, <3>4
  <2> QED
    BY <2>1, <2>2
<1>9. Ordered(a, d)
  BY <1>1, <1>8 DEF Ordered
<1>10. ASSUME NEW e \in ToSet(c), e \in ToSet(u)
       PROVE  FALSE
  <2>1. PICK p \in 1..n : c[p] = e
    BY <1>10, ElementsOf DEF n
  <2>2. PICK k \in 1..l : u[k] = e
    BY <1>10, ElementsOf DEF l
  <2>3. p \in 1..(n + l) /\ d[p] = u[k]
    BY <1>1, <2>1, <2>2
  <2> QED
    BY <1>1, <1>5, <2>3
<1> QED
  BY <1>7, <1>9, <1>10 DEF a, d

\* The next in line goes last.
LEMMA NextKeepsOrder ==
    ASSUME NEW S, NEW s \in Seq(S), NEW c \in Seq(S), Ordered(s, c), Distinct(c),
           NEW t \in 1..Len(c),
           \A k \in 1..Len(s) : \E p \in 1..(t - 1) : c[p] = s[k]
    PROVE  Ordered(Append(s, c[t]), c)
<1> DEFINE a == Append(s, c[t])
           m == Len(s)
<1>1. /\ Len(a) = m + 1 /\ m \in Nat /\ (\A k \in 1..m : a[k] = s[k]) /\ a[m + 1] = c[t]
      /\ Len(c) \in Nat
  OBVIOUS
<1> HIDE DEF a, m
<1>2. ASSUME NEW j \in 1..(m + 1), NEW k \in 1..(m + 1), NEW p \in 1..Len(c), NEW q \in 1..Len(c),
             j < k, a[j] = c[p], a[k] = c[q]
      PROVE  p < q
  <2>1. j \in 1..m /\ a[j] = s[j]
    BY <1>1, <1>2
  <2>2. CASE k \in 1..m
    BY <1>1, <1>2, <2>1, <2>2 DEF Ordered, m
  <2>3. CASE k = m + 1
    <3>1. q = t
      BY <1>1, <1>2, <2>3 DEF Distinct
    <3>2. PICK r \in 1..(t - 1) : c[r] = s[j]
      BY <2>1 DEF m
    <3>3. r \in 1..Len(c) /\ r < t
      BY <1>1
    <3>4. p = r
      BY <1>2, <2>1, <3>2, <3>3 DEF Distinct
    <3> QED
      BY <3>1, <3>3, <3>4
  <2> QED
    BY <1>1, <2>2, <2>3
<1> QED
  BY <1>1, <1>2 DEF Ordered, a

-----------------------------------------------------------------------------
\* The real client's batch is the excluded configs.
LEMMA ConfigsAre ==
    ASSUME scenario \in Scenarios, NEW d \in Seq(Requests), PassthroughIter \/ d = << >>
    PROVE  /\ ConfigsOf(d) \in Seq(Nat) /\ Len(ConfigsOf(d)) = Len(d)
           /\ \A k \in 1..Len(d) : d[k] \in 1..Len(PassedThrough(scenario.configs))
                                   /\ ConfigsOf(d)[k] = PassedThrough(scenario.configs)[d[k]]
<1> DEFINE P == PassedThrough(scenario.configs)
<1>1. P \in Seq(Nat) /\ (P # << >> => Len(P) = N)
  BY Partition
<1>2. ConfigsOf(d) = [k \in 1..Len(d) |-> P[d[k]]] /\ Len(d) \in Nat
  BY DEF ConfigsOf
<1>3. P # << >> \/ d = << >>
  BY DEF PassthroughIter
<1> HIDE DEF P
<1>4. \A k \in 1..Len(d) : d[k] \in 1..Len(P)
  BY <1>1, <1>3 DEF Requests
<1>5. \A k \in 1..Len(d) : P[d[k]] \in Nat
  BY <1>1, <1>4
<1>6. [k \in 1..Len(d) |-> P[d[k]]] \in Seq(Nat)
  BY <1>2, <1>5
<1> QED
  BY <1>2, <1>4, <1>6 DEF P

LEMMA ConfigsConcat ==
    ASSUME scenario \in Scenarios, NEW d \in Seq(Requests), NEW b \in Seq(Requests),
           PassthroughIter
    PROVE  ConfigsOf(d \o b) = ConfigsOf(d) \o ConfigsOf(b)
<1> DEFINE x == ConfigsOf(d \o b)
           y == ConfigsOf(d)
           z == ConfigsOf(b)
           P == PassedThrough(scenario.configs)
<1>1. /\ d \o b \in Seq(Requests) /\ Len(d \o b) = Len(d) + Len(b)
      /\ Len(d) \in Nat /\ Len(b) \in Nat
      /\ \A k \in 1..Len(d) : (d \o b)[k] = d[k]
      /\ \A k \in 1..Len(b) : (d \o b)[Len(d) + k] = b[k]
  BY JoinedIndex
<1>2. /\ x \in Seq(Nat) /\ Len(x) = Len(d) + Len(b)
      /\ \A k \in 1..(Len(d) + Len(b)) : x[k] = P[(d \o b)[k]]
  <2> DEFINE e == d \o b
  <2>1. e \in Seq(Requests) /\ Len(e) = Len(d) + Len(b)
    BY <1>1
  <2> HIDE DEF e
  <2>2. /\ ConfigsOf(e) \in Seq(Nat) /\ Len(ConfigsOf(e)) = Len(e)
        /\ \A k \in 1..Len(e) : ConfigsOf(e)[k] = P[e[k]]
    BY <2>1, ConfigsAre
  <2> QED
    BY <2>1, <2>2 DEF e
<1>3. y \in Seq(Nat) /\ Len(y) = Len(d) /\ \A k \in 1..Len(d) : y[k] = P[d[k]]
  BY ConfigsAre
<1>4. z \in Seq(Nat) /\ Len(z) = Len(b) /\ \A k \in 1..Len(b) : z[k] = P[b[k]]
  BY ConfigsAre
<1> HIDE DEF x, y, z, P
<1>5. /\ y \o z \in Seq(Nat) /\ Len(y \o z) = Len(d) + Len(b)
      /\ \A k \in 1..Len(d) : (y \o z)[k] = y[k]
      /\ \A k \in 1..Len(b) : (y \o z)[Len(d) + k] = z[k]
  <2>0. y \in Seq(Nat) /\ z \in Seq(Nat)
    BY <1>3, <1>4
  <2>1. /\ y \o z \in Seq(Nat) /\ Len(y \o z) = Len(y) + Len(z)
        /\ \A k \in 1..Len(y) : (y \o z)[k] = y[k]
        /\ \A k \in 1..Len(z) : (y \o z)[Len(y) + k] = z[k]
    BY <2>0
  <2>2. Len(y) = Len(d) /\ Len(z) = Len(b)
    BY <1>3, <1>4
  <2> QED
    BY <2>1, <2>2, Zenon
<1> DEFINE e == d \o b
           w == y \o z
<1>0. /\ \A k \in 1..Len(d) : e[k] = d[k] /\ w[k] = y[k]
      /\ \A k \in 1..Len(b) : e[Len(d) + k] = b[k] /\ w[Len(d) + k] = z[k]
      /\ \A k \in 1..(Len(d) + Len(b)) : x[k] = P[e[k]]
  BY <1>1, <1>2, <1>5
<1> HIDE DEF e, w
<1>6. ASSUME NEW k \in 1..(Len(d) + Len(b))
      PROVE  x[k] = w[k]
  <2>1. CASE k \in 1..Len(d)
    BY <1>0, <1>3, <2>1, ZenonT(40)
  <2>2. CASE k \notin 1..Len(d)
    <3>1. k - Len(d) \in 1..Len(b) /\ Len(d) + (k - Len(d)) = k
      BY <1>1, <2>2
    <3>2. e[k] = b[k - Len(d)] /\ w[k] = z[k - Len(d)]
      BY <1>0, <3>1
    <3> QED
      BY <1>0, <1>4, <3>1, <3>2
  <2> QED
    BY <2>1, <2>2
<1>7. x = y \o z
  <2>1. w \in Seq(Nat) /\ Len(w) = Len(x) /\ \A k \in 1..Len(x) : x[k] = w[k]
    BY <1>2, <1>5, <1>6 DEF w
  <2> QED
    BY <1>2, <2>1, SeqEqual DEF w
<1> QED
  BY <1>7 DEF x, y, z

LEMMA DeliveredDistinct ==
    ASSUME IInv
    PROVE  delivered \in Seq(Requests) /\ Distinct(delivered)
<1>1. /\ delivered \in Seq(Requests) /\ batch \in Seq(Requests) /\ channel \in Seq(Requests)
      /\ completed \in Seq(Requests)
  BY DEF IInv, Typed
<1>2. Kept \in Seq(Requests) /\ Len(Kept) >= Len(delivered) /\ Len(Kept) \in Nat
      /\ \A k \in 1..Len(delivered) : Kept[k] = delivered[k]
  BY <1>1 DEF Kept
<1>3. Distinct(Kept)
  BY <1>1, <1>2, OrderedIsDistinct DEF IInv, InLine
<1>4. Distinct(delivered)
  BY <1>1, <1>2, <1>3 DEF Distinct
<1> QED
  BY <1>1, <1>4

\* Each config is due once.
LEMMA DueDistinct ==
    ASSUME IInv, scenario \in Scenarios, PassthroughIter \/ delivered = << >>
    PROVE  /\ Intercepted(scenario.configs) \in Seq(Nat) /\ ConfigsOf(delivered) \in Seq(Nat)
           /\ MockDue \in Seq(Nat) /\ Distinct(MockDue)
<1> DEFINE I == Intercepted(scenario.configs)
           P == PassedThrough(scenario.configs)
           C == ConfigsOf(delivered)
           d == delivered
<1>1. /\ I \in Seq(Nat) /\ P \in Seq(Nat) /\ Increasing(I) /\ Increasing(P)
      /\ \A p \in 1..Len(I), q \in 1..Len(P) : I[p] # P[q]
  BY Partition
<1>2. d \in Seq(Requests) /\ Distinct(d)
  BY DeliveredDistinct
<1>3. /\ C \in Seq(Nat) /\ Len(C) = Len(d)
      /\ \A k \in 1..Len(d) : d[k] \in 1..Len(P) /\ C[k] = P[d[k]]
  BY <1>2, ConfigsAre
<1>0. MockDue = I \o C
  BY DEF MockDue
<1> HIDE DEF I, P, C, d
<1>4. /\ MockDue \in Seq(Nat) /\ Len(MockDue) = Len(I) + Len(C) /\ Len(I) \in Nat /\ Len(C) \in Nat
      /\ \A k \in 1..Len(I) : MockDue[k] = I[k]
      /\ \A k \in 1..Len(C) : MockDue[Len(I) + k] = C[k]
  <2>1. I \in Seq(Nat) /\ C \in Seq(Nat)
    BY <1>1, <1>3
  <2> QED
    BY <1>0, <2>1
<1>5. \A p, q \in 1..Len(P) : P[p] = P[q] => p = q
  <2>1. \A p \in 1..Len(P) : P[p] \in Nat /\ p \in Nat
    BY <1>1
  <2>2. \A p, q \in 1..Len(P) : p < q => P[p] < P[q]
    BY <1>1 DEF Increasing
  <2> QED
    BY <2>1, <2>2
<1>6. \A p, q \in 1..Len(I) : I[p] = I[q] => p = q
  <2>1. \A p \in 1..Len(I) : I[p] \in Nat /\ p \in Nat
    BY <1>1
  <2>2. \A p, q \in 1..Len(I) : p < q => I[p] < I[q]
    BY <1>1 DEF Increasing
  <2> QED
    BY <2>1, <2>2
<1>7. \A p, q \in 1..Len(C) : C[p] = C[q] => p = q
  BY <1>2, <1>3, <1>5 DEF Distinct
<1>8. \A p \in 1..Len(I), q \in 1..Len(C) : I[p] # C[q]
  BY <1>1, <1>3
<1>9. ASSUME NEW p \in 1..(Len(I) + Len(C)), NEW q \in 1..(Len(I) + Len(C)),
             MockDue[p] = MockDue[q]
      PROVE  p = q
  <2>1. ASSUME NEW k \in 1..(Len(I) + Len(C)), k \notin 1..Len(I)
        PROVE  k - Len(I) \in 1..Len(C) /\ MockDue[k] = C[k - Len(I)] /\ k \in Nat
    <3>1. k - Len(I) \in 1..Len(C) /\ Len(I) + (k - Len(I)) = k /\ k \in Nat
      BY <1>4, <2>1
    <3> QED
      BY <1>4, <3>1
  <2>2. CASE p \in 1..Len(I) /\ q \in 1..Len(I)
    BY <1>4, <1>6, <1>9, <2>2
  <2>3. CASE p \in 1..Len(I) /\ q \notin 1..Len(I)
    BY <1>4, <1>8, <1>9, <2>1, <2>3
  <2>4. CASE p \notin 1..Len(I) /\ q \in 1..Len(I)
    BY <1>4, <1>8, <1>9, <2>1, <2>4, ZenonT(40)
  <2>5. CASE p \notin 1..Len(I) /\ q \notin 1..Len(I)
    <3>1. p - Len(I) = q - Len(I)
      BY <1>7, <1>9, <2>1, <2>5
    <3> QED
      BY <1>4, <2>1, <2>5, <3>1
  <2> QED
    BY <2>2, <2>3, <2>4, <2>5
<1>10. Distinct(MockDue)
  BY <1>4, <1>9 DEF Distinct
<1> QED
  BY <1>1, <1>3, <1>4, <1>10 DEF I, C

-----------------------------------------------------------------------------
(***************************************************************************)
(* The inductive invariant of the mock's iterator, over that of the stream. *)
(* The intercepted configs are taken in turn, the last one taken being the  *)
(* one whose callback is awaited.  Until they are all answered the real     *)
(* stream is not touched; afterwards it moves only for a call of its        *)
(* __anext__, ours or an abandoned one.                                     *)
(***************************************************************************)
MockTyped ==
    /\ scenario \in Scenarios
    /\ mock \in {"idle", "callback", "pulling", "stopped"}
    /\ abandoned \in Nat
    /\ pending_mocks \in Seq(Nat) /\ got \in Seq(Nat) /\ buffered \in Seq(Nat)

InTurn ==
    /\ Len(pending_mocks) <= Len(Intercepted(scenario.configs))
    /\ \A k \in 1..Len(pending_mocks) :
          pending_mocks[k] = Intercepted(scenario.configs)[Taken + k]
    /\ mock = "callback" => Taken >= 1 /\ entry = Intercepted(scenario.configs)[Taken]
    /\ mock # "callback" => entry = None

PullsAfter ==
    ~scenario.direct =>
    /\ (pending_mocks # << >> \/ mock = "callback") =>
          consumer = "idle" /\ delivered = << >> /\ buffered = << >> /\ abandoned = 0
    /\ consumer \in {"loop", "next"} => abandoned > 0 \/ mock = "pulling"
    /\ (abandoned > 0 \/ mock = "pulling") => PassthroughIter /\ pending_mocks = << >>
    /\ mock = "pulling" => buffered = << >>
    /\ ~PassthroughIter => consumer = "idle" /\ delivered = << >>
    /\ exhausted => mock = "stopped"

MockEnds ==
    /\ scenario.direct => mock \in {"idle", "callback"}
    /\ mock = "stopped" =>
          pending_mocks = << >> /\ buffered = << >> /\ (PassthroughIter => consumer = "stopped")

MockLine ==
    ~scenario.direct =>
    /\ ToSet(MockKept) = ToSet(MockDue) \ (ToSet(pending_mocks) \cup dropped \cup {entry})
    /\ Ordered(MockKept, MockDue)
    /\ dropped \subseteq ToSet(MockDue)
    /\ dropped \cap (ToSet(pending_mocks) \cup {entry}) = {}

MockInv == IInv /\ MockTyped /\ InTurn /\ PullsAfter /\ MockEnds /\ MockLine

-----------------------------------------------------------------------------
(* The stream under the mock.                                                *)

LEMMA StreamSteps ==
    ASSUME [MockNext]_mockVars
    PROVE  [Next]_vars \/ CancelMock
<1>1. CASE \E h \in scenario.registrable : AddHandler(h)
  BY <1>1 DEF AddHandler
<1>2. CASE MockIterate
  BY <1>2 DEF MockIterate, DrainBuffered, DispatchMock, CallbackReturns, Pull, PullStops
<1>3. CASE ChunkArrives \/ RealEnds
  <2>1. Iterate
    BY <1>3 DEF ChunkArrives, RealEnds, Iterate
  <2> QED
    BY <2>1 DEF Next
<1>4. CASE CancelMock
  BY <1>4
<1>5. CASE RealDriver
  <2>1. Driver
    BY <1>5 DEF RealDriver
  <2> QED
    BY <2>1 DEF Next
<1>6. CASE RealPoll \/ DirectIterate
  <2>1. Iterate
    BY <1>6 DEF RealPoll, DirectIterate, Iterate
  <2> QED
    BY <2>1 DEF Next
<1>7. CASE Meanwhile
  <2>1. Elapse \/ CancelAnext \/ DropIterator
    BY <1>7 DEF Meanwhile
  <2> QED
    BY <2>1 DEF Next
<1>8. ASSUME NEW i \in Requests, RealTask(i)
      PROVE  [Next]_vars \/ CancelMock
  <2>1. Task(i)
    BY <1>8 DEF RealTask
  <2> QED
    BY <2>1 DEF Next
<1>9. CASE Request
  BY <1>9 DEF Request, Delegate, RequestDispatch, RequestCallbackReturns
<1>10. CASE UNCHANGED mockVars
  BY <1>10 DEF mockVars
<1> QED
  BY <1>1, <1>2, <1>3, <1>4, <1>5, <1>6, <1>7, <1>8, <1>9, <1>10 DEF MockNext

LEMMA CancelMockRests ==
    ASSUME CancelMock
    PROVE  UNCHANGED <<driver, next, task, permits, channel, consumer, batch, delivered,
                       completed, lost>>
  BY DEF CancelMock, producerVars

LEMMA StreamStep ==
    ASSUME IInv, [MockNext]_mockVars
    PROVE  IInv'
  BY StreamSteps, NextIInv, CancelMockRests, StutterStep

LEMMA MockInitStream == MockInit => Init
  BY DEF MockInit

LEMMA StreamUnderMock == MockSpec => []IInv
  BY MockInitStream, InitIInv, StreamStep, PTL DEF MockSpec

\* The real client's results reach its caller, the mock or Python, in the order
\* of completion, each once, whatever the mock does with them.
THEOREM StreamOrderUnderMock == MockSpec => []CompletionOrder
  BY StreamUnderMock, CompletionFollows, PTL

\* Under the mock too the stream implements BoundedDispatch: a cancelled call of
\* the mock's iterator is no step of the real client's.
THEOREM PromiseKeptUnderMock == MockSpec => PromiseKept
<1>1. IInv /\ IInv' /\ [MockNext]_mockVars => [Promise!Next]_(Promise!vars)
  <2> SUFFICES ASSUME IInv, IInv', [MockNext]_mockVars
               PROVE  [Promise!Next]_(Promise!vars)
    OBVIOUS
  <2>1. CASE [Next]_vars
    BY <2>1, StepRefines
  <2>2. CASE CancelMock
    BY <2>2, CancelMockRests DEF Promise!vars, Phase
  <2> QED
    BY <2>1, <2>2, StreamSteps
<1> QED
  BY <1>1, MockInitStream, InitRefines, StreamUnderMock, PTL DEF MockSpec, PromiseKept, Promise!Spec

-----------------------------------------------------------------------------
(* The mock's iterator, step by step.                                        *)

LEMMA SameScenario ==
    ASSUME scenario' = scenario
    PROVE  /\ Intercepted(scenario.configs)' = Intercepted(scenario.configs)
           /\ PassthroughIter' = PassthroughIter
           /\ scenario.direct' = scenario.direct
           /\ delivered' = delivered => MockDue' = MockDue
<1>1. /\ Intercepted(scenario.configs)' = Intercepted(scenario.configs)
      /\ PassedThrough(scenario.configs)' = PassedThrough(scenario.configs)
  OBVIOUS
<1> QED
  BY <1>1 DEF PassthroughIter, MockDue, ConfigsOf

LEMMA LineTypes ==
    ASSUME MockInv, ~scenario.direct
    PROVE  MockDue \in Seq(Nat) /\ Distinct(MockDue) /\ MockKept \in Seq(Nat)
<1>1. scenario \in Scenarios /\ (PassthroughIter \/ delivered = << >>) /\ IInv
  BY DEF MockInv, MockTyped, PullsAfter
<1>2. MockDue \in Seq(Nat) /\ Distinct(MockDue)
  BY <1>1, DueDistinct
<1>3. MockKept \in Seq(Nat)
  BY DEF MockInv, MockTyped, MockKept
<1> QED
  BY <1>2, <1>3

\* What is left of a list are its last elements.
IsRest(w, I, t) ==
    Len(w) <= Len(I) /\ t = Len(I) - Len(w) /\ \A k \in 1..Len(w) : w[k] = I[t + k]

LEMMA LeftOver ==
    ASSUME NEW I \in Seq(Nat), NEW w \in Seq(Nat), NEW t, IsRest(w, I, t)
    PROVE  /\ Len(I) \in Nat /\ Len(w) \in Nat /\ t \in Nat /\ t + Len(w) = Len(I)
           /\ \A x : x \in ToSet(w) <=> \E p \in (t + 1)..Len(I) : I[p] = x
<1>1. Len(I) \in Nat /\ Len(w) \in Nat /\ t \in Nat /\ t + Len(w) = Len(I)
  BY DEF IsRest
<1>2. ASSUME NEW x
      PROVE  (\E k \in 1..Len(w) : w[k] = x) <=> \E p \in (t + 1)..Len(I) : I[p] = x
  <2>1. ASSUME NEW k \in 1..Len(w), w[k] = x
        PROVE  \E p \in (t + 1)..Len(I) : I[p] = x
    <3>1. t + k \in (t + 1)..Len(I) /\ I[t + k] = x
      BY <1>1, <2>1 DEF IsRest
    <3> QED
      BY <3>1
  <2>2. ASSUME NEW p \in (t + 1)..Len(I), I[p] = x
        PROVE  \E k \in 1..Len(w) : w[k] = x
    <3>1. p - t \in 1..Len(w) /\ t + (p - t) = p
      BY <1>1
    <3>2. w[p - t] = x
      BY <2>2, <3>1 DEF IsRest
    <3> QED
      BY <3>1, <3>2
  <2> QED
    BY <2>1, <2>2
<1>3. \A x : x \in ToSet(w) <=> \E k \in 1..Len(w) : w[k] = x
  BY ElementsOf
<1> QED
  BY <1>1, <1>2, <1>3

\* What is pending is what is left of the intercepted configs.
LEMMA PendingAre ==
    ASSUME MockTyped, InTurn
    PROVE  LET I == Intercepted(scenario.configs)
           IN  /\ I \in Seq(Nat) /\ Distinct(I)
               /\ Taken \in Nat /\ Taken + Len(pending_mocks) = Len(I)
               /\ Len(pending_mocks) \in Nat /\ Len(I) \in Nat
               /\ \A x : x \in ToSet(pending_mocks) <=> \E p \in (Taken + 1)..Len(I) : I[p] = x
<1> DEFINE I == Intercepted(scenario.configs)
           w == pending_mocks
           t == Taken
<1>1. I \in Seq(Nat) /\ Increasing(I)
  BY Partition DEF MockTyped
<1>2. w \in Seq(Nat) /\ IsRest(w, I, t)
  BY DEF MockTyped, InTurn, Taken, IsRest
<1> HIDE DEF I, w, t
<1>3. Distinct(I)
  <2>1. \A p \in 1..Len(I) : I[p] \in Nat /\ p \in Nat
    BY <1>1
  <2>2. \A p, q \in 1..Len(I) : p < q => I[p] < I[q]
    BY <1>1 DEF Increasing
  <2> QED
    BY <2>1, <2>2 DEF Distinct
<1>4. /\ Len(I) \in Nat /\ Len(w) \in Nat /\ t \in Nat /\ t + Len(w) = Len(I)
      /\ \A x : x \in ToSet(w) <=> \E p \in (t + 1)..Len(I) : I[p] = x
  BY <1>1, <1>2, LeftOver
<1> QED
  BY <1>1, <1>3, <1>4 DEF I, w, t

\* While intercepted configs are under way, they are all that is due.
LEMMA Undelivered ==
    ASSUME MockInv, ~scenario.direct, pending_mocks # << >> \/ mock = "callback"
    PROVE  MockDue = Intercepted(scenario.configs) /\ MockKept = got /\ buffered = << >>
<1>1. delivered = << >> /\ buffered = << >> /\ got \in Seq(Nat) /\ scenario \in Scenarios
  BY DEF MockInv, PullsAfter, MockTyped
<1>2. Intercepted(scenario.configs) \in Seq(Nat)
  BY <1>1, Partition
<1>3. ConfigsOf(delivered) = << >>
  <2>1. << >> \in Seq(Requests) /\ Len(<< >>) = 0
    OBVIOUS
  <2>2. ConfigsOf(delivered) \in Seq(Nat) /\ Len(ConfigsOf(delivered)) = 0
    BY <1>1, <2>1, ConfigsAre
  <2> QED
    BY <2>2
<1>4. MockDue = Intercepted(scenario.configs) \o << >>
  BY <1>3 DEF MockDue
<1>5. MockDue = Intercepted(scenario.configs)
  BY <1>2, <1>4, ConcatEmptySeq
<1>6. MockKept = got
  BY <1>1, ConcatEmptySeq DEF MockKept
<1> QED
  BY <1>1, <1>5, <1>6

\* The next config due is answered: X is what is not to be had, before and after.
LEMMA NextAnswered ==
    ASSUME NEW s \in Seq(Nat), NEW c \in Seq(Nat), Ordered(s, c), Distinct(c),
           NEW X, NEW Y, ToSet(s) = ToSet(c) \ X, NEW t \in 1..Len(c),
           \A p \in t..Len(c) : c[p] \in X,
           \A x \in ToSet(c) : x \in Y <=> x \in X /\ x # c[t]
    PROVE  /\ ToSet(Append(s, c[t])) = ToSet(c) \ Y
           /\ Ordered(Append(s, c[t]), c)
<1>1. Len(c) \in Nat /\ c[t] \in Nat /\ c[t] \in X
  OBVIOUS
<1>2. \A x : x \in ToSet(c) <=> \E k \in 1..Len(c) : c[k] = x
  BY ElementsOf
<1>3. c[t] \in ToSet(c)
  BY <1>2
<1>4. ToSet(Append(s, c[t])) = ToSet(s) \cup {c[t]}
  BY <1>1, ElementsOfAppend
<1>5. ToSet(Append(s, c[t])) = ToSet(c) \ Y
  BY <1>1, <1>3, <1>4
<1>6. ASSUME NEW k \in 1..Len(s)
      PROVE  \E p \in 1..(t - 1) : c[p] = s[k]
  <2>1. s[k] \in ToSet(s)
    BY ElementsOf
  <2>2. s[k] \in ToSet(c) /\ s[k] \notin X
    BY <2>1
  <2>3. PICK p \in 1..Len(c) : c[p] = s[k]
    BY <1>2, <2>2
  <2>4. p \notin t..Len(c)
    BY <2>2, <2>3
  <2>5. p \in 1..(t - 1)
    BY <1>1, <2>4
  <2> QED
    BY <2>3, <2>5
<1>7. Ordered(Append(s, c[t]), c)
  BY <1>6, NextKeepsOrder
<1> QED
  BY <1>5, <1>7

\* The steps that leave the iterator and what is delivered alone.
LEMMA IteratorRests ==
    ASSUME MockInv, IInv', UNCHANGED <<scenario, iterVars>>,
           ~scenario.direct =>
              /\ delivered' = delivered
              /\ \/ consumer' = consumer
                 \/ consumer = "idle" /\ consumer' = "loop" /\ (abandoned > 0 \/ mock = "pulling")
                 \/ consumer \in {"loop", "next"} /\ consumer' \in {"loop", "next"}
    PROVE  MockInv'
<1>1. UNCHANGED <<pending_mocks, buffered, exhausted, mock, entry, got, abandoned, dropped>>
  BY DEF iterVars
<1>2. /\ Intercepted(scenario.configs)' = Intercepted(scenario.configs)
      /\ PassthroughIter' = PassthroughIter /\ scenario' = scenario
      /\ delivered' = delivered => MockDue' = MockDue
  BY SameScenario
<1>3. MockTyped' /\ InTurn'
  <2>1. Taken' = Taken
    BY <1>1, <1>2 DEF Taken
  <2> QED
    BY <1>1, <1>2, <2>1 DEF MockInv, MockTyped, InTurn
<1>4. PullsAfter'
  BY <1>1, <1>2 DEF MockInv, PullsAfter, MockTyped
<1>5. MockEnds'
  <2>1. CASE scenario.direct
    BY <1>1, <1>2, <2>1 DEF MockInv, MockEnds
  <2>2. CASE ~scenario.direct /\ mock = "stopped"
    <3>1. consumer = "stopped" \/ (~PassthroughIter /\ consumer = "idle" /\ abandoned = 0)
      BY <2>2 DEF MockInv, MockEnds, PullsAfter, MockTyped
    <3>2. consumer' = consumer
      BY <2>2, <3>1
    <3> QED
      BY <1>1, <1>2, <2>2, <3>2 DEF MockInv, MockEnds
  <2>3. CASE ~scenario.direct /\ mock # "stopped"
    BY <1>1, <1>2, <2>3 DEF MockInv, MockEnds
  <2> QED
    BY <2>1, <2>2, <2>3
<1>6. MockLine'
  <2>1. CASE scenario.direct
    BY <1>2, <2>1 DEF MockLine
  <2>2. CASE ~scenario.direct
    <3>1. MockDue' = MockDue /\ MockKept' = MockKept
      BY <1>1, <1>2, <2>2 DEF MockKept
    <3> QED
      BY <1>1, <1>2, <2>2, <3>1 DEF MockInv, MockLine
  <2> QED
    BY <2>1, <2>2
<1> QED
  BY <1>3, <1>4, <1>5, <1>6 DEF MockInv

LEMMA DrainKeeps ==
    ASSUME MockInv, IInv', DrainBuffered
    PROVE  MockInv'
<1>1. /\ mock = "idle" /\ buffered # << >> /\ got' = Append(got, Head(buffered))
      /\ buffered' = Tail(buffered)
      /\ UNCHANGED <<scenario, pending_mocks, exhausted, mock, entry, abandoned, dropped>>
      /\ UNCHANGED <<consumer, delivered>>
  BY DEF DrainBuffered, vars
<1>2. /\ Intercepted(scenario.configs)' = Intercepted(scenario.configs)
      /\ PassthroughIter' = PassthroughIter /\ scenario' = scenario /\ MockDue' = MockDue
  BY <1>1, SameScenario
<1>3. got \in Seq(Nat) /\ buffered \in Seq(Nat)
  BY DEF MockInv, MockTyped
<1>4. got' \in Seq(Nat) /\ buffered' \in Seq(Nat) /\ got' \o buffered' = got \o buffered
  <2> DEFINE h == Head(buffered)
             r == Tail(buffered)
  <2>1. buffered = <<h>> \o r /\ h \in Nat /\ r \in Seq(Nat) /\ <<h>> \in Seq(Nat)
    BY <1>1, <1>3
  <2>2. got' = got \o <<h>>
    BY <1>1, <1>3
  <2> HIDE DEF h, r
  <2>3. (got \o <<h>>) \o r = got \o (<<h>> \o r)
    BY <1>3, <2>1, ConcatAssociative
  <2> QED
    BY <1>1, <1>3, <2>1, <2>2, <2>3, SMTT(40) DEF r
<1>5. MockTyped' /\ InTurn'
  <2>1. Taken' = Taken
    BY <1>1, <1>2 DEF Taken
  <2> QED
    BY <1>1, <1>2, <1>4, <2>1 DEF MockInv, MockTyped, InTurn
<1>6. PullsAfter'
  BY <1>1, <1>2 DEF MockInv, PullsAfter
<1>7. MockEnds'
  BY <1>1, <1>2 DEF MockInv, MockEnds
<1>8. MockLine'
  BY <1>1, <1>2, <1>4 DEF MockInv, MockLine, MockKept
<1> QED
  BY <1>5, <1>6, <1>7, <1>8 DEF MockInv

LEMMA PullKeeps ==
    ASSUME MockInv, IInv', Pull
    PROVE  MockInv'
<1>1. /\ mock = "idle" /\ ~scenario.direct /\ buffered = << >> /\ pending_mocks = << >>
      /\ UNCHANGED <<scenario, pending_mocks, buffered, entry, got, abandoned, dropped>>
      /\ UNCHANGED <<consumer, delivered>>
  BY DEF Pull, vars
<1>2. /\ Intercepted(scenario.configs)' = Intercepted(scenario.configs)
      /\ PassthroughIter' = PassthroughIter /\ scenario' = scenario /\ MockDue' = MockDue
  BY <1>1, SameScenario
<1>3. \/ PassthroughIter /\ mock' = "pulling" /\ exhausted' = exhausted
      \/ ~PassthroughIter /\ mock' = "stopped"
  BY <1>1 DEF Pull, MockInv, PullsAfter
<1>4. MockTyped' /\ InTurn'
  <2>1. Taken' = Taken
    BY <1>1, <1>2 DEF Taken
  <2> QED
    BY <1>1, <1>2, <1>3, <2>1 DEF MockInv, MockTyped, InTurn
<1>5. PullsAfter'
  BY <1>1, <1>2, <1>3 DEF MockInv, PullsAfter
<1>6. MockEnds'
  BY <1>1, <1>2, <1>3 DEF MockInv, MockEnds
<1>7. MockLine'
  BY <1>1, <1>2 DEF MockInv, MockLine, MockKept
<1> QED
  BY <1>4, <1>5, <1>6, <1>7 DEF MockInv

LEMMA PullStopsKeeps ==
    ASSUME MockInv, IInv', PullStops
    PROVE  MockInv'
<1>1. /\ mock = "pulling" /\ consumer = "stopped" /\ mock' = "stopped"
      /\ UNCHANGED <<scenario, pending_mocks, buffered, entry, got, abandoned, dropped>>
      /\ UNCHANGED <<consumer, delivered>>
  BY DEF PullStops, vars
<1>2. /\ Intercepted(scenario.configs)' = Intercepted(scenario.configs)
      /\ PassthroughIter' = PassthroughIter /\ scenario' = scenario /\ MockDue' = MockDue
      /\ ~scenario.direct
  BY <1>1, SameScenario DEF MockInv, MockEnds
<1>4. MockTyped' /\ InTurn'
  <2>1. Taken' = Taken
    BY <1>1, <1>2 DEF Taken
  <2> QED
    BY <1>1, <1>2, <2>1 DEF MockInv, MockTyped, InTurn
<1>5. PullsAfter'
  BY <1>1, <1>2 DEF MockInv, PullsAfter
<1>6. MockEnds'
  BY <1>1, <1>2 DEF MockInv, MockEnds, PullsAfter
<1>7. MockLine'
  BY <1>1, <1>2 DEF MockInv, MockLine, MockKept
<1> QED
  BY <1>4, <1>5, <1>6, <1>7 DEF MockInv

LEMMA RealEndsKeeps ==
    ASSUME MockInv, IInv', RealEnds
    PROVE  MockInv'
<1>1. /\ ~scenario.direct /\ consumer = "next" /\ consumer' = "stopped" /\ delivered' = delivered
      /\ abandoned' = 0
      /\ UNCHANGED <<scenario, pending_mocks, buffered, exhausted, mock, entry, got, dropped>>
  BY DEF RealEnds, EndStops
<1>2. /\ Intercepted(scenario.configs)' = Intercepted(scenario.configs)
      /\ PassthroughIter' = PassthroughIter /\ scenario' = scenario /\ MockDue' = MockDue
  BY <1>1, SameScenario
<1>4. MockTyped' /\ InTurn'
  <2>1. Taken' = Taken
    BY <1>1, <1>2 DEF Taken
  <2> QED
    BY <1>1, <1>2, <2>1 DEF MockInv, MockTyped, InTurn
<1>5. PullsAfter'
  BY <1>1, <1>2 DEF MockInv, PullsAfter
<1>6. MockEnds'
  BY <1>1, <1>2 DEF MockInv, MockEnds
<1>7. MockLine'
  BY <1>1, <1>2 DEF MockInv, MockLine, MockKept
<1> QED
  BY <1>4, <1>5, <1>6, <1>7 DEF MockInv

\* The first pending config is taken, and answered or awaited.
LEMMA DispatchKeeps ==
    ASSUME MockInv, IInv', DispatchMock
    PROVE  MockInv'
<1> DEFINE I == Intercepted(scenario.configs)
           w == pending_mocks
           h == Head(pending_mocks)
           t == Taken + 1
<1>1. /\ mock = "idle" /\ buffered = << >> /\ w # << >> /\ w' = Tail(w)
      /\ \/ mock' = "callback" /\ entry' = h /\ got' = got
         \/ got' = Append(got, h) /\ mock' = mock /\ entry' = entry
      /\ UNCHANGED <<scenario, buffered, exhausted, abandoned, dropped>>
      /\ UNCHANGED <<consumer, delivered>>
  BY DEF DispatchMock, vars
<1>2. /\ I' = I /\ PassthroughIter' = PassthroughIter /\ scenario' = scenario
      /\ MockDue' = MockDue
  BY <1>1, SameScenario
<1>3. /\ I \in Seq(Nat) /\ Distinct(I) /\ Taken \in Nat /\ Taken + Len(w) = Len(I)
      /\ Len(w) \in Nat /\ Len(I) \in Nat
      /\ \A x : x \in ToSet(w) <=> \E p \in (Taken + 1)..Len(I) : I[p] = x
  BY PendingAre DEF MockInv
<1>4. /\ w \in Seq(Nat) /\ got \in Seq(Nat) /\ buffered \in Seq(Nat) /\ entry = None
      /\ \A k \in 1..Len(w) : w[k] = I[Taken + k]
  BY <1>1 DEF MockInv, MockTyped, InTurn
<1>5. /\ w' \in Seq(Nat) /\ Len(w') = Len(w) - 1 /\ h = w[1] /\ 1 \in 1..Len(w) /\ h \in Nat
      /\ \A k \in 1..(Len(w) - 1) : w'[k] = w[k + 1] /\ k + 1 \in 1..Len(w)
  BY <1>1, <1>4
<1>6. Taken' = t /\ t \in 1..Len(I) /\ h = I[t]
  BY <1>1, <1>2, <1>3, <1>4, <1>5 DEF Taken
<1>7. MockTyped'
  <2> HIDE DEF h
  <2>1. got' \in Seq(Nat) /\ buffered' \in Seq(Nat)
    <3>1. h \in Nat /\ got \in Seq(Nat)
      BY <1>4, <1>5
    <3>2. Append(got, h) \in Seq(Nat)
      BY <3>1
    <3> QED
      BY <1>1, <1>4, <3>1, <3>2
  <2> QED
    BY <1>1, <1>2, <1>5, <2>1 DEF MockInv, MockTyped
<1>8. InTurn'
  <2>1. Len(w') <= Len(I)
    BY <1>3, <1>5
  <2>2. ASSUME NEW k \in 1..Len(w')
        PROVE  w'[k] = I[t + k]
    <3>1. k + 1 \in 1..Len(w) /\ w'[k] = w[k + 1] /\ Taken + (k + 1) = t + k
      BY <1>3, <1>5
    <3>2. w[k + 1] = I[Taken + (k + 1)]
      BY <1>4, <3>1
    <3> QED
      BY <3>1, <3>2
  <2>3. mock' = "callback" => t >= 1 /\ entry' = I[t]
    BY <1>1, <1>3, <1>6
  <2>4. mock' # "callback" => entry' = None
    BY <1>1, <1>4
  <2> HIDE DEF I, w, h, t
  <2>5. /\ Len(w') <= Len(I') /\ (\A k \in 1..Len(w') : w'[k] = I'[Taken' + k])
        /\ (mock' = "callback" => Taken' >= 1 /\ entry' = I'[Taken'])
    BY <1>2, <1>6, <2>1, <2>2, <2>3
  <2> QED
    BY <2>4, <2>5 DEF InTurn, I, w
<1>9. PullsAfter'
  <2> HIDE DEF w, h, t
  <2> QED
    BY <1>1, <1>2 DEF MockInv, PullsAfter, MockTyped, w
<1>10. MockEnds'
  BY <1>1, <1>2 DEF MockInv, MockEnds
<1>11. MockLine'
  <2> SUFFICES ASSUME ~scenario.direct
               PROVE  MockLine'
    BY <1>2 DEF MockLine
  <2>1. MockDue = I /\ MockKept = got /\ MockKept' = got'
    <3>1. got' \in Seq(Nat) /\ buffered' = << >>
      BY <1>1, <1>7 DEF MockTyped
    <3>2. MockKept' = got'
      BY <3>1, ConcatEmptySeq DEF MockKept
    <3> QED
      BY <1>1, <3>2, Undelivered
  <2> DEFINE X == ToSet(w) \cup dropped \cup {entry}
             Y == ToSet(w') \cup dropped' \cup {entry'}
  <2>2. /\ ToSet(got) = ToSet(I) \ X /\ Ordered(got, I) /\ dropped \subseteq ToSet(I)
        /\ dropped \cap (ToSet(w) \cup {entry}) = {}
    BY <2>1 DEF MockInv, MockLine
  <2>3. \A x : x \in ToSet(w') <=> \E p \in (t + 1)..Len(I) : I[p] = x
    <3>1. IsRest(w', I, t)
      BY <1>2, <1>6, <1>8 DEF InTurn, Taken, IsRest
    <3> HIDE DEF I, w, h, t
    <3>2. I \in Seq(Nat) /\ w' \in Seq(Nat)
      BY <1>3, <1>5
    <3> QED
      BY <3>1, <3>2, LeftOver
  <2> HIDE DEF I, w, h, t
  <2>4. \A x : x \in ToSet(w) <=> x \in ToSet(w') \/ x = h
    <3>1. \A p : p \in (Taken + 1)..Len(I) <=> p \in (t + 1)..Len(I) \/ p = t
      BY <1>3, <1>6 DEF t
    <3> QED
      BY <1>3, <1>6, <2>3, <3>1
  <2>5. h \notin ToSet(w')
    <3> SUFFICES ASSUME NEW p \in (t + 1)..Len(I), I[p] = h
                 PROVE  FALSE
      BY <2>3
    <3>1. p \in 1..Len(I) /\ p # t
      BY <1>3, <1>6
    <3> QED
      BY <1>3, <1>6, <3>1 DEF Distinct
  <2>6. \A x \in ToSet(I) : x \in Nat
    BY <1>3, ElementsOf
  <2>7. h \notin dropped /\ h \in X
    BY <2>2, <2>4
  <2>8. /\ dropped' = dropped /\ dropped' \subseteq ToSet(I)
        /\ dropped' \cap (ToSet(w') \cup {entry'}) = {}
    BY <1>1, <2>2, <2>4, <2>7
  <2>9. ToSet(got') = ToSet(I) \ Y /\ Ordered(got', I)
    <3>1. CASE mock' = "callback" /\ entry' = h /\ got' = got
      <4>1. \A x \in ToSet(I) : x \in Y <=> x \in X
        BY <1>4, <2>4, <2>6, <2>8, <3>1, NoneAssumption
      <4> HIDE DEF X, Y
      <4>2. ToSet(I) \ Y = ToSet(I) \ X
        BY <4>1
      <4> QED
        BY <2>2, <3>1, <4>2
    <3>2. CASE got' = Append(got, h) /\ mock' = mock /\ entry' = entry
      <4>1. \A x \in ToSet(I) : x \in Y <=> x \in X /\ x # h
        BY <1>4, <2>4, <2>5, <2>6, <2>7, <2>8, <3>2, NoneAssumption
      <4>2. \A p \in t..Len(I) : I[p] \in X
        BY <1>3, <1>6 DEF t
      <4> HIDE DEF X, Y
      <4>3. \A x \in ToSet(I) : x \in Y <=> x \in X /\ x # I[t]
        BY <1>6, <4>1
      <4>4. ToSet(Append(got, I[t])) = ToSet(I) \ Y /\ Ordered(Append(got, I[t]), I)
        BY <1>3, <1>4, <1>6, <2>2, <4>2, <4>3, NextAnswered
      <4> QED
        BY <1>6, <3>2, <4>4
    <3> QED
      BY <1>1, <3>1, <3>2
  <2>10. MockDue' = I
    BY <1>2, <2>1
  <2> QED
    BY <2>1, <2>8, <2>9, <2>10 DEF MockLine, w
<1> QED
  BY <1>7, <1>8, <1>9, <1>10, <1>11 DEF MockInv

\* An awaited config is in no queue any more, and not lost yet.
LEMMA EntryIs ==
    ASSUME MockInv, mock = "callback"
    PROVE  LET I == Intercepted(scenario.configs)
           IN  /\ Taken \in 1..Len(I) /\ entry = I[Taken] /\ entry \in Nat /\ entry \in ToSet(I)
               /\ entry \notin ToSet(pending_mocks)
               /\ \A p \in Taken..Len(I) : I[p] \in ToSet(pending_mocks) \/ I[p] = entry
<1> DEFINE I == Intercepted(scenario.configs)
           w == pending_mocks
<1>1. /\ I \in Seq(Nat) /\ Distinct(I) /\ Taken \in Nat /\ Taken + Len(w) = Len(I)
      /\ Len(w) \in Nat /\ Len(I) \in Nat
      /\ \A x : x \in ToSet(w) <=> \E p \in (Taken + 1)..Len(I) : I[p] = x
  BY PendingAre DEF MockInv
<1>2. Taken >= 1 /\ entry = I[Taken]
  BY DEF MockInv, InTurn
<1> HIDE DEF I, w
<1>3. Taken \in 1..Len(I) /\ entry \in Nat
  BY <1>1, <1>2
<1>4. entry \in ToSet(I)
  BY <1>1, <1>2, <1>3, ElementsOf
<1>5. entry \notin ToSet(w)
  <2> SUFFICES ASSUME NEW p \in (Taken + 1)..Len(I), I[p] = entry
               PROVE  FALSE
    BY <1>1
  <2>1. p \in 1..Len(I) /\ p # Taken
    BY <1>1
  <2> QED
    BY <1>1, <1>2, <1>3, <2>1 DEF Distinct
<1>6. ASSUME NEW p \in Taken..Len(I)
      PROVE  I[p] \in ToSet(w) \/ I[p] = entry
  <2>1. p = Taken \/ p \in (Taken + 1)..Len(I)
    BY <1>1
  <2> QED
    BY <1>1, <1>2, <2>1
<1> QED
  BY <1>2, <1>3, <1>4, <1>5, <1>6 DEF I, w

LEMMA CallbackKeeps ==
    ASSUME MockInv, IInv', CallbackReturns
    PROVE  MockInv'
<1> DEFINE I == Intercepted(scenario.configs)
           w == pending_mocks
<1>1. /\ mock = "callback" /\ got' = Append(got, entry) /\ mock' = "idle" /\ entry' = None
      /\ UNCHANGED <<scenario, pending_mocks, buffered, exhausted, abandoned, dropped>>
      /\ UNCHANGED <<consumer, delivered>>
  BY DEF CallbackReturns, vars
<1>2. /\ I' = I /\ PassthroughIter' = PassthroughIter /\ scenario' = scenario
      /\ MockDue' = MockDue
  BY <1>1, SameScenario
<1>3. /\ Taken \in 1..Len(I) /\ entry = I[Taken] /\ entry \in Nat /\ entry \in ToSet(I)
      /\ entry \notin ToSet(w)
      /\ \A p \in Taken..Len(I) : I[p] \in ToSet(w) \/ I[p] = entry
  BY <1>1, EntryIs
<1>4. I \in Seq(Nat) /\ Distinct(I) /\ got \in Seq(Nat)
  BY PendingAre DEF MockInv, MockTyped
<1>5. MockTyped' /\ InTurn'
  <2>1. Taken' = Taken
    BY <1>1, <1>2 DEF Taken
  <2>2. got' \in Seq(Nat)
    BY <1>1, <1>3, <1>4
  <2> QED
    BY <1>1, <1>2, <2>1, <2>2 DEF MockInv, MockTyped, InTurn
<1>6. PullsAfter'
  BY <1>1, <1>2 DEF MockInv, PullsAfter
<1>7. MockEnds'
  BY <1>1, <1>2 DEF MockInv, MockEnds
<1>8. MockLine'
  <2> SUFFICES ASSUME ~scenario.direct
               PROVE  MockLine'
    BY <1>2 DEF MockLine
  <2>1. MockDue = I /\ MockKept = got /\ MockKept' = got'
    <3>1. got' \in Seq(Nat) /\ buffered' = << >>
      BY <1>1, <1>3, <1>4, Undelivered
    <3>2. MockKept' = got'
      BY <3>1, ConcatEmptySeq DEF MockKept
    <3> QED
      BY <1>1, <3>2, Undelivered
  <2> DEFINE X == ToSet(w) \cup dropped \cup {entry}
             Y == ToSet(w) \cup dropped \cup {None}
  <2>2. /\ ToSet(got) = ToSet(I) \ X /\ Ordered(got, I) /\ dropped \subseteq ToSet(I)
        /\ dropped \cap (ToSet(w) \cup {entry}) = {}
    BY <2>1 DEF MockInv, MockLine
  <2> HIDE DEF I, w
  <2>3. \A x \in ToSet(I) : x \in Nat
    BY <1>4, ElementsOf
  <2>4. \A x \in ToSet(I) : x \in Y <=> x \in X /\ x # I[Taken]
    BY <1>3, <2>2, <2>3, NoneAssumption
  <2>5. \A p \in Taken..Len(I) : I[p] \in X
    BY <1>3
  <2>6. None \notin dropped
    BY <2>2, <2>3, NoneAssumption
  <2>7. dropped \cap (ToSet(w) \cup {None}) = {}
    BY <2>2, <2>6
  <2> HIDE DEF X
  <2>8. ToSet(Append(got, I[Taken])) = ToSet(I) \ Y /\ Ordered(Append(got, I[Taken]), I)
    <3> HIDE DEF Y
    <3> QED
      BY <1>3, <1>4, <2>2, <2>4, <2>5, NextAnswered
  <2>9. /\ MockDue' = I /\ ToSet(pending_mocks)' = ToSet(w) /\ dropped' = dropped
        /\ entry' = None /\ got' = Append(got, I[Taken])
    BY <1>1, <1>2, <1>3, <2>1 DEF w
  <2> QED
    BY <2>1, <2>2, <2>7, <2>8, <2>9 DEF MockLine
<1> QED
  BY <1>5, <1>6, <1>7, <1>8 DEF MockInv

\* A cancelled call loses the config it awaited, or leaves its pull behind.
LEMMA CancelMockKeeps ==
    ASSUME MockInv, IInv', CancelMock
    PROVE  MockInv'
<1> DEFINE I == Intercepted(scenario.configs)
           w == pending_mocks
<1>1. /\ mock' = "idle" /\ entry' = None
      /\ \/ mock = "callback" /\ dropped' = dropped \cup {entry} /\ abandoned' = abandoned
         \/ mock = "pulling" /\ abandoned' = abandoned + 1 /\ dropped' = dropped
      /\ UNCHANGED <<scenario, pending_mocks, buffered, exhausted, got>>
      /\ UNCHANGED <<consumer, delivered>>
  BY DEF CancelMock
<1>2. /\ I' = I /\ PassthroughIter' = PassthroughIter /\ scenario' = scenario
      /\ MockDue' = MockDue /\ MockKept' = MockKept
  BY <1>1, SameScenario DEF MockKept
<1>3. MockTyped' /\ InTurn'
  <2>1. Taken' = Taken
    BY <1>1, <1>2 DEF Taken
  <2> QED
    BY <1>1, <1>2, <2>1 DEF MockInv, MockTyped, InTurn
<1>4. PullsAfter'
  BY <1>1, <1>2 DEF MockInv, PullsAfter, MockTyped
<1>5. MockEnds'
  BY <1>1, <1>2 DEF MockInv, MockEnds
<1>6. MockLine'
  <2> SUFFICES ASSUME ~scenario.direct
               PROVE  MockLine'
    BY <1>2 DEF MockLine
  <2>0. ToSet(pending_mocks)' = ToSet(w)
    BY <1>1
  <2>1. MockDue \in Seq(Nat)
    BY LineTypes
  <2>2. \A x \in ToSet(MockDue) : x \in Nat
    BY <2>1, ElementsOf
  <2>3. /\ ToSet(MockKept) = ToSet(MockDue) \ (ToSet(w) \cup dropped \cup {entry})
        /\ Ordered(MockKept, MockDue) /\ dropped \subseteq ToSet(MockDue)
        /\ dropped \cap (ToSet(w) \cup {entry}) = {}
    BY DEF MockInv, MockLine
  <2>4. CASE mock = "callback"
    <3>1. entry \in ToSet(MockDue) /\ entry \notin ToSet(w) /\ dropped' = dropped \cup {entry}
      BY <1>1, <2>4, EntryIs, Undelivered
    <3> HIDE DEF I, w
    <3>2. /\ ToSet(MockKept) = ToSet(MockDue) \ (ToSet(w) \cup dropped' \cup {None})
          /\ dropped' \subseteq ToSet(MockDue) /\ dropped' \cap (ToSet(w) \cup {None}) = {}
      BY <2>2, <2>3, <3>1, NoneAssumption
    <3> QED
      BY <1>1, <1>2, <2>0, <2>3, <3>2 DEF MockLine
  <2>5. CASE mock = "pulling"
    <3>1. entry = None /\ dropped' = dropped
      BY <1>1, <2>5 DEF MockInv, InTurn
    <3> QED
      BY <1>1, <1>2, <2>0, <2>3, <3>1 DEF MockLine
  <2> QED
    BY <1>1, <2>4, <2>5
<1> QED
  BY <1>3, <1>4, <1>5, <1>6 DEF MockInv

LEMMA NatConcatAssociative ==
    ASSUME NEW a \in Seq(Nat), NEW b \in Seq(Nat), NEW c \in Seq(Nat)
    PROVE  (a \o b) \o c = a \o (b \o c)
  BY ConcatAssociative, SMTT(40)

LEMMA DueIsDistinct ==
    IInv /\ scenario \in Scenarios /\ (PassthroughIter \/ delivered = << >>) => Distinct(MockDue)
  BY DueDistinct

LEMMA DueDistinctNext ==
    IInv' /\ (scenario \in Scenarios)' /\ (PassthroughIter \/ delivered = << >>)'
        => Distinct(MockDue)'
  BY DueIsDistinct, PTL

\* A chunk joins the end of what is due, and with it what the caller has, or it
\* is lost with the call that asked for it.
LEMMA ChunkKeeps ==
    ASSUME MockInv, IInv', ChunkArrives
    PROVE  MockInv'
<1> DEFINE I == Intercepted(scenario.configs)
           w == pending_mocks
           z == ConfigsOf(batch)
<1>1. /\ ~scenario.direct /\ consumer \in {"loop", "next"} /\ consumer' = "idle"
      /\ batch # << >> /\ delivered' = delivered \o batch
      /\ UNCHANGED <<scenario, pending_mocks, exhausted, entry>>
  BY ChunkAssumption DEF ChunkArrives, Flush, EndFlushes, Yield, MustFlush
<1>2. /\ I' = I /\ PassthroughIter' = PassthroughIter /\ scenario' = scenario
      /\ PassedThrough(scenario.configs)' = PassedThrough(scenario.configs)
  BY <1>1, SameScenario
<1>3. /\ abandoned \in Nat /\ (abandoned > 0 \/ mock = "pulling") /\ PassthroughIter
      /\ w = << >> /\ (mock = "pulling" => buffered = << >>) /\ mock # "callback"
      /\ got \in Seq(Nat) /\ buffered \in Seq(Nat) /\ scenario \in Scenarios
      /\ (mock = "stopped" => consumer = "stopped")
  BY <1>1 DEF MockInv, MockTyped, PullsAfter, MockEnds
<1>4. /\ mock \in {"idle", "pulling"} /\ entry = None /\ ~exhausted
  BY <1>1, <1>3 DEF MockInv, MockTyped, InTurn, PullsAfter
<1>5. batch \in Seq(Requests) /\ delivered \in Seq(Requests)
  BY DEF MockInv, IInv, Typed
<1>6. z \in Seq(Nat) /\ Len(z) = Len(batch) /\ z # << >>
  <2>1. z \in Seq(Nat) /\ Len(z) = Len(batch)
    BY <1>3, <1>5, ConfigsAre
  <2>2. Len(batch) # 0 /\ Len(<< >>) = 0
    BY <1>1, <1>5
  <2> HIDE DEF z
  <2> QED
    BY <2>1, <2>2
<1>7. MockDue' = MockDue \o z
  <2>1. ConfigsOf(delivered)' = ConfigsOf(delivered \o batch)
    BY <1>1, <1>2 DEF ConfigsOf
  <2>2. ConfigsOf(delivered \o batch) = ConfigsOf(delivered) \o z
    BY <1>3, <1>5, ConfigsConcat
  <2>3. I \in Seq(Nat) /\ ConfigsOf(delivered) \in Seq(Nat)
    BY <1>3, DueDistinct DEF MockInv
  <2> DEFINE C == ConfigsOf(delivered)
  <2>4. MockDue' = I \o (C \o z)
    BY <1>2, <2>1, <2>2 DEF MockDue
  <2>5. MockDue = I \o C
    BY DEF MockDue
  <2> HIDE DEF I, z, C
  <2>6. (I \o C) \o z = I \o (C \o z)
    <3>1. I \in Seq(Nat) /\ C \in Seq(Nat) /\ z \in Seq(Nat)
      BY <1>6, <2>3 DEF C
    <3> QED
      BY <3>1, NatConcatAssociative
  <2> QED
    BY <2>4, <2>5, <2>6
<1>8. MockDue \in Seq(Nat) /\ Distinct(MockDue) /\ MockKept \in Seq(Nat)
  BY <1>1, LineTypes
<1>9. Distinct(MockDue \o z)
  <2>1. Distinct(MockDue)'
    BY <1>2, <1>3, DueDistinctNext
  <2> QED
    BY <1>7, <2>1
<1>10. \/ /\ abandoned > 0 /\ abandoned' = abandoned - 1 /\ dropped' = dropped \cup ToSet(z)
          /\ UNCHANGED <<got, buffered, mock>>
       \/ /\ abandoned = 0 /\ got' = Append(got, Head(z)) /\ buffered' = buffered \o Tail(z)
          /\ mock' = "idle" /\ UNCHANGED <<abandoned, dropped>>
  BY <1>3 DEF ChunkArrives, HandOver
<1> HIDE DEF z
<1>11. /\ Head(z) \in Nat /\ Tail(z) \in Seq(Nat) /\ z = <<Head(z)>> \o Tail(z)
  BY <1>6
<1>12. abandoned = 0 => got' \in Seq(Nat) /\ buffered' \in Seq(Nat) /\ MockKept' = MockKept \o z
  <2> SUFFICES ASSUME abandoned = 0
               PROVE  got' \in Seq(Nat) /\ buffered' \in Seq(Nat) /\ MockKept' = MockKept \o z
    OBVIOUS
  <2> DEFINE h == Head(z)
             r == Tail(z)
  <2>1. h \in Nat /\ r \in Seq(Nat) /\ z = <<h>> \o r /\ <<h>> \in Seq(Nat)
    BY <1>11
  <2>2. buffered = << >> /\ got' = Append(got, h) /\ buffered' = buffered \o r
    BY <1>3, <1>10
  <2> HIDE DEF h, r
  <2>3. got' = got \o <<h>> /\ got' \in Seq(Nat)
    BY <1>3, <2>1, <2>2
  <2>4. buffered' = r
    <3>1. << >> \o r = r
      BY <2>1, ConcatEmptySeq
    <3> QED
      BY <2>2, <3>1
  <2>5. MockKept = got
    BY <1>3, <2>2, ConcatEmptySeq DEF MockKept
  <2>6. (got \o <<h>>) \o r = got \o (<<h>> \o r)
    BY <1>3, <2>1, ConcatAssociative
  <2>7. MockKept' = MockKept \o z
    BY <2>1, <2>3, <2>4, <2>5, <2>6 DEF MockKept
  <2> QED
    BY <2>1, <2>3, <2>4, <2>7
<1>13. MockTyped'
  BY <1>2, <1>3, <1>1, <1>4, <1>10, <1>12 DEF MockInv, MockTyped
<1>14. InTurn'
  <2>1. Taken' = Taken
    BY <1>1, <1>2 DEF Taken
  <2> QED
    BY <1>1, <1>2, <1>4, <1>10, <2>1 DEF MockInv, InTurn
<1>15. PullsAfter'
  BY <1>1, <1>2, <1>3, <1>4, <1>10 DEF PullsAfter
<1>16. MockEnds'
  BY <1>1, <1>2, <1>4, <1>10 DEF MockEnds
<1>17. MockLine'
  <2>1. /\ ToSet(MockKept) = ToSet(MockDue) \ (ToSet(w) \cup dropped \cup {entry})
        /\ Ordered(MockKept, MockDue) /\ dropped \subseteq ToSet(MockDue)
        /\ dropped \cap (ToSet(w) \cup {entry}) = {}
    BY <1>1 DEF MockInv, MockLine
  <2>2. ToSet(MockKept) \subseteq ToSet(MockDue)
    BY <2>1
  <2>3. /\ Ordered(MockKept \o z, MockDue \o z) /\ Ordered(MockKept, MockDue \o z)
        /\ ToSet(MockDue) \cap ToSet(z) = {}
    BY <1>6, <1>8, <1>9, <2>1, <2>2, TogetherKeepOrder
  <2>4. /\ ToSet(MockDue \o z) = ToSet(MockDue) \cup ToSet(z)
        /\ ToSet(MockKept \o z) = ToSet(MockKept) \cup ToSet(z)
    BY <1>6, <1>8, ElementsOfConcat
  <2>5. \A x \in ToSet(z) : x \in Nat
    BY <1>6, ElementsOf
  <2>6. ToSet(w) = {}
    BY <1>3 DEF ToSet
  <2>7. ToSet(pending_mocks)' = ToSet(w) /\ entry' = entry
    BY <1>1
  <2> HIDE DEF w
  <2>8. CASE abandoned > 0
    <3>0. dropped' = dropped \cup ToSet(z) /\ got' = got /\ buffered' = buffered
      BY <1>3, <1>10, <2>8
    <3>1. dropped' = dropped \cup ToSet(z) /\ MockKept' = MockKept
      BY <3>0 DEF MockKept
    <3>2. /\ ToSet(MockKept) = ToSet(MockDue \o z) \ (ToSet(w) \cup dropped' \cup {entry})
          /\ dropped' \subseteq ToSet(MockDue \o z)
          /\ dropped' \cap (ToSet(w) \cup {entry}) = {}
      BY <1>4, <2>1, <2>3, <2>4, <2>5, <2>6, <3>1, NoneAssumption
    <3> QED
      BY <1>7, <2>3, <2>7, <3>1, <3>2 DEF MockLine
  <2>9. CASE abandoned = 0
    <3>1. dropped' = dropped /\ MockKept' = MockKept \o z
      BY <1>10, <1>12, <2>9
    <3>2. /\ ToSet(MockKept \o z) = ToSet(MockDue \o z) \ (ToSet(w) \cup dropped \cup {entry})
          /\ dropped \subseteq ToSet(MockDue \o z)
      BY <1>4, <2>1, <2>3, <2>4, <2>5, <2>6, NoneAssumption
    <3> QED
      BY <1>7, <2>1, <2>3, <2>7, <3>1, <3>2 DEF MockLine
  <2> QED
    BY <1>3, <2>8, <2>9
<1> QED
  BY <1>13, <1>14, <1>15, <1>16, <1>17 DEF MockInv

LEMMA MockStep ==
    ASSUME MockInv, [MockNext]_mockVars
    PROVE  MockInv'
<1>0. IInv'
  BY StreamStep DEF MockInv
<1>1. CASE \E h \in scenario.registrable : AddHandler(h)
  BY <1>0, <1>1, IteratorRests DEF AddHandler, vars
<1>2. CASE MockIterate
  BY <1>0, <1>2, DrainKeeps, DispatchKeeps, CallbackKeeps, PullKeeps, PullStopsKeeps
     DEF MockIterate
<1>3. CASE ChunkArrives \/ RealEnds \/ CancelMock
  BY <1>0, <1>3, ChunkKeeps, RealEndsKeeps, CancelMockKeeps
<1>4. CASE RealDriver
  BY <1>0, <1>4, IteratorRests DEF RealDriver, Driver, Pace, Dispatch, consumerVars
<1>5. CASE RealPoll
  BY <1>0, <1>5, IteratorRests DEF RealPoll, Anext, Await, Receive
<1>6. CASE DirectIterate
  BY <1>0, <1>6, IteratorRests DEF DirectIterate
<1>7. CASE Meanwhile
  BY <1>0, <1>7, IteratorRests DEF Meanwhile, Elapse
<1>8. ASSUME NEW i \in Requests, RealTask(i)
      PROVE  MockInv'
  BY <1>0, <1>8, IteratorRests
     DEF RealTask, Task, Send, Panic, DropPermit, DropSender, consumerVars
<1>9. CASE Request
  BY <1>0, <1>9, IteratorRests DEF Request, Delegate, RequestDispatch, RequestCallbackReturns, vars
<1>10. CASE UNCHANGED mockVars
  BY <1>0, <1>10, IteratorRests DEF mockVars, vars
<1> QED
  BY <1>1, <1>2, <1>3, <1>4, <1>5, <1>6, <1>7, <1>8, <1>9, <1>10 DEF MockNext

LEMMA MockInitInv == MockInit => MockInv
<1> SUFFICES ASSUME MockInit
             PROVE  MockInv
  OBVIOUS
<1> DEFINE I == Intercepted(scenario.configs)
<1>1. IInv /\ scenario \in Scenarios
  BY MockInitStream, InitIInv DEF MockInit
<1>2. /\ pending_mocks = I /\ buffered = << >> /\ exhausted = FALSE /\ mock = "idle" /\ entry = None
      /\ got = << >> /\ abandoned = 0 /\ dropped = {} /\ consumer = "idle" /\ delivered = << >>
  BY DEF MockInit, Init
<1>3. I \in Seq(Nat)
  BY <1>1, Partition
<1>4. MockTyped
  BY <1>1, <1>2, <1>3 DEF MockTyped
<1>5. InTurn
  <2>1. Taken = 0 /\ Len(I) \in Nat
    BY <1>2, <1>3 DEF Taken
  <2> HIDE DEF I
  <2>2. \A k \in 1..Len(pending_mocks) : pending_mocks[k] = I[Taken + k]
    BY <1>2, <2>1
  <2> QED
    BY <1>2, <2>1, <2>2 DEF InTurn, I
<1>6. PullsAfter /\ MockEnds
  BY <1>2 DEF PullsAfter, MockEnds
<1>7. MockDue = I
  <2>1. << >> \in Seq(Requests) /\ Len(<< >>) = 0
    OBVIOUS
  <2>2. ConfigsOf(delivered) \in Seq(Nat) /\ Len(ConfigsOf(delivered)) = 0
    BY <1>1, <1>2, <2>1, ConfigsAre
  <2>3. ConfigsOf(delivered) = << >>
    BY <2>2
  <2> HIDE DEF I
  <2>4. MockDue = I \o << >>
    BY <2>3 DEF MockDue, I
  <2> QED
    BY <1>3, <2>4, ConcatEmptySeq
<1>8. MockLine
  <2>1. MockKept = << >> /\ Len(MockKept) = 0 /\ ToSet(MockKept) = {}
    BY <1>2 DEF MockKept, ToSet
  <2>2. ToSet(pending_mocks) = ToSet(I)
    BY <1>2
  <2> HIDE DEF I
  <2> QED
    BY <1>2, <1>7, <2>1, <2>2 DEF MockLine, Ordered
<1> QED
  BY <1>1, <1>4, <1>5, <1>6, <1>8 DEF MockInv

LEMMA MockInvariant == MockSpec => []MockInv
  BY MockInitInv, MockStep, PTL DEF MockSpec

\* For any batch of intercepted and excluded configs, and whatever is cancelled
\* meanwhile, the mock's iterator returns the intercepted configs in input order
\* and then the real client's results in their order, each once, less those of
\* cancelled calls; and it ends only with its queues and the real stream drained.
THEOREM MocksComeFirst == MockSpec => []MockOrder
<1>1. MockInv => MockOrder
  <2> SUFFICES ASSUME MockInv
               PROVE  MockOrder
    OBVIOUS
  <2>1. mock = "stopped" =>
          pending_mocks \o buffered = << >> /\ (PassthroughIter => consumer = "stopped")
    BY DEF MockInv, MockEnds
  <2>2. ~scenario.direct => MockLine /\ Distinct(MockDue)
    BY LineTypes DEF MockInv
  <2> QED
    BY <2>1, <2>2 DEF MockOrder, MockLine, MockDue, MockKept, Ordered, Distinct
<1> QED
  BY <1>1, MockInvariant, PTL
===============================================================================
