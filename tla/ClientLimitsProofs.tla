-------------------------- MODULE ClientLimitsProofs --------------------------
(***************************************************************************)
(* The limits of a client hold, for any number of calls, rates, changes of  *)
(* the limit and requests per call.                                         *)
(***************************************************************************)
EXTENDS ClientLimits, FiniteSetTheorems, TLAPS

USE IntervalsAssumption, ThresholdAssumption, BoundsAssumption

Limiter == [interval : Nat \ {0}, next : Nat, born : Nat, owner : {"client", "batch"}]

CallState ==
    [at : {"idle", "acquire", "check", "sleep", "over"}, left : Nat, slot : Nat,
     limiter : 0..Len(limiters), shared : 0..Len(limiters), rate : Nat, since : 0..now]

Typed ==
    /\ now \in Nat
    /\ limiters \in Seq(Limiter)
    /\ shared \in 0..Len(limiters)
    /\ call \in [Calls -> CallState]
    /\ sent \in [Calls -> 0..BatchSize]

\* How far a call is: what it was let through and what it has left fit a batch.
Progress ==
    \A c \in Calls :
        /\ call[c].at = "idle" => sent[c] = 0 /\ call[c].limiter = 0 /\ call[c].rate = 0
                                  /\ call[c].shared = 0
        /\ call[c].at \in {"acquire", "check", "sleep"} =>
               call[c].left >= 1 /\ sent[c] + call[c].left <= BatchSize

\* The stricter of the client's rate when the call was made and its own.
Stricter(c) ==
    Later(call[c].rate, IF call[c].shared = 0 THEN 0 ELSE limiters[call[c].shared].interval)

\* merge_limiters chose well, and shares the client's limiter where it can.
Merged ==
    \A c \in Calls :
        /\ call[c].limiter = 0 => call[c].rate = 0 /\ call[c].shared = 0
        /\ call[c].limiter # 0 => limiters[call[c].limiter].interval = Stricter(c)
        /\ (call[c].shared # 0 /\ call[c].rate <= limiters[call[c].shared].interval)
               => call[c].limiter = call[c].shared

\* It has a slot it has not used yet.
Sleeps(c) == call[c].at \in {"check", "sleep"}

\* A call's slots lie an interval apart, the first no earlier than the call, and
\* its limiter's cursor is past them.
Paced ==
    \A c \in Calls : call[c].limiter # 0 =>
        LET l == limiters[call[c].limiter]
        IN  /\ sent[c] > 0 => call[c].since + (sent[c] - 1) * l.interval < now + Threshold
            /\ call[c].at = "acquire" /\ sent[c] > 0 =>
                   l.next >= call[c].since + sent[c] * l.interval
            /\ Sleeps(c) =>
                   /\ call[c].slot >= call[c].since + sent[c] * l.interval
                   /\ l.next >= call[c].slot + l.interval

\* The slots a limiter has handed out, and those of them that are used by t: each
\* is a call and the number of its slot.
Claims(l) ==
    {e \in Calls \X (1..BatchSize) :
        /\ call[e[1]].limiter = l
        /\ e[2] <= sent[e[1]] \/ (e[2] = sent[e[1]] + 1 /\ Sleeps(e[1]))}
UsedBy(l, t) ==
    {e \in Claims(l) : e[2] <= sent[e[1]] \/ call[e[1]].slot < t + Threshold}

\* The cursor is past all slots, and at no time to come have more been used
\* than the time since the limiter's birth allows, the skipped sleeps included.
Accounted ==
    \A l \in 1..Len(limiters) :
        /\ limiters[l].born <= now
        /\ limiters[l].born + Cardinality(Claims(l)) * limiters[l].interval <= limiters[l].next
        /\ \A t \in Nat : t >= now =>
             limiters[l].born + Cardinality(UsedBy(l, t)) * limiters[l].interval
                 < t + Threshold + limiters[l].interval

IInv == Typed /\ Progress /\ Merged /\ Paced /\ Accounted

\* A slot less than x away, past all that p counts, makes room for i more.
LEMMA RoomForOne ==
    ASSUME NEW b \in Nat, NEW p \in Nat, NEW i \in Nat, NEW s \in Nat, NEW t \in Nat, NEW x \in Nat,
           b + p <= s, s < t + x
    PROVE  b + (p + i) < t + x + i
OBVIOUS

-----------------------------------------------------------------------------
\* What a limiter holds.
LEMMA LimiterFields ==
    ASSUME Typed, NEW l \in 1..Len(limiters)
    PROVE  /\ limiters[l] \in Limiter
           /\ limiters[l].interval \in Nat \ {0}
           /\ limiters[l].next \in Nat
           /\ limiters[l].born \in Nat
<1>1. limiters[l] \in Limiter
  BY DEF Typed
<1> QED
  BY <1>1 DEF Limiter

\* What a call holds.
LEMMA CallFields ==
    ASSUME Typed, NEW c \in Calls
    PROVE  /\ call[c] \in CallState
           /\ call[c].at \in {"idle", "acquire", "check", "sleep", "over"}
           /\ call[c].left \in Nat /\ call[c].slot \in Nat /\ call[c].rate \in Nat
           /\ call[c].limiter \in 0..Len(limiters) /\ call[c].shared \in 0..Len(limiters)
           /\ call[c].since \in Nat /\ call[c].since <= now
           /\ sent[c] \in Nat /\ sent[c] <= BatchSize
           /\ Len(limiters) \in Nat
<1>1. call[c] \in CallState
  BY DEF Typed
<1> QED
  BY <1>1 DEF CallState, Typed

\* Slots are counted.
LEMMA ClaimsFinite ==
    ASSUME NEW l, NEW t
    PROVE  /\ IsFiniteSet(Claims(l)) /\ Cardinality(Claims(l)) \in Nat
           /\ IsFiniteSet(UsedBy(l, t)) /\ Cardinality(UsedBy(l, t)) \in Nat
           /\ Cardinality(UsedBy(l, t)) <= Cardinality(Claims(l))
<1>1. IsFiniteSet(Calls \X (1..BatchSize))
  <2>1. IsFiniteSet(1..BatchSize)
    BY FS_Interval
  <2> QED
    BY <2>1, CallsAssumption, FS_Product
<1>2. Claims(l) \in SUBSET (Calls \X (1..BatchSize))
  BY DEF Claims
<1>3. IsFiniteSet(Claims(l))
  BY <1>1, <1>2, FS_Subset
<1>4. UsedBy(l, t) \in SUBSET Claims(l)
  BY DEF UsedBy
<1> QED
  BY <1>3, <1>4, FS_Subset, FS_CardinalityType

LEMMA Product ==
    ASSUME NEW m \in Nat, NEW n \in Nat
    PROVE  m * n \in Nat
  OBVIOUS

LEMMA Times ==
    ASSUME NEW m \in Nat, NEW n \in Nat, NEW i \in Nat, m <= n
    PROVE  /\ m * i <= n * i /\ (n + 1) * i = n * i + i
           /\ m * i \in Nat /\ n * i \in Nat
  OBVIOUS

-----------------------------------------------------------------------------
(* Steps that hand out no slot and use none: time, a new limit, a new call.  *)

\* The limiters stay, or there is a new one, made now.
Grows ==
    /\ limiters' \in Seq(Limiter)
    /\ Len(limiters') \in {Len(limiters), Len(limiters) + 1}
    /\ \A l \in 1..Len(limiters) : limiters'[l] = limiters[l]
    /\ Len(limiters') = Len(limiters) + 1 =>
           limiters'[Len(limiters) + 1].born = now /\ limiters'[Len(limiters) + 1].next = now

LEMMA AppendGrows ==
    ASSUME Typed, NEW i \in Intervals, NEW owner \in {"client", "batch"},
           limiters' = Append(limiters, NewLimiter(i, owner))
    PROVE  /\ Grows
           /\ Len(limiters') = Len(limiters) + 1
           /\ limiters'[Len(limiters) + 1].interval = i
<1> DEFINE n == NewLimiter(i, owner)
<1>1. limiters \in Seq(Limiter) /\ n \in Limiter
  BY DEF Typed, NewLimiter, Limiter
<1>2. n.born = now /\ n.next = now /\ n.interval = i
  BY DEF NewLimiter
<1> HIDE DEF n
<1>3. /\ limiters' \in Seq(Limiter) /\ Len(limiters') = Len(limiters) + 1
      /\ \A l \in 1..Len(limiters) : limiters'[l] = limiters[l]
      /\ limiters'[Len(limiters) + 1] = n
  BY <1>1 DEF n
<1> QED
  BY <1>2, <1>3 DEF Grows

LEMMA SameGrows == Typed /\ UNCHANGED limiters => Grows
BY DEF Typed, Grows

\* A call that stays as it is keeps its type.
LEMMA CallStateGrows ==
    ASSUME Typed, Grows, now' \in Nat, now' >= now
    PROVE  CallState \subseteq CallState'
<1>1. 0..Len(limiters) \subseteq 0..Len(limiters') /\ 0..now \subseteq 0..now'
  BY DEF Typed, Grows
<1> QED
  BY <1>1 DEF CallState

\* Calls are as they were, or have just been made.
Waits(c) == sent[c] = 0 /\ ~Sleeps(c) /\ (sent[c] = 0)' /\ (~Sleeps(c))'

LEMMA ClaimsKept ==
    ASSUME sent' = sent,
           \A c \in Calls : call'[c] = call[c] \/ Waits(c),
           Typed, NEW l, NEW t
    PROVE  Claims(l)' = Claims(l) /\ UsedBy(l, t)' = UsedBy(l, t)
<1>1. ASSUME NEW e \in Calls \X (1..BatchSize)
      PROVE  /\ e \in Claims(l)' <=> e \in Claims(l)
             /\ e \in UsedBy(l, t)' <=> e \in UsedBy(l, t)
  <2>1. CASE call'[e[1]] = call[e[1]]
    BY <2>1 DEF Claims, UsedBy, Sleeps
  <2>2. CASE Waits(e[1])
    <3>1. ~(e[2] <= sent[e[1]])
      BY <2>2 DEF Waits
    <3> QED
      BY <2>2, <3>1 DEF Waits, Claims, UsedBy, Sleeps
  <2> QED
    BY <2>1, <2>2
<1>2. /\ Claims(l) \subseteq Calls \X (1..BatchSize) /\ Claims(l)' \subseteq Calls \X (1..BatchSize)
      /\ UsedBy(l, t) \subseteq Claims(l) /\ UsedBy(l, t)' \subseteq Claims(l)'
  BY DEF Claims, UsedBy
<1> QED
  BY <1>1, <1>2

LEMMA AccountKept ==
    ASSUME IInv, Grows, now' \in Nat, now' >= now, sent' = sent,
           \A c \in Calls : call'[c] = call[c] \/ Waits(c)
    PROVE  Accounted'
<1> SUFFICES ASSUME NEW l \in 1..Len(limiters')
             PROVE  /\ limiters'[l].born <= now'
                    /\ limiters'[l].born + Cardinality(Claims(l)') * limiters'[l].interval
                           <= limiters'[l].next
                    /\ \A t \in Nat : t >= now' =>
                         limiters'[l].born + Cardinality(UsedBy(l, t)') * limiters'[l].interval
                             < t + Threshold + limiters'[l].interval
  BY DEF Accounted
<1>0. Typed /\ now \in Nat /\ Len(limiters) \in Nat
  BY DEF IInv, Typed
<1>1. Claims(l)' = Claims(l) /\ \A t : UsedBy(l, t)' = UsedBy(l, t)
  BY <1>0, ClaimsKept
<1>2. CASE l \in 1..Len(limiters)
  <2>1. limiters'[l] = limiters[l] /\ limiters[l].born \in Nat
    BY <1>0, <1>2, LimiterFields DEF Grows
  <2>2. \A t \in Nat : t >= now' => t >= now
    BY <1>0
  <2> QED
    BY <1>0, <1>1, <1>2, <2>1, <2>2 DEF IInv, Accounted
<1>3. CASE l = Len(limiters) + 1
  <2>1. limiters'[l].born = now /\ limiters'[l].next = now /\ limiters'[l].interval \in Nat
    <3>1. limiters'[l] \in Limiter
      BY DEF Grows
    <3> QED
      BY <1>3, <3>1 DEF Grows, Limiter
  <2>2. Claims(l) = {} /\ \A t : UsedBy(l, t) = {}
    <3>1. \A c \in Calls : call[c].limiter # l
      BY <1>0, <1>3, CallFields
    <3> QED
      BY <3>1 DEF Claims, UsedBy
  <2>3. Cardinality(Claims(l)') = 0 /\ \A t : Cardinality(UsedBy(l, t)') = 0
    BY <1>1, <2>2, FS_EmptySet
  <2> QED
    BY <1>0, <2>1, <2>3
<1> QED
  BY <1>2, <1>3 DEF Grows

\* Time passes, or the shared limiter is replaced: no call changes.
LEMMA QuietStep ==
    ASSUME IInv, Grows, now' \in Nat, now' >= now, shared' \in 0..Len(limiters'),
           UNCHANGED <<call, sent>>
    PROVE  IInv'
<1>1. Typed'
  BY CallStateGrows DEF IInv, Typed, Grows
<1>2. \A c \in Calls : /\ call[c].limiter # 0 => limiters'[call[c].limiter] = limiters[call[c].limiter]
                       /\ call[c].shared # 0 => limiters'[call[c].shared] = limiters[call[c].shared]
  BY CallFields DEF IInv, Grows
<1>3. Progress'
  BY DEF IInv, Progress
<1>4. Merged'
  BY <1>2 DEF IInv, Merged, Stricter
<1>5. Paced'
  <2> SUFFICES ASSUME NEW c \in Calls, call[c].limiter # 0
               PROVE  LET l == limiters[call[c].limiter]
                      IN  /\ sent[c] > 0 => call[c].since + (sent[c] - 1) * l.interval < now' + Threshold
                          /\ call[c].at = "acquire" /\ sent[c] > 0 =>
                                 l.next >= call[c].since + sent[c] * l.interval
                          /\ Sleeps(c) =>
                                 /\ call[c].slot >= call[c].since + sent[c] * l.interval
                                 /\ l.next >= call[c].slot + l.interval
    BY <1>2 DEF Paced, Sleeps
  <2> DEFINE i == limiters[call[c].limiter].interval
             k == call[c].since + (sent[c] - 1) * i
  <2>1. sent[c] > 0 => k < now + Threshold
    BY DEF IInv, Paced
  <2>2. i \in Nat /\ call[c].since \in Nat /\ sent[c] \in Nat /\ now \in Nat
    <3>1. Typed
      BY DEF IInv
    <3>2. call[c].limiter \in 1..Len(limiters)
      BY <3>1, CallFields
    <3> QED
      BY <3>1, <3>2, CallFields, LimiterFields DEF Typed
  <2> HIDE DEF i
  <2>3. sent[c] > 0 => k \in Int
    BY <2>2
  <2> HIDE DEF k
  <2>4. sent[c] > 0 => k < now' + Threshold
    BY <2>1, <2>2, <2>3
  <2> QED
    BY <2>4 DEF k, i, IInv, Paced
<1>6. Accounted'
  BY AccountKept
<1> QED
  BY <1>1, <1>3, <1>4, <1>5, <1>6 DEF IInv

\* A call is made, with a limiter that fits its rate and the client's.
LEMMA StartStep ==
    ASSUME IInv, Grows, NEW c \in Calls, NEW n \in 1..BatchSize, NEW rate \in Nat,
           NEW limiter \in 0..Len(limiters'), Started(c, n, rate, limiter),
           limiter = 0 => rate = 0 /\ shared = 0,
           limiter # 0 => limiters'[limiter].interval =
               Later(rate, IF shared = 0 THEN 0 ELSE limiters[shared].interval),
           shared # 0 /\ rate <= limiters[shared].interval => limiter = shared
    PROVE  IInv'
<1> DEFINE new == [at |-> "acquire", left |-> n, slot |-> 0, limiter |-> limiter,
                   shared |-> shared, rate |-> rate, since |-> now]
<1>1. /\ Typed /\ now' = now /\ now \in Nat /\ shared' = shared /\ sent' = sent
      /\ call[c].at = "idle" /\ shared \in 0..Len(limiters) /\ Len(limiters) \in Nat
  BY DEF IInv, Typed, Started
<1>2. call'[c] = new /\ \A d \in Calls : d # c => call'[d] = call[d]
  BY <1>1 DEF Started, Typed
<1>3. sent[c] = 0
  BY <1>1 DEF IInv, Progress
<1>4. CallState \subseteq CallState' /\ shared \in 0..Len(limiters')
  BY <1>1, CallStateGrows DEF Grows
<1>5. new \in CallState'
  BY <1>1, <1>4 DEF CallState
<1>6. Typed'
  <2>1. call' \in [Calls -> CallState']
    <3>1. call' = [call EXCEPT ![c] = new]
      BY DEF Started
    <3> HIDE DEF new
    <3> QED
      BY <1>1, <1>4, <1>5, <3>1 DEF Typed
  <2> QED
    BY <1>1, <1>4, <2>1 DEF Typed, Grows
<1>7. /\ new.at = "acquire" /\ new.left = n /\ new.limiter = limiter /\ new.shared = shared
      /\ new.rate = rate /\ new.since = now
  OBVIOUS
<1> HIDE DEF new
<1>8. Progress'
  BY <1>1, <1>2, <1>3, <1>7 DEF IInv, Progress
<1>9. \A d \in Calls : /\ call[d].limiter # 0 => limiters'[call[d].limiter] = limiters[call[d].limiter]
                       /\ call[d].shared # 0 => limiters'[call[d].shared] = limiters[call[d].shared]
  BY <1>1, CallFields DEF Grows
<1>10. shared # 0 => limiters'[shared] = limiters[shared]
  BY <1>1 DEF Grows
<1>11. Merged'
  <2> SUFFICES ASSUME NEW d \in Calls
               PROVE  /\ call'[d].limiter = 0 => call'[d].rate = 0 /\ call'[d].shared = 0
                      /\ call'[d].limiter # 0 =>
                             limiters'[call'[d].limiter].interval = Stricter(d)'
                      /\ (call'[d].shared # 0
                             /\ call'[d].rate <= limiters'[call'[d].shared].interval)
                             => call'[d].limiter = call'[d].shared
    BY DEF Merged
  <2>1. CASE d = c
    BY <1>2, <1>7, <1>10, <2>1 DEF Stricter
  <2>2. CASE d # c
    BY <1>2, <1>9, <2>2 DEF Stricter, IInv, Merged
  <2> QED
    BY <2>1, <2>2
<1>12. Paced'
  <2> SUFFICES ASSUME NEW d \in Calls, call'[d].limiter # 0
               PROVE  LET l == limiters'[call'[d].limiter]
                      IN  /\ sent[d] > 0 => call'[d].since + (sent[d] - 1) * l.interval < now + Threshold
                          /\ call'[d].at = "acquire" /\ sent[d] > 0 =>
                                 l.next >= call'[d].since + sent[d] * l.interval
                          /\ Sleeps(d)' =>
                                 /\ call'[d].slot >= call'[d].since + sent[d] * l.interval
                                 /\ l.next >= call'[d].slot + l.interval
    BY <1>1 DEF Paced
  <2>1. CASE d = c
    BY <1>2, <1>3, <1>7, <2>1 DEF Sleeps
  <2>2. CASE d # c
    BY <1>2, <1>9, <2>2 DEF IInv, Paced, Sleeps
  <2> QED
    BY <2>1, <2>2
<1>13. Accounted'
  <2>1. Waits(c)
    BY <1>1, <1>2, <1>3, <1>7 DEF Waits, Sleeps
  <2>2. \A d \in Calls : call'[d] = call[d] \/ Waits(d)
    BY <1>2, <2>1
  <2>3. now' \in Nat /\ now' >= now
    BY <1>1
  <2> QED
    BY <1>1, <2>2, <2>3, AccountKept
<1> QED
  BY <1>6, <1>8, <1>11, <1>12, <1>13 DEF IInv

\* request(), download() and raw_connect() take the shared limiter.
LEMMA RequestStep ==
    ASSUME IInv, NEW c \in Calls, Request(c) \/ RawConnect(c)
    PROVE  IInv'
<1>1. Typed /\ UNCHANGED limiters
  BY DEF IInv, Request, RawConnect
<1>2. Grows
  BY <1>1, SameGrows
<1>3. PICK n \in 1..BatchSize : Started(c, n, 0, shared)
  BY DEF Request, RawConnect
<1>4. shared \in 0..Len(limiters') /\ shared \in 0..Len(limiters)
  BY <1>1 DEF Typed
<1>5. shared # 0 => limiters'[shared].interval = Later(0, limiters[shared].interval)
  BY <1>1, <1>4, LimiterFields DEF Later
<1> QED
  BY <1>2, <1>3, <1>4, <1>5, StartStep DEF Later

\* A batch takes the shared limiter, or one of its own.
LEMMA RequestBatchStep ==
    ASSUME IInv, NEW c \in Calls, NEW rate \in Intervals \cup {0}, RequestBatch(c, rate)
    PROVE  IInv'
<1>1. Typed /\ shared \in 0..Len(limiters) /\ rate \in Nat /\ BatchSize \in 1..BatchSize
      /\ Len(limiters) \in Nat
  BY DEF IInv, Typed
<1>2. shared # 0 => limiters[shared].interval \in Nat \ {0}
  BY <1>1, LimiterFields
<1>3. CASE PrivateWins(rate)
  <2> DEFINE l == Len(limiters) + 1
  <2>1. /\ limiters' = Append(limiters, NewLimiter(rate, "batch"))
        /\ Started(c, BatchSize, rate, l)
    BY <1>3 DEF RequestBatch
  <2>2. rate \in Intervals
    BY <1>3 DEF PrivateWins
  <2>3. Grows /\ Len(limiters') = l /\ limiters'[l].interval = rate
    BY <1>1, <2>1, <2>2, AppendGrows
  <2>4. l \in 0..Len(limiters') /\ l # 0
    BY <1>1, <2>3
  <2>5. shared # 0 => rate > limiters[shared].interval
    BY <1>3 DEF PrivateWins
  <2>6. rate = Later(rate, IF shared = 0 THEN 0 ELSE limiters[shared].interval)
    BY <1>1, <1>2, <2>2, <2>5 DEF Later
  <2>7. ~(shared # 0 /\ rate <= limiters[shared].interval)
    BY <1>1, <1>2, <2>5
  <2> HIDE DEF l
  <2> QED
    BY <1>1, <2>1, <2>3, <2>4, <2>6, <2>7, StartStep
<1>4. CASE ~PrivateWins(rate)
  <2>1. Started(c, BatchSize, rate, shared) /\ UNCHANGED limiters
    BY <1>4 DEF RequestBatch
  <2>2. Grows
    BY <1>1, <2>1, SameGrows
  <2>3. rate = 0 \/ (shared # 0 /\ rate <= limiters[shared].interval)
    BY <1>1, <1>2, <1>4 DEF PrivateWins
  <2>4. shared = 0 => rate = 0
    BY <2>3
  <2>5. shared # 0 => limiters'[shared].interval =
            Later(rate, IF shared = 0 THEN 0 ELSE limiters[shared].interval)
    BY <1>1, <1>2, <2>1, <2>3 DEF Later
  <2>6. shared \in 0..Len(limiters')
    BY <1>1, <2>1
  <2> QED
    BY <1>1, <2>1, <2>2, <2>4, <2>5, <2>6, StartStep
<1> QED
  BY <1>3, <1>4

LEMMA SetRateLimitStep ==
    ASSUME IInv, NEW i \in Intervals \cup {0}, SetRateLimit(i)
    PROVE  IInv'
<1>1. Typed /\ now' = now /\ now \in Nat /\ UNCHANGED <<call, sent>> /\ Len(limiters) \in Nat
  BY DEF IInv, Typed, SetRateLimit
<1>2. CASE i = 0
  <2>1. UNCHANGED limiters /\ shared' = 0
    BY <1>2 DEF SetRateLimit
  <2>2. shared' \in 0..Len(limiters') /\ now' \in Nat /\ now' >= now
    BY <1>1, <2>1
  <2> QED
    BY <1>1, <2>1, <2>2, SameGrows, QuietStep
<1>3. CASE i # 0
  <2>1. limiters' = Append(limiters, NewLimiter(i, "client")) /\ shared' = Len(limiters) + 1
    BY <1>3 DEF SetRateLimit
  <2>2. Grows /\ Len(limiters') = Len(limiters) + 1
    BY <1>1, <1>3, <2>1, AppendGrows
  <2>3. shared' \in 0..Len(limiters') /\ now' \in Nat /\ now' >= now
    BY <1>1, <2>1, <2>2
  <2> QED
    BY <1>1, <2>2, <2>3, QuietStep
<1> QED
  BY <1>2, <1>3

-----------------------------------------------------------------------------
(* A slot is handed out.                                                     *)

\* What acquire() does to the calls and to the limiters.
LEMMA AcquireEffect ==
    ASSUME IInv, NEW c \in Calls, Acquire(c)
    PROVE  LET m == call[c].limiter
               slot == IF m = 0 THEN now ELSE Later(limiters[m].next, now)
           IN  /\ slot \in Nat /\ slot >= now
               /\ call[c].at = "acquire"
               /\ call'[c] = [call[c] EXCEPT !.at = "check", !.slot = slot]
               /\ \A d \in Calls : d # c => call'[d] = call[d]
               /\ UNCHANGED <<now, shared, sent>>
               /\ Len(limiters') = Len(limiters)
               /\ limiters' \in Seq(Limiter)
               /\ \A l \in 1..Len(limiters) : l # m => limiters'[l] = limiters[l]
               /\ m # 0 => /\ m \in 1..Len(limiters)
                           /\ slot >= limiters[m].next
                           /\ limiters'[m] = [limiters[m] EXCEPT !.next = slot + limiters[m].interval]
<1> DEFINE m == call[c].limiter
           slot == IF m = 0 THEN now ELSE Later(limiters[m].next, now)
<1>1. Typed /\ now \in Nat /\ limiters \in Seq(Limiter) /\ call \in [Calls -> CallState]
  BY DEF IInv, Typed
<1>2. m # 0 => m \in 1..Len(limiters)
  BY <1>1, CallFields
<1>3. m # 0 => limiters[m] \in Limiter /\ limiters[m].next \in Nat /\ limiters[m].interval \in Nat
  BY <1>1, <1>2, LimiterFields
<1>4. slot \in Nat /\ slot >= now /\ (m # 0 => slot >= limiters[m].next)
  BY <1>1, <1>3 DEF Later
<1>5. /\ call[c].at = "acquire"
      /\ call' = [call EXCEPT ![c].at = "check", ![c].slot = slot]
      /\ limiters' = IF m = 0 THEN limiters
                     ELSE [limiters EXCEPT ![m].next = slot + limiters[m].interval]
      /\ UNCHANGED <<now, shared, sent>>
  BY DEF Acquire
<1> HIDE DEF m, slot
<1>6. /\ call'[c] = [call[c] EXCEPT !.at = "check", !.slot = slot]
      /\ \A d \in Calls : d # c => call'[d] = call[d]
  BY <1>1, <1>5
<1>7. m # 0 => [limiters[m] EXCEPT !.next = slot + limiters[m].interval] \in Limiter
  BY <1>3, <1>4 DEF Limiter
<1>8. /\ Len(limiters') = Len(limiters)
      /\ limiters' \in Seq(Limiter)
      /\ \A l \in 1..Len(limiters) : l # m => limiters'[l] = limiters[l]
      /\ m # 0 => limiters'[m] = [limiters[m] EXCEPT !.next = slot + limiters[m].interval]
  <2>1. CASE m = 0
    BY <1>1, <1>5, <2>1
  <2>2. CASE m # 0
    <3> DEFINE new == [limiters[m] EXCEPT !.next = slot + limiters[m].interval]
    <3>1. limiters' = [limiters EXCEPT ![m] = new]
      BY <1>1, <1>2, <1>5, <2>2
    <3>2. new \in Limiter
      BY <1>7, <2>2
    <3> HIDE DEF new
    <3>3. /\ Len(limiters') = Len(limiters) /\ limiters' \in Seq(Limiter)
          /\ \A l \in 1..Len(limiters) : l # m => limiters'[l] = limiters[l]
          /\ limiters'[m] = new
      BY <1>1, <1>2, <2>2, <3>1, <3>2
    <3> QED
      BY <3>3 DEF new
  <2> QED
    BY <2>1, <2>2
<1> QED
  BY <1>2, <1>4, <1>5, <1>6, <1>8 DEF m, slot

LEMMA AcquireStep ==
    ASSUME IInv, NEW c \in Calls, Acquire(c)
    PROVE  IInv'
<1> DEFINE m == call[c].limiter
           slot == IF m = 0 THEN now ELSE Later(limiters[m].next, now)
<1>1. /\ slot \in Nat /\ slot >= now
      /\ call[c].at = "acquire"
      /\ call'[c] = [call[c] EXCEPT !.at = "check", !.slot = slot]
      /\ \A d \in Calls : d # c => call'[d] = call[d]
      /\ UNCHANGED <<now, shared, sent>>
      /\ Len(limiters') = Len(limiters)
      /\ limiters' \in Seq(Limiter)
      /\ \A l \in 1..Len(limiters) : l # m => limiters'[l] = limiters[l]
      /\ m # 0 => /\ m \in 1..Len(limiters)
                  /\ slot >= limiters[m].next
                  /\ limiters'[m] = [limiters[m] EXCEPT !.next = slot + limiters[m].interval]
  BY AcquireEffect
<1> HIDE DEF m, slot
<1>2. Typed /\ now \in Nat /\ Len(limiters) \in Nat /\ call[c] \in CallState
  BY CallFields DEF IInv, Typed
<1>3. /\ call'[c].at = "check" /\ call'[c].slot = slot
      /\ call'[c].left = call[c].left /\ call'[c].limiter = m /\ call'[c].shared = call[c].shared
      /\ call'[c].rate = call[c].rate /\ call'[c].since = call[c].since
      /\ call'[c] \in CallState
  BY <1>1, <1>2 DEF CallState, m
<1>4. \A l \in 1..Len(limiters) :
        /\ limiters'[l].interval = limiters[l].interval /\ limiters'[l].born = limiters[l].born
        /\ limiters[l] \in Limiter
        /\ l # m => limiters'[l].next = limiters[l].next
        /\ l = m => limiters'[l].next = slot + limiters[l].interval
  <2> SUFFICES ASSUME NEW l \in 1..Len(limiters)
               PROVE  /\ limiters'[l].interval = limiters[l].interval
                      /\ limiters'[l].born = limiters[l].born
                      /\ limiters[l] \in Limiter
                      /\ l # m => limiters'[l].next = limiters[l].next
                      /\ l = m => limiters'[l].next = slot + limiters[l].interval
    OBVIOUS
  <2>1. limiters[l] \in Limiter
    BY <1>2, LimiterFields
  <2>2. CASE l # m
    BY <1>1, <2>1, <2>2
  <2>3. CASE l = m
    <3>1. limiters'[l] = [limiters[l] EXCEPT !.next = slot + limiters[l].interval]
      BY <1>1, <2>3
    <3> QED
      BY <2>1, <2>3, <3>1 DEF Limiter
  <2> QED
    BY <2>2, <2>3
<1>5. Typed'
  <2>1. CallState' = CallState
    BY <1>1 DEF CallState
  <2>2. call' = [call EXCEPT ![c] = call'[c]]
    <3>1. call' = [call EXCEPT ![c].at = "check", ![c].slot = slot]
      BY DEF Acquire, m, slot
    <3> QED
      BY <1>2, <3>1 DEF Typed
  <2>3. call' \in [Calls -> CallState]
    BY <1>2, <1>3, <2>2 DEF Typed
  <2> QED
    BY <1>1, <1>2, <2>1, <2>3 DEF Typed
<1>6. Progress'
  BY <1>1, <1>3 DEF IInv, Progress
<1>7. \A d \in Calls : call[d].shared \in 0..Len(limiters) /\ call[d].limiter \in 0..Len(limiters)
  BY <1>2, CallFields
<1>8. Merged'
  <2> SUFFICES ASSUME NEW d \in Calls
               PROVE  /\ call'[d].limiter = 0 => call'[d].rate = 0 /\ call'[d].shared = 0
                      /\ call'[d].limiter # 0 =>
                             limiters'[call'[d].limiter].interval = Stricter(d)'
                      /\ (call'[d].shared # 0
                             /\ call'[d].rate <= limiters'[call'[d].shared].interval)
                             => call'[d].limiter = call'[d].shared
    BY DEF Merged
  <2>1. /\ call'[d].limiter = call[d].limiter /\ call'[d].shared = call[d].shared
        /\ call'[d].rate = call[d].rate
    BY <1>1, <1>3 DEF m
  <2>2. /\ call[d].limiter # 0 =>
              limiters'[call[d].limiter].interval = limiters[call[d].limiter].interval
        /\ call[d].shared # 0 =>
              limiters'[call[d].shared].interval = limiters[call[d].shared].interval
    BY <1>2, <1>4, <1>7
  <2>3. Stricter(d)' = Stricter(d)
    BY <2>1, <2>2 DEF Stricter
  <2> QED
    BY <2>1, <2>2, <2>3 DEF IInv, Merged
<1>9. Paced'
  <2> SUFFICES ASSUME NEW d \in Calls, call'[d].limiter # 0
               PROVE  LET l == limiters'[call'[d].limiter]
                      IN  /\ sent[d] > 0 => call'[d].since + (sent[d] - 1) * l.interval < now + Threshold
                          /\ call'[d].at = "acquire" /\ sent[d] > 0 =>
                                 l.next >= call'[d].since + sent[d] * l.interval
                          /\ Sleeps(d)' =>
                                 /\ call'[d].slot >= call'[d].since + sent[d] * l.interval
                                 /\ l.next >= call'[d].slot + l.interval
    BY <1>1 DEF Paced
  <2> DEFINE k == call[d].limiter
             i == limiters[k].interval
             reached == call[d].since + sent[d] * i
  <2>1. /\ call'[d].limiter = k /\ call'[d].since = call[d].since /\ k \in 1..Len(limiters)
    <3>1. call'[d].limiter = k /\ call'[d].since = call[d].since
      BY <1>1, <1>3 DEF m
    <3> QED
      BY <1>2, <1>7, <3>1
  <2>2. /\ limiters'[k].interval = i /\ i \in Nat /\ limiters[k].next \in Nat
        /\ call[d].since \in Nat /\ call[d].since <= now /\ sent[d] \in Nat /\ call[d].slot \in Nat
    BY <1>2, <1>4, <2>1, CallFields, LimiterFields
  <2>3. /\ sent[d] > 0 => call[d].since + (sent[d] - 1) * i < now + Threshold
        /\ call[d].at = "acquire" /\ sent[d] > 0 => limiters[k].next >= reached
        /\ Sleeps(d) => call[d].slot >= reached /\ limiters[k].next >= call[d].slot + i
    BY <2>1 DEF IInv, Paced
  <2>4. limiters'[k].next \in Nat /\ limiters'[k].next >= limiters[k].next
    <3>1. CASE k = m
      BY <1>1, <1>4, <2>1, <2>2, <3>1
    <3>2. CASE k # m
      BY <1>4, <2>1, <2>2, <3>2
    <3> QED
      BY <3>1, <3>2
  <2>5. reached \in Nat
    <3> HIDE DEF i
    <3>1. sent[d] * i \in Nat
      <4>1. sent[d] \in Nat /\ i \in Nat
        BY <2>2
      <4> QED
        BY <4>1, Product
    <3> DEFINE ahead == sent[d] * i
    <3> HIDE DEF ahead
    <3>2. call[d].since + ahead \in Nat
      BY <2>2, <3>1 DEF ahead
    <3> QED
      BY <3>2 DEF ahead
  <2>5a. sent[d] = 0 => reached <= now
    BY <2>2
  <2>6. CASE d = c
    <3>1. k = m /\ limiters'[k].next = slot + i /\ slot >= limiters[k].next
      BY <1>1, <1>4, <2>1, <2>6 DEF m
    <3>2. call'[d].at = "check" /\ call'[d].slot = slot
      BY <1>3, <2>6
    <3> HIDE DEF k, i, reached
    <3>3. slot >= reached
      <4>1. CASE sent[d] = 0
        BY <1>1, <1>2, <2>5, <2>5a, <4>1
      <4>2. CASE sent[d] # 0
        <5>1. limiters[k].next >= reached
          BY <1>1, <2>2, <2>3, <2>6, <4>2
        <5> QED
          BY <1>1, <2>2, <2>5, <3>1, <5>1
      <4> QED
        BY <4>1, <4>2
    <3>4. slot + i >= slot + i
      BY <1>1, <2>2
    <3> QED
      BY <2>1, <2>2, <2>3, <3>1, <3>2, <3>3, <3>4 DEF reached, Sleeps
  <2>7. CASE d # c
    <3>1. call'[d] = call[d]
      BY <1>1, <2>7
    <3> HIDE DEF k, i, reached
    <3>2. /\ call[d].at = "acquire" /\ sent[d] > 0 => limiters'[k].next >= reached
          /\ Sleeps(d) => limiters'[k].next >= call[d].slot + i
      BY <2>2, <2>3, <2>4, <2>5
    <3> QED
      BY <2>1, <2>2, <2>3, <3>1, <3>2 DEF reached, Sleeps
  <2> QED
    BY <2>6, <2>7
<1>10. Accounted'
  <2> SUFFICES ASSUME NEW l \in 1..Len(limiters)
               PROVE  /\ limiters'[l].born <= now
                      /\ limiters'[l].born + Cardinality(Claims(l)') * limiters'[l].interval
                             <= limiters'[l].next
                      /\ \A t \in Nat : t >= now =>
                           limiters'[l].born + Cardinality(UsedBy(l, t)') * limiters'[l].interval
                               < t + Threshold + limiters'[l].interval
    BY <1>1 DEF Accounted
  <2> DEFINE i == limiters[l].interval
             b == limiters[l].born
             n == Cardinality(Claims(l))
             new == <<c, sent[c] + 1>>
  <2>1. /\ b <= now
        /\ b + n * i <= limiters[l].next
        /\ \A t \in Nat : t >= now => b + Cardinality(UsedBy(l, t)) * i < t + Threshold + i
    BY DEF IInv, Accounted
  <2>2. limiters'[l].interval = i /\ limiters'[l].born = b
    BY <1>4
  <2>3. CASE l # m
    <3>1. ASSUME NEW e \in Calls \X (1..BatchSize)
          PROVE  /\ e \in Claims(l)' <=> e \in Claims(l)
                 /\ \A t : e \in UsedBy(l, t)' <=> e \in UsedBy(l, t)
      BY <1>1, <1>3, <2>3 DEF Claims, UsedBy, Sleeps, m
    <3>2. Claims(l)' = Claims(l) /\ \A t : UsedBy(l, t)' = UsedBy(l, t)
      BY <3>1 DEF Claims, UsedBy
    <3> QED
      BY <1>4, <2>1, <2>2, <2>3, <3>2
  <2>4. CASE l = m
    <3>1. /\ sent[c] \in Nat /\ sent[c] + 1 \in 1..BatchSize
      <4>1. sent[c] \in Nat /\ call[c].left \in Nat /\ call[c].left >= 1
            /\ sent[c] + call[c].left <= BatchSize
        BY <1>1, <1>2, CallFields DEF IInv, Progress
      <4> QED
        BY <4>1
    <3>2. new \in Calls \X (1..BatchSize) /\ new[1] = c /\ new[2] = sent[c] + 1
      BY <3>1
    <3>3. ~Sleeps(c) /\ Sleeps(c)' /\ sent' = sent
      BY <1>1, <1>3 DEF Sleeps
    <3>4. Claims(l)' = Claims(l) \cup {new} /\ new \notin Claims(l)
      <4>1. ASSUME NEW e \in Calls \X (1..BatchSize)
            PROVE  e \in Claims(l)' <=> e \in Claims(l) \/ e = new
        <5>1. CASE e[1] = c
          BY <1>3, <2>4, <3>1, <3>2, <3>3, <5>1 DEF Claims, m
        <5>2. CASE e[1] # c
          BY <1>1, <3>2, <3>3, <5>2 DEF Claims, Sleeps
        <5> QED
          BY <5>1, <5>2
      <4>2. new \notin Claims(l)
        BY <3>1, <3>2, <3>3 DEF Claims
      <4>3. Claims(l) \subseteq Calls \X (1..BatchSize) /\ Claims(l)' \subseteq Calls \X (1..BatchSize)
        BY DEF Claims
      <4> QED
        BY <3>2, <4>1, <4>2, <4>3
    <3>5. n \in Nat /\ Cardinality(Claims(l)') = n + 1
      BY <3>4, ClaimsFinite, FS_AddElement
    <3>6. /\ i \in Nat /\ b \in Nat /\ limiters[l].next \in Nat
          /\ limiters'[l].next = slot + i /\ slot >= limiters[l].next
      BY <1>1, <1>2, <1>4, <2>4, LimiterFields
    <3> HIDE DEF i, b, n
    <3>7. (n + 1) * i = n * i + i /\ n * i \in Nat
      BY <3>5, <3>6, Times
    <3>8. b + (n + 1) * i <= slot + i
      BY <1>1, <2>1, <3>6, <3>7
    <3>9. ASSUME NEW t \in Nat, t >= now
          PROVE  b + Cardinality(UsedBy(l, t)') * i < t + Threshold + i
      <4>1. ASSUME NEW e \in Calls \X (1..BatchSize)
            PROVE  e \in UsedBy(l, t)' <=> e \in UsedBy(l, t) \/ (e = new /\ slot < t + Threshold)
        <5>1. CASE e[1] = c
          BY <1>3, <2>4, <3>1, <3>2, <3>3, <5>1 DEF Claims, UsedBy, m
        <5>2. CASE e[1] # c
          BY <1>1, <3>2, <3>3, <5>2 DEF Claims, UsedBy, Sleeps
        <5> QED
          BY <5>1, <5>2
      <4>2. /\ UsedBy(l, t) \subseteq Calls \X (1..BatchSize)
            /\ UsedBy(l, t)' \subseteq Calls \X (1..BatchSize)
            /\ UsedBy(l, t) \subseteq Claims(l)
        BY DEF Claims, UsedBy
      <4>3. CASE slot < t + Threshold
        <5>1. UsedBy(l, t)' = UsedBy(l, t) \cup {new} /\ new \notin UsedBy(l, t)
          BY <3>2, <3>4, <4>1, <4>2, <4>3
        <5> DEFINE u == Cardinality(UsedBy(l, t))
        <5>2. u \in Nat /\ u <= n /\ Cardinality(UsedBy(l, t)') = u + 1
          BY <5>1, ClaimsFinite, FS_AddElement DEF n
        <5> HIDE DEF u
        <5>3. u * i <= n * i /\ (u + 1) * i = u * i + i /\ u * i \in Nat
          BY <3>5, <3>6, <5>2, Times
        <5>4. b + (u + 1) * i < t + Threshold + i
          <6> DEFINE p == u * i
                     q == n * i
          <6>1. p \in Nat /\ q \in Nat /\ p <= q /\ b + q <= limiters[l].next
            BY <2>1, <3>7, <5>3
          <6> HIDE DEF p, q
          <6>2. slot \in Nat /\ Threshold \in Nat
            BY <1>1
          <6>3. b + p <= limiters[l].next
            BY <3>6, <6>1
          <6>4. b + p <= slot
            BY <3>6, <6>1, <6>2, <6>3
          <6>5. b + (p + i) < t + Threshold + i
            BY <3>6, <4>3, <6>1, <6>2, <6>4, RoomForOne
          <6> QED
            BY <5>3, <6>5 DEF p
        <5> QED
          BY <5>2, <5>4
      <4>4. CASE ~(slot < t + Threshold)
        <5>1. UsedBy(l, t)' = UsedBy(l, t)
          BY <4>1, <4>2, <4>4
        <5> QED
          BY <2>1, <3>9, <5>1
      <4> QED
        BY <4>3, <4>4
    <3> QED
      BY <2>1, <2>2, <3>5, <3>6, <3>8, <3>9
  <2> QED
    BY <2>3, <2>4
<1> QED
  BY <1>5, <1>6, <1>8, <1>9, <1>10 DEF IInv


-----------------------------------------------------------------------------
(* A slot has come and is used.                                              *)

LEMMA SendStep ==
    ASSUME IInv, NEW c \in Calls, Send(c)
    PROVE  IInv'
<1>1. /\ Typed /\ now \in Nat /\ Len(limiters) \in Nat /\ call[c] \in CallState
      /\ call[c].at \in {"check", "sleep"} /\ call[c].slot \in Nat
      /\ call[c].slot < now + Threshold /\ sent[c] \in Nat /\ call[c].left \in Nat
      /\ UNCHANGED <<now, limiters, shared>>
  BY CallFields DEF IInv, Typed, Send, SkipSleep
<1>2. call[c].left >= 1 /\ sent[c] + call[c].left <= BatchSize
  BY <1>1 DEF IInv, Progress
<1>3. /\ call'[c] = [call[c] EXCEPT !.left = call[c].left - 1, !.slot = 0,
                                    !.at = IF call[c].left = 1 THEN "over" ELSE "acquire"]
      /\ \A d \in Calls : d # c => call'[d] = call[d]
  BY <1>1 DEF Send, Typed
<1>4. sent'[c] = sent[c] + 1 /\ \A d \in Calls : d # c => sent'[d] = sent[d]
  BY <1>1 DEF Send, Typed
<1>5. /\ call'[c].at = IF call[c].left = 1 THEN "over" ELSE "acquire"
      /\ call'[c].left = call[c].left - 1
      /\ call'[c].limiter = call[c].limiter /\ call'[c].shared = call[c].shared
      /\ call'[c].rate = call[c].rate /\ call'[c].since = call[c].since
      /\ call'[c] \in CallState
  <2> DEFINE next == IF call[c].left = 1 THEN "over" ELSE "acquire"
  <2>1. next \in {"idle", "acquire", "check", "sleep", "over"} /\ call[c].left - 1 \in Nat
    BY <1>1, <1>2
  <2> HIDE DEF next
  <2>2. call'[c] = [call[c] EXCEPT !.left = call[c].left - 1, !.slot = 0, !.at = next]
    BY <1>3 DEF next
  <2>3. /\ call'[c].at = next /\ call'[c].left = call[c].left - 1
        /\ call'[c].limiter = call[c].limiter /\ call'[c].shared = call[c].shared
        /\ call'[c].rate = call[c].rate /\ call'[c].since = call[c].since
    BY <1>1, <2>2 DEF CallState
  <2>4. call'[c] \in CallState
    <3> DEFINE halfway == [call[c] EXCEPT !.left = call[c].left - 1, !.slot = 0]
    <3>1. halfway \in CallState
      BY <1>1, <2>1 DEF CallState
    <3>2. call'[c] = [halfway EXCEPT !.at = next]
      BY <2>2
    <3> HIDE DEF halfway
    <3> QED
      BY <2>1, <3>1, <3>2 DEF CallState
  <2> QED
    BY <2>3, <2>4 DEF next
<1>6. Typed'
  <2>1. CallState' = CallState
    BY <1>1 DEF CallState
  <2>2. call' = [call EXCEPT ![c] = call'[c]]
    BY <1>1, <1>3 DEF Send, Typed
  <2>3. call' \in [Calls -> CallState]
    BY <1>1, <1>5, <2>2 DEF Typed
  <2>4. sent' \in [Calls -> 0..BatchSize]
    BY <1>1, <1>2 DEF Send, Typed
  <2> QED
    BY <1>1, <2>1, <2>3, <2>4 DEF Typed
<1>7. Progress'
  <2> SUFFICES ASSUME NEW d \in Calls
               PROVE  /\ call'[d].at = "idle" => sent'[d] = 0 /\ call'[d].limiter = 0
                                                 /\ call'[d].rate = 0 /\ call'[d].shared = 0
                      /\ call'[d].at \in {"acquire", "check", "sleep"} =>
                             call'[d].left >= 1 /\ sent'[d] + call'[d].left <= BatchSize
    BY DEF Progress
  <2>1. CASE d = c
    BY <1>1, <1>2, <1>4, <1>5, <2>1
  <2>2. CASE d # c
    BY <1>3, <1>4, <2>2 DEF IInv, Progress
  <2> QED
    BY <2>1, <2>2
<1>8. \A d \in Calls : /\ call'[d].limiter = call[d].limiter /\ call'[d].shared = call[d].shared
                       /\ call'[d].rate = call[d].rate /\ call'[d].since = call[d].since
  BY <1>3, <1>5
<1>9. Merged'
  BY <1>1, <1>8 DEF IInv, Merged, Stricter
<1>10. Paced'
  <2> SUFFICES ASSUME NEW d \in Calls, call[d].limiter # 0
               PROVE  LET l == limiters[call[d].limiter]
                      IN  /\ sent'[d] > 0 => call[d].since + (sent'[d] - 1) * l.interval < now + Threshold
                          /\ call'[d].at = "acquire" /\ sent'[d] > 0 =>
                                 l.next >= call[d].since + sent'[d] * l.interval
                          /\ Sleeps(d)' =>
                                 /\ call'[d].slot >= call[d].since + sent'[d] * l.interval
                                 /\ l.next >= call'[d].slot + l.interval
    BY <1>1, <1>8 DEF Paced
  <2>1. CASE d = c
    <3> DEFINE l == limiters[call[c].limiter]
               i == l.interval
               s == call[c].since
               n == sent[c]
    <3>1. /\ call[c].slot >= s + n * i
          /\ l.next >= call[c].slot + i
      BY <1>1, <2>1 DEF IInv, Paced, Sleeps
    <3>2. call[c].limiter \in 1..Len(limiters)
      BY <1>1, <2>1, CallFields
    <3>3. i \in Nat /\ s \in Nat /\ l.next \in Nat /\ n \in Nat
      BY <1>1, <3>2, CallFields, LimiterFields
    <3>5. sent'[d] = n + 1 /\ call'[d].at \notin {"check", "sleep"}
      BY <1>4, <1>5, <2>1
    <3> HIDE DEF l, i, s, n
    <3>4. n * i \in Nat /\ (n + 1) * i = n * i + i /\ (n + 1) - 1 = n
      BY <3>3, Times
    <3>6. s + n * i < now + Threshold /\ l.next >= s + (n + 1) * i
      <4> DEFINE p == n * i
      <4>1. p \in Nat /\ call[c].slot >= s + p
        BY <3>1, <3>4
      <4> HIDE DEF p
      <4>2. s + p < now + Threshold /\ l.next >= s + (p + i)
        BY <1>1, <3>1, <3>3, <4>1
      <4> QED
        BY <3>4, <4>2 DEF p
    <3>7. s + ((n + 1) - 1) * i < now + Threshold
      BY <3>4, <3>6
    <3> QED
      BY <2>1, <3>5, <3>6, <3>7 DEF l, i, s, Sleeps
  <2>2. CASE d # c
    BY <1>3, <1>4, <2>2 DEF IInv, Paced, Sleeps
  <2> QED
    BY <2>1, <2>2
<1>11. Accounted'
  <2>1. ASSUME NEW l, NEW t \in Nat, t >= now
        PROVE  Claims(l)' = Claims(l) /\ UsedBy(l, t)' = UsedBy(l, t)
    <3>1. ASSUME NEW e \in Calls \X (1..BatchSize)
          PROVE  /\ e \in Claims(l)' <=> e \in Claims(l)
                 /\ e \in UsedBy(l, t)' <=> e \in UsedBy(l, t)
      <4>1. CASE e[1] = c
        <5>1. Sleeps(c) /\ ~Sleeps(c)' /\ call[c].slot < t + Threshold
          BY <1>1, <1>5, <2>1 DEF Sleeps
        <5>2. e[2] <= sent'[c] <=> e[2] <= sent[c] \/ e[2] = sent[c] + 1
          BY <1>1, <1>4
        <5> QED
          BY <1>8, <4>1, <5>1, <5>2 DEF Claims, UsedBy
      <4>2. CASE e[1] # c
        BY <1>3, <1>4, <4>2 DEF Claims, UsedBy, Sleeps
      <4> QED
        BY <4>1, <4>2
    <3>2. /\ Claims(l) \subseteq Calls \X (1..BatchSize)
          /\ Claims(l)' \subseteq Calls \X (1..BatchSize)
          /\ UsedBy(l, t) \subseteq Claims(l) /\ UsedBy(l, t)' \subseteq Claims(l)'
      BY DEF Claims, UsedBy
    <3> QED
      BY <3>1, <3>2
  <2>2. ASSUME NEW l
        PROVE  Claims(l)' = Claims(l)
    <3>1. now \in Nat /\ now >= now
      BY <1>1
    <3> QED
      BY <2>1, <3>1
  <2> QED
    BY <1>1, <2>1, <2>2 DEF IInv, Accounted
<1> QED
  BY <1>6, <1>7, <1>9, <1>10, <1>11 DEF IInv

-----------------------------------------------------------------------------
(* A call finds its slot far enough away to sleep: it still has it.          *)

LEMMA SleepStep ==
    ASSUME IInv, NEW c \in Calls, Sleep(c)
    PROVE  IInv'
<1>1. /\ Typed /\ now \in Nat /\ call[c] \in CallState /\ call[c].at = "check"
      /\ UNCHANGED <<now, limiters, shared, sent>>
  BY CallFields DEF IInv, Typed, Sleep
<1>2. /\ call'[c] = [call[c] EXCEPT !.at = "sleep"]
      /\ \A d \in Calls : d # c => call'[d] = call[d]
  BY <1>1 DEF Sleep, Typed
<1>3. call'[c] \in CallState /\ call'[c].at = "sleep"
  BY <1>1, <1>2 DEF CallState
<1>4. \A d \in Calls :
        /\ call'[d].limiter = call[d].limiter /\ call'[d].shared = call[d].shared
        /\ call'[d].rate = call[d].rate /\ call'[d].since = call[d].since
        /\ call'[d].left = call[d].left /\ call'[d].slot = call[d].slot
        /\ Sleeps(d)' <=> Sleeps(d)
        /\ call'[d].at = "acquire" <=> call[d].at = "acquire"
        /\ call'[d].at = "idle" <=> call[d].at = "idle"
  <2>1. /\ call'[c].limiter = call[c].limiter /\ call'[c].shared = call[c].shared
        /\ call'[c].rate = call[c].rate /\ call'[c].since = call[c].since
        /\ call'[c].left = call[c].left /\ call'[c].slot = call[c].slot
    BY <1>1, <1>2 DEF CallState
  <2> QED
    BY <1>1, <1>2, <1>3, <2>1 DEF Sleeps
<1>5. Typed'
  <2>1. CallState' = CallState
    BY <1>1 DEF CallState
  <2>2. call' = [call EXCEPT ![c] = call'[c]]
    BY <1>1, <1>2 DEF Sleep, Typed
  <2>3. call' \in [Calls -> CallState]
    BY <1>1, <1>3, <2>2 DEF Typed
  <2> QED
    BY <1>1, <2>1, <2>3 DEF Typed
<1>6. Progress'
  BY <1>1, <1>4 DEF IInv, Progress, Sleeps
<1>7. Merged'
  BY <1>1, <1>4 DEF IInv, Merged, Stricter
<1>8. Paced'
  BY <1>1, <1>4 DEF IInv, Paced
<1>9. Accounted'
  <2>1. ASSUME NEW l, NEW t
        PROVE  Claims(l)' = Claims(l) /\ UsedBy(l, t)' = UsedBy(l, t)
    <3>1. ASSUME NEW e \in Calls \X (1..BatchSize)
          PROVE  /\ e \in Claims(l)' <=> e \in Claims(l)
                 /\ e \in UsedBy(l, t)' <=> e \in UsedBy(l, t)
      BY <1>1, <1>4 DEF Claims, UsedBy
    <3>2. /\ Claims(l) \subseteq Calls \X (1..BatchSize)
          /\ Claims(l)' \subseteq Calls \X (1..BatchSize)
          /\ UsedBy(l, t) \subseteq Claims(l) /\ UsedBy(l, t)' \subseteq Claims(l)'
      BY DEF Claims, UsedBy
    <3> QED
      BY <3>1, <3>2
  <2> QED
    BY <1>1, <2>1 DEF IInv, Accounted
<1> QED
  BY <1>5, <1>6, <1>7, <1>8, <1>9 DEF IInv

-----------------------------------------------------------------------------
\* A behaviour starts in the invariant.
LEMMA InitIInv == Init => IInv
<1> SUFFICES ASSUME Init
             PROVE  IInv
  OBVIOUS
<1>1. /\ Len(limiters) = 0 /\ limiters \in Seq(Limiter) /\ now = 0
      /\ \A c \in Calls : /\ call[c].at = "idle" /\ call[c].limiter = 0 /\ call[c].rate = 0
                          /\ call[c].shared = 0 /\ sent[c] = 0
  BY DEF Init
<1>2. Typed
  BY <1>1 DEF Init, Typed, CallState
<1> QED
  BY <1>1, <1>2 DEF IInv, Progress, Merged, Paced, Accounted

\* Every step keeps it.
LEMMA NextIInv == IInv /\ [Next]_vars => IInv'
<1> SUFFICES ASSUME IInv, [Next]_vars
             PROVE  IInv'
  OBVIOUS
<1>1. CASE Tick
  <2>1. Grows /\ now' \in Nat /\ now' >= now /\ shared' \in 0..Len(limiters')
    BY <1>1, SameGrows DEF Tick, IInv, Typed
  <2> QED
    BY <1>1, <2>1, QuietStep DEF Tick
<1>2. ASSUME NEW i \in Intervals \cup {0}, SetRateLimit(i)
      PROVE  IInv'
  BY <1>2, SetRateLimitStep
<1>3. ASSUME NEW c \in Calls, Request(c)
      PROVE  IInv'
  BY <1>3, RequestStep
<1>4. ASSUME NEW c \in Calls, NEW rate \in Intervals \cup {0}, RequestBatch(c, rate)
      PROVE  IInv'
  BY <1>4, RequestBatchStep
<1>5. ASSUME NEW c \in Calls, RawConnect(c)
      PROVE  IInv'
  BY <1>5, RequestStep
<1>6. ASSUME NEW c \in Calls, Acquire(c)
      PROVE  IInv'
  BY <1>6, AcquireStep
<1>7. ASSUME NEW c \in Calls, Send(c)
      PROVE  IInv'
  BY <1>7, SendStep
<1>7a. ASSUME NEW c \in Calls, Sleep(c)
       PROVE  IInv'
  BY <1>7a, SleepStep
<1>8. CASE UNCHANGED vars
  <2>1. Grows /\ now' \in Nat /\ now' >= now /\ shared' \in 0..Len(limiters')
    BY <1>8, SameGrows DEF vars, IInv, Typed
  <2> QED
    BY <1>8, <2>1, QuietStep DEF vars
<1> QED
  BY <1>1, <1>2, <1>3, <1>4, <1>5, <1>6, <1>7, <1>7a, <1>8 DEF Next

LEMMA InductiveInvariant == Spec => []IInv
  BY InitIInv, NextIInv, PTL DEF Spec

\* A call is never let through faster than the stricter of the client's rate
\* when it was made and its own, but for the sleeps acquire() skips (the last
\* token may come early by less than Threshold, however short the interval):
\* merge_limiters picks that limiter, and no later set_rate_limit, nor any other
\* call, takes it away.
THEOREM StricterLimitHolds == Spec => []StricterLimitWins
<1>1. IInv => StricterLimitWins
  <2> SUFFICES ASSUME IInv, NEW c \in Calls
               PROVE  Within(sent[c], Stricter(c), call[c].since)
    BY DEF StricterLimitWins, Stricter
  <2> DEFINE i == Stricter(c)
             n == sent[c]
             s == call[c].since
  <2>1. Typed /\ now \in Nat /\ n \in Nat /\ s \in Nat /\ s <= now
    BY CallFields DEF IInv, Typed
  <2>2. CASE call[c].limiter = 0
    <3>1. i = 0
      BY <2>2 DEF IInv, Merged, Stricter, Later
    <3> HIDE DEF i, n, s
    <3>2. (n - 1) * i = 0
      BY <2>1, <3>1
    <3> QED
      BY <2>1, <3>2 DEF Within, i, n, s
  <2>3. CASE call[c].limiter # 0
    <3>1. call[c].limiter \in 1..Len(limiters)
      BY <2>1, <2>3, CallFields
    <3>2. limiters[call[c].limiter].interval = i
      BY <2>3 DEF IInv, Merged
    <3>3. i \in Nat
      BY <2>1, <3>1, <3>2, LimiterFields
    <3>4. n > 0 => s + (n - 1) * i < now + Threshold
      BY <2>3, <3>2 DEF IInv, Paced
    <3> HIDE DEF i, n, s
    <3> DEFINE p == (n - 1) * i
    <3>5. p \in Int
      BY <2>1, <3>3
    <3> HIDE DEF p
    <3>6. n > 0 => p < (now - s) + Threshold
      BY <2>1, <3>4, <3>5 DEF p
    <3> QED
      BY <3>6 DEF Within, p, i, n, s
  <2> QED
    BY <2>2, <2>3
<1> QED
  BY <1>1, InductiveInvariant, PTL

\* All calls that share the client's limiter stay under its rate together, but
\* for the skipped sleeps: every one of them waits for slots of the same limiter,
\* which hands out each once, and none is let through by Threshold or more before
\* its slot.
THEOREM SharedLimitIsKept == Spec => []SharedLimitHolds
<1>1. IInv => SharedLimitHolds
  <2> SUFFICES ASSUME IInv, NEW l \in ClientLimiters
               PROVE  LET sharing == {c \in Under(l) : call[c].rate <= limiters[l].interval}
                      IN  Within(Cardinality(Through(sharing)), limiters[l].interval,
                                 limiters[l].born)
    BY DEF SharedLimitHolds
  <2> DEFINE sharing == {c \in Under(l) : call[c].rate <= limiters[l].interval}
             used == Cardinality(UsedBy(l, now))
             n == Cardinality(Through(sharing))
             i == limiters[l].interval
             b == limiters[l].born
  <2>1. Typed /\ now \in Nat /\ l \in 1..Len(limiters) /\ Len(limiters) \in Nat
    BY DEF IInv, Typed, ClientLimiters
  <2>2. \A c \in sharing : call[c].limiter = l
    BY <2>1 DEF IInv, Merged, Under
  <2>3. Through(sharing) \subseteq UsedBy(l, now)
    BY <2>2 DEF Through, Under, UsedBy, Claims
  <2>4. n \in Nat /\ used \in Nat /\ n <= used
    BY <2>3, ClaimsFinite, FS_Subset, FS_CardinalityType
  <2>5. i \in Nat /\ b \in Nat /\ b <= now
    BY <2>1, LimiterFields DEF IInv, Accounted
  <2>6. b + used * i < now + Threshold + i
    BY <2>1 DEF IInv, Accounted
  <2> HIDE DEF n, used, i, b
  <2>7. n * i <= used * i /\ n * i \in Nat /\ used * i \in Nat
    BY <2>4, <2>5, Times
  <2>8. ASSUME n > 0
        PROVE  (n - 1) * i < (now - b) + Threshold
    <3>1. n - 1 \in Nat /\ (n - 1) + 1 = n
      BY <2>4, <2>8
    <3>2. ((n - 1) + 1) * i = (n - 1) * i + i /\ (n - 1) * i \in Nat
      BY <2>5, <3>1, Times
    <3>3. n * i = (n - 1) * i + i
      BY <3>1, <3>2
    <3> QED
      BY <2>1, <2>5, <2>6, <2>7, <3>2, <3>3
  <2> QED
    BY <2>8 DEF Within, n, i, b
<1> QED
  BY <1>1, InductiveInvariant, PTL
=============================================================================
