--------------------------- MODULE RateLimiterProofs --------------------------
(***************************************************************************)
(* The rate limiter's safety properties, for every number of callers, every *)
(* interval, threshold and word size.                                       *)
(***************************************************************************)
EXTENDS RateLimiter, FiniteSetTheorems, TLAPS

USE IntervalAssumption, ThresholdAssumption, MaxNsAssumption, BoundsAssumption

(***************************************************************************)
(* The inductive invariant.  The cursor lies an interval past every slot    *)
(* handed out (or is saturated); nobody holds a cursor value from the       *)
(* future; and a caller whose CAS can still succeed read the clock after    *)
(* the last slot was claimed.                                               *)
(***************************************************************************)
CursorPastSlots ==
    \A i \in 1..Len(grants) :
        next_ns >= grants[i].slot + Interval \/ next_ns = MaxNs

LoadedCursorNotAhead ==
    \A c \in Callers : pc[c] \in {"clock", "cas"} => current[c] <= next_ns

GrantsInThePast == \A i \in 1..Len(grants) : grants[i].at <= now

FreshClock ==
    \A c \in Callers :
        (pc[c] = "cas" /\ current[c] = next_ns) =>
            \A i \in 1..Len(grants) : grants[i].at <= now_ns[c] \/ next_ns = MaxNs

IInv ==
    /\ TypeOK
    /\ CursorPastSlots
    /\ LoadedCursorNotAhead
    /\ GrantsInThePast
    /\ FreshClock
    /\ SlotsSpaced
    /\ NoStockpile

\* A sum that saturates is in range and no smaller than either summand.
LEMMA SaturatingAddBounds ==
    ASSUME NEW a \in 0..MaxNs
    PROVE  /\ SaturatingAdd(a, Interval) \in 0..MaxNs
           /\ SaturatingAdd(a, Interval) >= a
           /\ SaturatingAdd(a, Interval) >= a + Interval \/ SaturatingAdd(a, Interval) = MaxNs
           /\ SaturatingAdd(a, Interval) = a => a = MaxNs
  BY DEF SaturatingAdd

\* What the history of grants holds.
LEMMA GrantFields ==
    ASSUME TypeOK, NEW i \in 1..Len(grants)
    PROVE  grants[i].slot \in 0..MaxNs /\ grants[i].at \in 0..MaxNs
<1>1. grants \in Seq(Grant)
  BY DEF TypeOK
<1>2. grants[i] \in Grant
  BY <1>1
<1> QED
  BY <1>2 DEF Grant

\* The type invariant is inductive by itself.
LEMMA TypeStep == TypeOK /\ [Next]_vars => TypeOK'
<1> SUFFICES ASSUME TypeOK, [Next]_vars PROVE TypeOK'
  OBVIOUS
<1> USE DEF TypeOK, PcValues
<1>1. CASE Tick
  BY <1>1 DEF Tick
<1>2. ASSUME NEW c \in Callers, Acquire(c) PROVE TypeOK'
  <2>1. CASE Call(c)
    BY <2>1 DEF Call
  <2>2. CASE Load(c)
    BY <2>2 DEF Load
  <2>3. CASE ReadClock(c)
    BY <2>3 DEF ReadClock
  <2>4. CASE CasOk(c)
    <3>1. Base(c) \in 0..MaxNs
      BY DEF Base, Larger
    <3>2. SaturatingAdd(Base(c), Interval) \in 0..MaxNs
      BY <3>1, SaturatingAddBounds
    <3>3. [slot |-> Base(c), at |-> now] \in Grant
      BY <3>1 DEF Grant
    <3> HIDE DEF PcValues
    <3> QED
      BY <2>4, <3>1, <3>2, <3>3 DEF CasOk, PcValues
  <2>5. CASE CasFail(c)
    BY <2>5 DEF CasFail
  <2>6. CASE CheckReturns(c)
    BY <2>6 DEF CheckReturns, Return
  <2>7. CASE CheckSleeps(c)
    BY <2>7 DEF CheckSleeps
  <2>8. CASE Wake(c)
    BY <2>8 DEF Wake, Return
  <2> QED
    BY <1>2, <2>1, <2>2, <2>3, <2>4, <2>5, <2>6, <2>7, <2>8 DEF Acquire
<1>3. CASE UNCHANGED vars
  BY <1>3 DEF vars
<1> QED
  BY <1>1, <1>2, <1>3 DEF Next

\* Every reachable state of the limiter is well typed: no cursor, slot or
\* clock reading leaves the range of a u64.
THEOREM TypeCorrect == Spec => []TypeOK
<1>1. Init => TypeOK
  BY DEF Init, TypeOK, PcValues
<1> QED
  BY <1>1, TypeStep, PTL DEF Spec

\* A successful CAS keeps the inductive invariant.
LEMMA CasOkStep ==
    ASSUME IInv, TypeOK', NEW c \in Callers, CasOk(c)
    PROVE  IInv'
<1> DEFINE g == [slot |-> Base(c), at |-> now]
<1>1. /\ Base(c) \in 0..MaxNs
      /\ Base(c) >= next_ns
      /\ Base(c) >= now_ns[c]
  BY DEF Base, Larger, CasOk, IInv, TypeOK
<1>2. /\ next_ns' >= Base(c)
      /\ next_ns' >= Base(c) + Interval \/ next_ns' = MaxNs
      /\ next_ns' = Base(c) => Base(c) = MaxNs
      /\ next_ns' \in 0..MaxNs
  BY <1>1, SaturatingAddBounds DEF CasOk
<1>3. /\ Len(grants') = Len(grants) + 1
      /\ \A i \in 1..Len(grants) : grants'[i] = grants[i]
      /\ grants'[Len(grants) + 1] = g
      /\ Len(grants) \in Nat
  BY DEF CasOk, IInv, TypeOK
<1>4. g.slot = Base(c) /\ g.at = now
  OBVIOUS
<1>5. \A i \in 1..Len(grants) : grants[i].slot \in 0..MaxNs /\ grants[i].at \in 0..MaxNs
  BY GrantFields DEF IInv
<1>6. now' = now /\ now \in 0..MaxNs /\ next_ns \in 0..MaxNs /\ next_ns = current[c]
  BY DEF CasOk, IInv, TypeOK
<1> HIDE DEF g
<1>7. CursorPastSlots'
  <2> SUFFICES ASSUME NEW i \in 1..Len(grants')
               PROVE  next_ns' >= grants'[i].slot + Interval \/ next_ns' = MaxNs
    BY DEF CursorPastSlots
  <2>1. CASE i \in 1..Len(grants)
    <3>1. next_ns >= grants[i].slot + Interval \/ next_ns = MaxNs
      BY <2>1 DEF IInv, CursorPastSlots
    <3> QED
      BY <1>1, <1>2, <1>3, <1>5, <1>6, <2>1, <3>1
  <2>2. CASE i = Len(grants) + 1
    BY <1>2, <1>3, <1>4, <2>2
  <2> QED
    BY <1>3, <2>1, <2>2
<1>8. LoadedCursorNotAhead'
  BY <1>1, <1>2, <1>6 DEF CasOk, IInv, LoadedCursorNotAhead, TypeOK
<1>9. GrantsInThePast'
  BY <1>3, <1>4, <1>6 DEF IInv, GrantsInThePast
<1>10. FreshClock'
  <2> SUFFICES ASSUME NEW d \in Callers, (pc[d] = "cas" /\ current[d] = next_ns)'
               PROVE  next_ns' = MaxNs
    BY DEF FreshClock
  <2>1. pc[d] = "cas" /\ current'[d] = current[d] /\ current[d] \in 0..MaxNs
    BY DEF CasOk, IInv, TypeOK
  <2>2. current[d] <= next_ns
    BY <2>1 DEF IInv, LoadedCursorNotAhead
  <2> QED
    BY <1>1, <1>2, <1>6, <2>1, <2>2
<1>11. SlotsSpaced'
  <2> SUFFICES ASSUME NEW i \in 1..Len(grants'), NEW j \in 1..Len(grants'), i < j
               PROVE  \/ grants'[j].slot >= grants'[i].slot + Interval
                      \/ grants'[j].slot = MaxNs
    BY DEF SlotsSpaced
  <2>1. i \in 1..Len(grants)
    BY <1>3
  <2>2. CASE j \in 1..Len(grants)
    BY <1>3, <2>1, <2>2 DEF IInv, SlotsSpaced
  <2>3. CASE j = Len(grants) + 1
    <3>1. grants'[j].slot = Base(c) /\ grants'[i] = grants[i]
      BY <1>3, <1>4, <2>1, <2>3
    <3>2. next_ns >= grants[i].slot + Interval \/ next_ns = MaxNs
      BY <2>1 DEF IInv, CursorPastSlots
    <3> QED
      BY <1>1, <1>5, <1>6, <2>1, <3>1, <3>2
  <2> QED
    BY <1>3, <2>2, <2>3
<1>12. NoStockpile'
  <2> SUFFICES ASSUME NEW i \in 1..(Len(grants') - 1)
               PROVE  grants'[i + 1].slot >= grants'[i].at
    BY DEF NoStockpile
  <2>1. i \in 1..Len(grants)
    BY <1>3
  <2>2. CASE i < Len(grants)
    BY <1>3, <2>1, <2>2 DEF IInv, NoStockpile
  <2>3. CASE i = Len(grants)
    <3>1. grants'[i + 1].slot = Base(c) /\ grants'[i] = grants[i]
      BY <1>3, <1>4, <2>1, <2>3
    <3>2. grants[i].at <= now_ns[c] \/ next_ns = MaxNs
      BY <1>6, <2>1 DEF IInv, FreshClock, CasOk
    <3>3. now_ns[c] \in 0..MaxNs
      BY DEF IInv, TypeOK
    <3> QED
      BY <1>1, <1>5, <1>6, <2>1, <3>1, <3>2, <3>3
  <2> QED
    BY <1>3, <2>1, <2>2, <2>3
<1> QED
  BY <1>7, <1>8, <1>9, <1>10, <1>11, <1>12 DEF IInv

\* Every other step leaves the cursor and the history of grants alone.
LEMMA OtherStep ==
    ASSUME IInv, TypeOK', next_ns' = next_ns, grants' = grants,
           now' >= now,
           \A c \in Callers : pc'[c] \in {"clock", "cas"} =>
               \/ pc[c] \in {"clock", "cas"} /\ current'[c] = current[c]
               \/ current'[c] = next_ns,
           \A c \in Callers : pc'[c] = "cas" =>
               \/ pc[c] = "cas" /\ current'[c] = current[c] /\ now_ns'[c] = now_ns[c]
               \/ now_ns'[c] = now
    PROVE  IInv'
<1>1. CursorPastSlots' /\ SlotsSpaced' /\ NoStockpile'
  BY DEF IInv, CursorPastSlots, SlotsSpaced, NoStockpile
<1>2. LoadedCursorNotAhead'
  <2> SUFFICES ASSUME NEW c \in Callers, pc'[c] \in {"clock", "cas"}
               PROVE  current'[c] <= next_ns
    BY DEF LoadedCursorNotAhead
  <2>1. next_ns \in 0..MaxNs
    BY DEF IInv, TypeOK
  <2>2. CASE pc[c] \in {"clock", "cas"} /\ current'[c] = current[c]
    BY <2>2 DEF IInv, LoadedCursorNotAhead
  <2>3. CASE current'[c] = next_ns
    BY <2>1, <2>3
  <2> QED
    BY <2>2, <2>3
<1>3. \A i \in 1..Len(grants) : grants[i].at \in 0..MaxNs
  BY GrantFields DEF IInv
<1>4. GrantsInThePast'
  BY <1>3 DEF IInv, GrantsInThePast, TypeOK
<1>5. FreshClock'
  BY <1>3 DEF IInv, FreshClock, GrantsInThePast, TypeOK
<1> QED
  BY <1>1, <1>2, <1>4, <1>5 DEF IInv

LEMMA InductiveInvariant == Spec => []IInv
<1>1. Init => IInv
  BY DEF Init, IInv, TypeOK, PcValues, CursorPastSlots, LoadedCursorNotAhead,
         GrantsInThePast, FreshClock, SlotsSpaced, NoStockpile
<1>2. IInv /\ [Next]_vars => IInv'
  <2> SUFFICES ASSUME IInv, [Next]_vars PROVE IInv'
    OBVIOUS
  <2>1. TypeOK /\ TypeOK'
    BY TypeStep DEF IInv
  <2>2. CASE Tick
    BY <2>1, <2>2, OtherStep DEF Tick, TypeOK
  <2>3. ASSUME NEW c \in Callers, Acquire(c) PROVE IInv'
    <3> USE <2>1 DEF TypeOK
    <3>1. CASE CasOk(c)
      BY <3>1, CasOkStep
    <3>2. CASE Call(c)
      BY <3>2, OtherStep DEF Call
    <3>3. CASE Load(c)
      BY <3>3, OtherStep DEF Load
    <3>4. CASE ReadClock(c)
      BY <3>4, OtherStep DEF ReadClock
    <3>5. CASE CasFail(c)
      BY <3>5, OtherStep DEF CasFail
    <3>6. CASE CheckReturns(c)
      BY <3>6, OtherStep DEF CheckReturns, Return
    <3>7. CASE CheckSleeps(c)
      BY <3>7, OtherStep DEF CheckSleeps
    <3>8. CASE Wake(c)
      BY <3>8, OtherStep DEF Wake, Return
    <3> QED
      BY <2>3, <3>1, <3>2, <3>3, <3>4, <3>5, <3>6, <3>7, <3>8 DEF Acquire
  <2>4. CASE UNCHANGED vars
    BY <2>1, <2>4, OtherStep DEF vars, TypeOK
  <2> QED
    BY <2>2, <2>3, <2>4 DEF Next
<1> QED
  BY <1>1, <1>2, PTL DEF Spec

\* No two acquires ever get slots less than interval_ns apart, however many
\* callers race on the cursor (RateLimiter::acquire).
THEOREM SlotsAreSpaced == Spec => []SlotsSpaced
  BY InductiveInvariant, PTL DEF IInv

\* No slot lies before the moment the previous one was claimed: the idle reset
\* of acquire() leaves no stockpile of back-dated slots.
THEOREM StockpileNeverForms == Spec => []NoStockpile
  BY InductiveInvariant, PTL DEF IInv

\* The atomic cursor only moves forward, by an interval at a time.
THEOREM CursorOnlyAdvances == Spec => CursorAdvances
<1>1. TypeOK /\ [Next]_vars => [next_ns' # next_ns => \/ next_ns' >= next_ns + Interval
                                                        \/ next_ns' = MaxNs]_vars
  <2> SUFFICES ASSUME TypeOK, [Next]_vars, next_ns' # next_ns
               PROVE  next_ns' >= next_ns + Interval \/ next_ns' = MaxNs
    OBVIOUS
  <2>1. PICK c \in Callers : CasOk(c)
    BY DEF Next, vars, Tick, Acquire, Call, Load, ReadClock, CasFail, CheckReturns,
           CheckSleeps, Wake, Return
  <2>2. Base(c) \in 0..MaxNs /\ Base(c) >= next_ns
    BY <2>1 DEF CasOk, Base, Larger, TypeOK
  <2>3. next_ns \in 0..MaxNs /\ next_ns' = SaturatingAdd(Base(c), Interval)
    BY <2>1 DEF CasOk, TypeOK
  <2> HIDE DEF SaturatingAdd
  <2> QED
    BY <2>2, <2>3, SaturatingAddBounds
<1> QED
  BY <1>1, TypeCorrect, PTL DEF Spec, CursorAdvances

-----------------------------------------------------------------------------
(***************************************************************************)
(* The rate.  Calls that hold a slot and have not returned are pending; one *)
(* is due at a time t if it may have returned by then.  What has returned   *)
(* by now and what will be due at t are together no more than t allows, for *)
(* every t still to come: a claim adds a slot at the cursor, which is an    *)
(* interval past the slot of each call counted so far, and a call that      *)
(* returns was due already.                                                 *)
(***************************************************************************)
Pending == {c \in Callers : pc[c] \in {"check", "sleep"}}
Due(t) == {c \in Pending : slot_ns[c] < t + Threshold}

PendingFinite == IsFiniteSet(Pending)

CursorCountsClaims ==
    (returned + Cardinality(Pending)) * Interval <= next_ns \/ next_ns = MaxNs

DueWithinRate ==
    \A t \in Nat : t >= now /\ t + Threshold <= MaxNs =>
        (returned + Cardinality(Due(t)) - 1) * Interval < t + Threshold

RateInv == TypeOK /\ PendingFinite /\ CursorCountsClaims /\ DueWithinRate

\* Who is due is pending, so there are finitely many.
LEMMA DueFinite ==
    ASSUME PendingFinite, NEW t
    PROVE  /\ IsFiniteSet(Due(t)) /\ Cardinality(Due(t)) \in Nat /\ Cardinality(Pending) \in Nat
           /\ Cardinality(Due(t)) <= Cardinality(Pending)
<1>1. Due(t) \in SUBSET Pending
  BY DEF Due
<1> QED
  BY <1>1, FS_Subset, FS_CardinalityType DEF PendingFinite

LEMMA TimesInterval ==
    ASSUME NEW m \in Int, NEW n \in Int, m <= n
    PROVE  m * Interval <= n * Interval /\ (n + 1) * Interval = n * Interval + Interval
  OBVIOUS

\* A claim.
LEMMA CasOkKeepsRate ==
    ASSUME RateInv, NEW c \in Callers, CasOk(c)
    PROVE  PendingFinite' /\ CursorCountsClaims' /\ DueWithinRate'
<1> DEFINE n == returned + Cardinality(Pending)
<1>1. /\ Base(c) \in 0..MaxNs /\ Base(c) >= next_ns /\ next_ns \in 0..MaxNs
      /\ now' = now /\ returned' = returned /\ returned \in Nat /\ now \in Nat
  BY DEF Base, Larger, CasOk, RateInv, TypeOK
<1>2. /\ next_ns' \in 0..MaxNs
      /\ next_ns' >= Base(c)
      /\ next_ns' >= Base(c) + Interval \/ next_ns' = MaxNs
  BY <1>1, SaturatingAddBounds DEF CasOk
<1>3. /\ pc' = [pc EXCEPT ![c] = "check"] /\ pc[c] = "cas"
      /\ slot_ns' = [slot_ns EXCEPT ![c] = Base(c)]
      /\ pc \in [Callers -> PcValues] /\ slot_ns \in [Callers -> 0..MaxNs]
  BY DEF CasOk, RateInv, TypeOK
<1>4. Pending' = Pending \cup {c} /\ c \notin Pending
  BY <1>3 DEF Pending
<1>5. /\ PendingFinite' /\ Cardinality(Pending') = Cardinality(Pending) + 1
      /\ Cardinality(Pending) \in Nat
  BY <1>4, FS_AddElement, FS_CardinalityType DEF RateInv, PendingFinite
<1>6. n \in Nat /\ (n + 1) * Interval = n * Interval + Interval
  BY <1>1, <1>5, TimesInterval
<1>7. n * Interval <= next_ns \/ next_ns = MaxNs
  BY DEF RateInv, CursorCountsClaims
<1>8. returned' + Cardinality(Pending') = n + 1
  BY <1>1, <1>5
<1> HIDE DEF n
<1>9. CursorCountsClaims'
  <2>1. (n + 1) * Interval <= next_ns' \/ next_ns' = MaxNs
    <3>1. CASE next_ns = MaxNs
      BY <1>1, <1>2, <3>1
    <3>2. CASE n * Interval <= next_ns
      <4>1. n * Interval \in Nat
        BY <1>6
      <4> QED
        BY <1>1, <1>2, <1>6, <3>2, <4>1
    <3> QED
      BY <1>7, <3>1, <3>2
  <2> QED
    BY <1>8, <2>1 DEF CursorCountsClaims
<1>10. DueWithinRate'
  <2> SUFFICES ASSUME NEW t \in Nat, t >= now, t + Threshold <= MaxNs
               PROVE  (returned' + Cardinality(Due(t)') - 1) * Interval < t + Threshold
    BY <1>1 DEF DueWithinRate
  <2>1. \A d \in Pending : slot_ns'[d] = slot_ns[d]
    BY <1>3, <1>4 DEF Pending
  <2>2. CASE Base(c) < t + Threshold
    <3>1. Due(t)' = Due(t) \cup {c} /\ c \notin Due(t)
      BY <1>3, <1>4, <2>1, <2>2 DEF Due
    <3>2. Cardinality(Due(t)') = Cardinality(Due(t)) + 1 /\ Cardinality(Due(t)) \in Nat
          /\ Cardinality(Due(t)) <= Cardinality(Pending)
      BY <3>1, DueFinite, FS_AddElement DEF RateInv
    <3>3. returned + Cardinality(Due(t)) <= n /\ returned + Cardinality(Due(t)) \in Nat
      BY <1>1, <1>5, <3>2 DEF n
    <3>4. n * Interval < t + Threshold
      BY <1>1, <1>6, <1>7, <2>2
    <3>5. (returned + Cardinality(Due(t))) * Interval <= n * Interval
      BY <1>6, <3>3, TimesInterval
    <3>6. returned' + Cardinality(Due(t)') - 1 = returned + Cardinality(Due(t))
      BY <1>1, <3>2
    <3> QED
      BY <1>6, <3>3, <3>4, <3>5, <3>6
  <2>3. CASE ~(Base(c) < t + Threshold)
    <3>1. Due(t)' = Due(t)
      BY <1>3, <1>4, <2>1, <2>3 DEF Due
    <3> QED
      BY <1>1, <3>1 DEF RateInv, DueWithinRate
  <2> QED
    BY <2>2, <2>3
<1> QED
  BY <1>5, <1>9, <1>10

\* A call returns: it was due, now and at every time to come.
LEMMA ReturnKeepsRate ==
    ASSUME RateInv, NEW c \in Callers, CheckReturns(c) \/ Wake(c)
    PROVE  PendingFinite' /\ CursorCountsClaims' /\ DueWithinRate'
<1>1. /\ now' = now /\ now \in Nat /\ next_ns' = next_ns
      /\ returned' = returned + 1 /\ returned \in Nat
      /\ pc' = [pc EXCEPT ![c] = "idle"] /\ pc[c] \in {"check", "sleep"}
      /\ slot_ns' = [slot_ns EXCEPT ![c] = 0]
      /\ pc \in [Callers -> PcValues] /\ slot_ns \in [Callers -> 0..MaxNs]
  BY DEF CheckReturns, Wake, Return, RateInv, TypeOK
<1>2. slot_ns[c] < now + Threshold
  BY <1>1 DEF CheckReturns, Wake, SkipSleep
<1>3. c \in Pending /\ Pending' = Pending \ {c}
  BY <1>1 DEF Pending
<1>4. /\ PendingFinite' /\ Cardinality(Pending') = Cardinality(Pending) - 1
      /\ Cardinality(Pending) \in Nat
  BY <1>3, FS_RemoveElement, FS_CardinalityType DEF RateInv, PendingFinite
<1>5. returned' + Cardinality(Pending') = returned + Cardinality(Pending)
  BY <1>1, <1>4
<1>6. CursorCountsClaims'
  BY <1>1, <1>5 DEF RateInv, CursorCountsClaims
<1>7. DueWithinRate'
  <2> SUFFICES ASSUME NEW t \in Nat, t >= now, t + Threshold <= MaxNs
               PROVE  (returned' + Cardinality(Due(t)') - 1) * Interval < t + Threshold
    BY <1>1 DEF DueWithinRate
  <2>1. c \in Due(t)
    BY <1>1, <1>2, <1>3 DEF Due
  <2>2. Due(t)' = Due(t) \ {c}
    BY <1>1, <1>3 DEF Due, Pending
  <2>3. Cardinality(Due(t)') = Cardinality(Due(t)) - 1 /\ Cardinality(Due(t)) \in Nat
    BY <2>1, <2>2, DueFinite, FS_RemoveElement DEF RateInv
  <2>4. returned' + Cardinality(Due(t)') - 1 = returned + Cardinality(Due(t)) - 1
    BY <1>1, <2>3
  <2> QED
    BY <2>4 DEF RateInv, DueWithinRate
<1> QED
  BY <1>4, <1>6, <1>7

\* Time passes, or a caller goes on that neither gets a slot nor gives one up.
LEMMA OtherKeepsRate ==
    ASSUME RateInv, now' >= now, now' \in Nat, UNCHANGED <<next_ns, returned, slot_ns>>,
           \A c \in Callers : pc'[c] \in {"check", "sleep"} <=> pc[c] \in {"check", "sleep"}
    PROVE  PendingFinite' /\ CursorCountsClaims' /\ DueWithinRate'
<1>1. Pending' = Pending
  BY DEF Pending
<1>2. ASSUME NEW t \in Nat PROVE Due(t)' = Due(t)
  BY <1>1 DEF Due
<1>3. now \in Nat
  BY DEF RateInv, TypeOK
<1>4. DueWithinRate'
  <2> SUFFICES ASSUME NEW t \in Nat, t >= now', t + Threshold <= MaxNs
               PROVE  (returned' + Cardinality(Due(t)') - 1) * Interval < t + Threshold
    BY DEF DueWithinRate
  <2>1. t >= now
    BY <1>3
  <2> QED
    BY <1>2, <2>1 DEF RateInv, DueWithinRate
<1> QED
  BY <1>1, <1>4 DEF RateInv, PendingFinite, CursorCountsClaims

LEMMA RateInvariant == Spec => []RateInv
<1>1. Init => RateInv
  <2> SUFFICES ASSUME Init PROVE RateInv
    OBVIOUS
  <2>1. Pending = {} /\ \A t : Due(t) = {}
    BY DEF Init, Pending, Due
  <2>2. PendingFinite /\ CursorCountsClaims
    BY <2>1, FS_EmptySet DEF Init, PendingFinite, CursorCountsClaims
  <2>3. DueWithinRate
    <3> SUFFICES ASSUME NEW t \in Nat
                 PROVE  (returned + Cardinality(Due(t)) - 1) * Interval < t + Threshold
      BY DEF DueWithinRate
    <3>1. returned + Cardinality(Due(t)) - 1 = -1
      BY <2>1, FS_EmptySet DEF Init
    <3>2. (-1) * Interval < t + Threshold
      OBVIOUS
    <3> QED
      BY <3>1, <3>2
  <2>4. TypeOK
    BY DEF Init, TypeOK, PcValues
  <2> QED
    BY <2>2, <2>3, <2>4 DEF RateInv
<1>2. RateInv /\ [Next]_vars => RateInv'
  <2> SUFFICES ASSUME RateInv, [Next]_vars PROVE RateInv'
    OBVIOUS
  <2>1. TypeOK /\ TypeOK'
    BY TypeStep DEF RateInv
  <2> SUFFICES PendingFinite' /\ CursorCountsClaims' /\ DueWithinRate'
    BY <2>1 DEF RateInv
  <2>2. CASE Tick
    BY <2>1, <2>2, OtherKeepsRate DEF Tick, TypeOK
  <2>3. ASSUME NEW c \in Callers, CasOk(c)
        PROVE  PendingFinite' /\ CursorCountsClaims' /\ DueWithinRate'
    BY <2>3, CasOkKeepsRate
  <2>4. ASSUME NEW c \in Callers, CheckReturns(c) \/ Wake(c)
        PROVE  PendingFinite' /\ CursorCountsClaims' /\ DueWithinRate'
    BY <2>4, ReturnKeepsRate
  <2>5. ASSUME NEW c \in Callers,
               Call(c) \/ Load(c) \/ ReadClock(c) \/ CasFail(c) \/ CheckSleeps(c)
        PROVE  PendingFinite' /\ CursorCountsClaims' /\ DueWithinRate'
    <3>1. /\ now' = now /\ now \in Nat /\ UNCHANGED <<next_ns, returned, slot_ns>>
          /\ \A d \in Callers : pc'[d] \in {"check", "sleep"} <=> pc[d] \in {"check", "sleep"}
      <4>1. pc \in [Callers -> PcValues] /\ now \in Nat
        BY <2>1 DEF TypeOK
      <4>2. CASE Call(c)
        BY <4>1, <4>2 DEF Call
      <4>3. CASE Load(c)
        BY <4>1, <4>3 DEF Load
      <4>4. CASE ReadClock(c)
        BY <4>1, <4>4 DEF ReadClock
      <4>5. CASE CasFail(c)
        BY <4>1, <4>5 DEF CasFail
      <4>6. CASE CheckSleeps(c)
        BY <4>1, <4>6 DEF CheckSleeps
      <4> QED
        BY <2>5, <4>2, <4>3, <4>4, <4>5, <4>6
    <3>2. now' >= now /\ now' \in Nat
      BY <3>1
    <3> QED
      BY <3>1, <3>2, OtherKeepsRate
  <2>6. CASE UNCHANGED vars
    BY <2>1, <2>6, OtherKeepsRate DEF vars, TypeOK
  <2> QED
    BY <2>2, <2>3, <2>4, <2>5, <2>6 DEF Next, Acquire
<1> QED
  BY <1>1, <1>2, PTL DEF Spec

\* The rate is kept in the aggregate, however many callers there are, wherever
\* they are held up and although sleeps below the threshold are skipped.
THEOREM RateIsCapped == Spec => []RateCap
<1>1. RateInv => RateCap
  <2> SUFFICES ASSUME RateInv, now + Threshold <= MaxNs
               PROVE  (returned - 1) * Interval < now + Threshold
    BY DEF RateCap
  <2>1. now \in Nat /\ returned \in Nat /\ Cardinality(Due(now)) \in Nat
    BY DueFinite DEF RateInv, TypeOK
  <2>2. (returned + Cardinality(Due(now)) - 1) * Interval < now + Threshold
    BY <2>1 DEF RateInv, DueWithinRate
  <2> DEFINE m == returned - 1
             k == returned + Cardinality(Due(now)) - 1
  <2>3. m \in Int /\ k \in Int /\ m <= k
    BY <2>1
  <2> HIDE DEF m, k
  <2>4. m * Interval <= k * Interval /\ m * Interval \in Int /\ k * Interval \in Int
    BY <2>3, TimesInterval
  <2>5. m * Interval < now + Threshold
    BY <2>1, <2>2, <2>4 DEF k
  <2> QED
    BY <2>5 DEF m
<1> QED
  BY <1>1, RateInvariant, PTL
=============================================================================
