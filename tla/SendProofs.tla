------------------------------ MODULE SendProofs ------------------------------
(***************************************************************************)
(* The safety of send() with its redirect chains and their cookies, for    *)
(* every number of retries and redirects, all URIs and Set-Cookie headers, *)
(* any Public Suffix List and any proxy with its exceptions; and what a    *)
(* caller gets of every body, however coded, cut, damaged or framed.       *)
(***************************************************************************)
EXTENDS RetryLoop, FiniteSetTheorems, SequenceTheorems, WellFoundedInduction, TLAPS

-----------------------------------------------------------------------------
(* The retry loop.                                                           *)

Waits == {RetryBackoff(a) : a \in Nat}

\* One wait for each retry, as long as its number says; the last one is slept
\* in "backoff".
Slept ==
    /\ attempt \in Nat /\ attempt <= MaxRetries
    /\ waits \in Seq(Waits)
    /\ \A n \in 1..Len(waits) : waits[n] = RetryBackoff(n - 1)
    /\ Len(waits) = IF phase = "backoff" THEN attempt - 1 ELSE attempt

\* Between attempts no chain runs, and none has ended without an outcome.
Parked ==
    /\ phase \in {"validate", "attempt", "backoff", "done"}
    /\ phase # "attempt" => pc = "idle"
    /\ pc = "ended" => outcome # "none"

\* Why the loop goes round, or what it returns.
Concluded ==
    /\ phase = "validate" => attempt = 0 /\ outcome = "none"
    /\ phase = "backoff" => outcome \in {"connection", "429"}
    /\ phase = "done" => result # "none" /\ (outcome # "none" => result = outcome)

LoopInv == Slept /\ Parked /\ Concluded

\* 2^n counts the subsets of 1..n, so a greater exponent gives a greater power.
LEMMA PowersOfTwo ==
    /\ \A n \in Nat : 2 ^ n \in Nat /\ 2 ^ n > 0
    /\ \A m, n \in Nat : m < n => 2 ^ m < 2 ^ n
<1>1. ASSUME NEW n \in Nat
      PROVE  /\ IsFiniteSet(SUBSET (1..n)) /\ Cardinality(SUBSET (1..n)) = 2 ^ n
             /\ 2 ^ n \in Nat /\ 2 ^ n > 0
  <2>1. IsFiniteSet(1..n) /\ Cardinality(1..n) = n
    BY FS_Interval
  <2>2. IsFiniteSet(SUBSET (1..n)) /\ Cardinality(SUBSET (1..n)) = 2 ^ n
    BY <2>1, FS_SUBSET
  <2>3. Cardinality(SUBSET (1..n)) \in Nat
    BY <2>2, FS_CardinalityType
  <2>4. SUBSET (1..n) # {}
    OBVIOUS
  <2>5. Cardinality(SUBSET (1..n)) # 0
    BY <2>2, <2>4, FS_EmptySet
  <2> QED
    BY <2>2, <2>3, <2>5
<1>2. ASSUME NEW m \in Nat, NEW n \in Nat, m < n
      PROVE  2 ^ m < 2 ^ n
  <2>1. SUBSET (1..m) \in SUBSET (SUBSET (1..n))
    BY <1>2
  <2>2. {n} \in SUBSET (1..n) /\ {n} \notin SUBSET (1..m)
    BY <1>2
  <2>3. SUBSET (1..n) # SUBSET (1..m)
    BY <2>2
  <2>4. /\ Cardinality(SUBSET (1..m)) <= Cardinality(SUBSET (1..n))
        /\ Cardinality(SUBSET (1..n)) # Cardinality(SUBSET (1..m))
    BY <2>1, <2>3, <1>1, FS_Subset
  <2>5. /\ Cardinality(SUBSET (1..m)) = 2 ^ m /\ 2 ^ m \in Nat
        /\ Cardinality(SUBSET (1..n)) = 2 ^ n /\ 2 ^ n \in Nat
    BY <1>1
  <2>6. 2 ^ m <= 2 ^ n /\ 2 ^ n # 2 ^ m
    BY <2>4, <2>5, Zenon
  <2> QED
    BY <2>5, <2>6
<1> QED
  BY <1>1, <1>2

\* A subset of 1..(m+n) is one of 1..m beside one of 1..n.
LEMMA PowersAdd ==
    ASSUME NEW m \in Nat, NEW n \in Nat
    PROVE  2 ^ (m + n) = 2 ^ m * 2 ^ n
<1> DEFINE whole == SUBSET (1..(m + n))
           parts == (SUBSET (1..m)) \X (SUBSET (1..n))
           Low(S) == S \cap (1..m)
           High(S) == {k \in 1..n : m + k \in S}
           cut == [S \in whole |-> <<Low(S), High(S)>>]
<1>1. ASSUME NEW S \in whole, NEW T \in whole, Low(S) = Low(T), High(S) = High(T)
      PROVE  S = T
  <2>1. ASSUME NEW x \in 1..(m + n)
        PROVE  x \in S <=> x \in T
    <3>1. CASE x \in 1..m
      BY <1>1, <3>1
    <3>2. CASE x \notin 1..m
      <4>1. x - m \in 1..n /\ m + (x - m) = x
        BY <3>2
      <4>2. x \in S <=> x - m \in High(S)
        BY <4>1
      <4>3. x \in T <=> x - m \in High(T)
        BY <4>1
      <4> QED
        BY <1>1, <4>2, <4>3
    <3> QED
      BY <3>1, <3>2
  <2> QED
    BY <2>1
<1>2. ASSUME NEW A \in SUBSET (1..m), NEW B \in SUBSET (1..n)
      PROVE  \E S \in whole : Low(S) = A /\ High(S) = B
  <2> DEFINE S == A \cup {x \in 1..(m + n) : x > m /\ x - m \in B}
  <2>0. \A x \in A : x \in 1..(m + n) /\ x \in 1..m
    OBVIOUS
  <2>1. S \in whole
    BY <2>0
  <2>2. Low(S) = A
    <3>1. \A x \in 1..m : ~(x > m)
      OBVIOUS
    <3> QED
      BY <2>0, <3>1
  <2>3. ASSUME NEW k \in 1..n
        PROVE  m + k \in S <=> k \in B
    <3>1. m + k \in 1..(m + n) /\ m + k > m /\ (m + k) - m = k /\ m + k \notin 1..m
      OBVIOUS
    <3> QED
      BY <3>1
  <2>4. High(S) = B
    BY <2>3
  <2> HIDE DEF S, whole, Low, High
  <2> QED
    BY <2>1, <2>2, <2>4
<1>3. \A S \in whole : <<Low(S), High(S)>> \in parts
  OBVIOUS
<1> HIDE DEF whole, Low, High
<1>4. cut \in Bijection(whole, parts)
  <2>1. cut \in [whole -> parts] /\ \A S \in whole : cut[S] = <<Low(S), High(S)>>
    BY <1>3
  <2>2. \A S, T \in whole : cut[S] = cut[T] => S = T
    BY <1>1, <2>1
  <2>3. \A p \in parts : \E S \in whole : cut[S] = p
    <3> SUFFICES ASSUME NEW p \in parts
                 PROVE  \E S \in whole : cut[S] = p
      OBVIOUS
    <3>1. PICK A \in SUBSET (1..m), B \in SUBSET (1..n) : p = <<A, B>>
      OBVIOUS
    <3>2. PICK S \in whole : Low(S) = A /\ High(S) = B
      BY <1>2
    <3> QED
      BY <2>1, <3>1, <3>2
  <2> HIDE DEF cut, parts
  <2> QED
    BY <2>1, <2>2, <2>3 DEF Bijection, Injection, IsInjective, Surjection
<1>5. ASSUME NEW k \in Nat
      PROVE  IsFiniteSet(SUBSET (1..k)) /\ Cardinality(SUBSET (1..k)) = 2 ^ k
  <2>1. IsFiniteSet(1..k) /\ Cardinality(1..k) = k
    BY FS_Interval
  <2> QED
    BY <2>1, FS_SUBSET
<1>6. IsFiniteSet(whole) /\ Cardinality(whole) = 2 ^ (m + n)
  BY <1>5 DEF whole
<1>7. IsFiniteSet(parts) /\ Cardinality(parts) = 2 ^ m * 2 ^ n
  <2>1. /\ IsFiniteSet(SUBSET (1..m)) /\ Cardinality(SUBSET (1..m)) = 2 ^ m
        /\ IsFiniteSet(SUBSET (1..n)) /\ Cardinality(SUBSET (1..n)) = 2 ^ n
    BY <1>5
  <2> QED
    BY <2>1, FS_Product
<1> HIDE DEF parts, cut
<1>8. Cardinality(parts) = Cardinality(whole)
  BY <1>4, <1>6, FS_Bijection DEF ExistsBijection
<1> QED
  BY <1>6, <1>7, <1>8

LEMMA Remainder ==
    /\ \A x \in Nat : \A m \in Nat : m > 0 => x % m \in Nat
    /\ \A x \in Nat : \A m \in Nat : x < m => x % m = x
  OBVIOUS

LEMMA Product == \A x, y \in Nat : x * y \in Nat
  OBVIOUS

LEMMA Multiple ==
    ASSUME NEW m \in Nat, m > 0, NEW k \in Nat, NEW r \in Nat, r < m
    PROVE  (m * k + r) % m = r
<1> DEFINE x == m * k + r
           q == x \div m
           s == x % m
<1>1. m * k \in Nat
  BY Product
<1>2. x \in Nat /\ x = m * k + r
  BY <1>1
<1> HIDE DEF x
<1>3. q \in Int /\ s \in 0..(m - 1) /\ x = m * q + s
  BY <1>2
<1> HIDE DEF q, s
<1>4. m * k - m * q = m * (k - q) /\ k - q \in Int
  BY <1>3
<1>5. s - r = m * (k - q) /\ s - r < m /\ s - r > -m
  <2> DEFINE u == m * k
             v == m * q
             w == m * (k - q)
  <2>1. u \in Int /\ v \in Int /\ w \in Int /\ u - v = w
    BY <1>3, <1>4
  <2>2. x = u + r /\ x = v + s
    BY <1>2, <1>3
  <2> HIDE DEF u, v, w
  <2>3. s - r = w
    BY <1>3, <2>1, <2>2
  <2> QED
    BY <1>3, <2>3 DEF w
<1>6. k - q = 0
  <2> DEFINE d == k - q
  <2>1. d \in Int /\ m * d < m /\ m * d > -m
    BY <1>4, <1>5
  <2> HIDE DEF d
  <2>2. ~(d >= 1)
    BY <2>1
  <2>3. ~(d <= -1)
    BY <2>1
  <2>4. d = 0
    BY <2>1, <2>2, <2>3
  <2> QED
    BY <2>4 DEF d
<1>7. s = r
  BY <1>3, <1>5, <1>6
<1> QED
  BY <1>7 DEF s, x

\* retry_backoff with its factor cut to the width: the powers up to there, then
\* multiples of 2^width, then the saturated power.
LEMMA BackoffIsNthWait ==
    ASSUME NEW n \in Nat \ {0}
    PROVE  RetryBackoff(n - 1) = NthWait(n)
<1> DEFINE a == n - 1
           factor == Pow(a) % 2 ^ Width
           expected == IF n <= Width THEN 2 ^ (n - 1)
                       ELSE IF n <= 2 * Width THEN 0 ELSE 2 ^ Width - 1
<1>1. Width \in Nat /\ 2 * Width \in Nat /\ Width > 0 /\ MinWait \in Nat /\ MaxWait \in Nat
      /\ a \in Nat
  BY WidthAssumption, WaitAssumption
<1> HIDE DEF a
<1>2. /\ 2 ^ a \in Nat /\ 2 ^ Width \in Nat /\ 2 ^ Width > 0
      /\ 2 ^ (2 * Width) \in Nat /\ 2 ^ (2 * Width) > 0
  BY <1>1, PowersOfTwo
<1>3. ASSUME a < Width
      PROVE  factor = 2 ^ a
  <2>1. Pow(a) = 2 ^ a
    BY <1>1, <1>3 DEF Pow
  <2>2. 2 ^ a < 2 ^ Width
    BY <1>1, <1>3, PowersOfTwo
  <2> QED
    BY <1>2, <2>1, <2>2, Remainder
<1>4. ASSUME a >= Width, a < 2 * Width
      PROVE  factor = 0
  <2>1. Pow(a) = 2 ^ a
    BY <1>1, <1>4 DEF Pow
  <2>2. a - Width \in Nat /\ Width + (a - Width) = a
    BY <1>1, <1>4
  <2>3. 2 ^ a = 2 ^ Width * 2 ^ (a - Width) /\ 2 ^ (a - Width) \in Nat
    BY <1>1, <2>2, PowersAdd, PowersOfTwo
  <2> DEFINE m == 2 ^ Width
             k == 2 ^ (a - Width)
  <2>4. m \in Nat /\ m > 0 /\ k \in Nat /\ Pow(a) = m * k
    BY <1>2, <2>1, <2>3
  <2> HIDE DEF m, k
  <2>5. (m * k + 0) % m = 0
    BY <2>4, Multiple
  <2>6. m * k + 0 = m * k
    BY <2>4
  <2> QED
    BY <2>4, <2>5, <2>6 DEF m
<1>5. ASSUME a >= 2 * Width
      PROVE  factor = 2 ^ Width - 1
  <2> DEFINE m == 2 ^ Width
  <2>1. Pow(a) = 2 ^ (2 * Width) - 1
    BY <1>1, <1>5 DEF Pow
  <2>2. 2 ^ (2 * Width) = m * m
    <3>1. Width + Width = 2 * Width
      BY <1>1
    <3>2. 2 ^ (Width + Width) = 2 ^ Width * 2 ^ Width
      BY <1>1, PowersAdd
    <3> QED
      BY <3>1, <3>2
  <2>3. m \in Nat /\ m > 0
    BY <1>2
  <2> HIDE DEF m
  <2>4. m - 1 \in Nat /\ m - 1 < m
    BY <2>3
  <2>5. (m * (m - 1) + (m - 1)) % m = m - 1
    BY <2>3, <2>4, Multiple
  <2>6. m * (m - 1) + (m - 1) = m * m - 1
    BY <2>3
  <2>7. (m * m - 1) % m = m - 1
    BY <2>5, <2>6
  <2> QED
    BY <2>1, <2>2, <2>7 DEF m
<1>6. factor = expected
  <2>1. /\ n <= Width <=> a < Width
        /\ n <= 2 * Width <=> a < 2 * Width
        /\ n - 1 = a
    BY <1>1 DEF a
  <2> HIDE DEF factor
  <2> QED
    BY <1>1, <1>3, <1>4, <1>5, <2>1
<1>7. expected \in Nat
  <2>1. Pow(a) \in Nat
    BY <1>2 DEF Pow
  <2>2. factor \in Nat
    BY <1>2, <2>1, Remainder
  <2> QED
    BY <1>6, <2>2
<1>8. RetryBackoff(a) = IF MinWait * factor < MaxWait THEN MinWait * factor ELSE MaxWait
  BY DEF RetryBackoff
<1>9. NthWait(n) = IF expected * MinWait < MaxWait THEN expected * MinWait ELSE MaxWait
  BY DEF NthWait
<1> HIDE DEF factor, expected
<1>10. MinWait * expected = expected * MinWait
  BY <1>1, <1>7
<1>11. RetryBackoff(a) = NthWait(n)
  BY <1>6, <1>8, <1>9, <1>10
<1> QED
  BY <1>11 DEF a

\* A step of the chain within an attempt ends with an outcome or without an end.
LEMMA ChainConcludes ==
    ASSUME ChainNext
    PROVE  pc' = "ended" => outcome' # "none"
  BY DEF ChainNext, NoRequest, Dispatch, DispatchFails, DispatchDirect, DirectFails, Final,
         TooManyRedirects, NoLocation, Redirect, Store, Advance, Return

LEMMA ConcludeKeeps ==
    ASSUME LoopInv, phase = "attempt", NEW o, o # "none", Conclude(o)
    PROVE  LoopInv'
<1>1. CASE IsRetryable(o) /\ attempt < MaxRetries
  <2>1. phase' = "backoff" /\ attempt' = attempt + 1 /\ waits' = waits
        /\ pc' = "idle" /\ outcome' = o
    BY <1>1 DEF Conclude
  <2>2. Slept'
    BY <1>1, <2>1, RetriesAssumption DEF LoopInv, Slept
  <2> QED
    BY <1>1, <2>1, <2>2 DEF LoopInv, Parked, Concluded, IsRetryable
<1>2. CASE ~(IsRetryable(o) /\ attempt < MaxRetries)
  <2>1. phase' = "done" /\ attempt' = attempt /\ waits' = waits /\ result' = o
        /\ pc' = "idle" /\ outcome' = o
    BY <1>2 DEF Conclude
  <2> QED
    BY <2>1 DEF LoopInv, Slept, Parked, Concluded
<1> QED
  BY <1>1, <1>2

LEMMA LoopStep ==
    ASSUME LoopInv, [Next]_vars
    PROVE  LoopInv'
<1>1. CASE InvalidProxy
  BY <1>1 DEF InvalidProxy, LoopInv, Slept, Parked, Concluded, chainVars
<1>2. CASE FirstAttempt
  BY <1>2 DEF FirstAttempt, Attempt, LoopInv, Slept, Parked, Concluded
<1>3. CASE Chain
  BY <1>3, ChainConcludes DEF Chain, LoopInv, Slept, Parked, Concluded
<1>4. CASE \E b \in Bodies : ParseBody(b)
  BY <1>4 DEF ParseBody, LoopInv, Slept, Parked, Concluded
<1>5. CASE \E status \in Responses : Responds(status)
  BY <1>5, ConcludeKeeps DEF Responds, Responses
<1>6. CASE Errs
  BY <1>6, ConcludeKeeps DEF Errs, LoopInv, Parked
<1>7. CASE AttemptTimesOut
  BY <1>7 DEF AttemptTimesOut, LoopInv, Slept, Parked, Concluded
<1>8. CASE Backoff
  <2>1. phase = "backoff" /\ phase' = "attempt" /\ attempt' = attempt /\ outcome' = "none"
        /\ pc' = "request" /\ waits' = Append(waits, RetryBackoff(attempt - 1))
    BY <1>8 DEF Backoff, Attempt
  <2>2. attempt - 1 \in Nat
    BY <2>1 DEF LoopInv, Slept
  <2>3. RetryBackoff(attempt - 1) \in Waits
    BY <2>2 DEF Waits
  <2> HIDE DEF Waits
  <2>4. Slept'
    <3>1. Len(waits) = attempt - 1 /\ waits \in Seq(Waits)
      BY <2>1 DEF LoopInv, Slept
    <3>2. /\ waits' \in Seq(Waits) /\ Len(waits') = attempt
          /\ \A n \in 1..Len(waits) : waits'[n] = waits[n]
          /\ waits'[attempt] = RetryBackoff(attempt - 1)
      <4> DEFINE wait == RetryBackoff(attempt - 1)
      <4>1. wait \in Waits /\ waits' = Append(waits, wait)
        BY <2>1, <2>3
      <4> HIDE DEF wait
      <4>2. /\ waits' \in Seq(Waits) /\ Len(waits') = Len(waits) + 1
            /\ \A n \in 1..Len(waits) : waits'[n] = waits[n]
            /\ waits'[Len(waits) + 1] = wait
        BY <3>1, <4>1, AppendProperties
      <4>3. Len(waits) + 1 = attempt
        BY <3>1 DEF LoopInv, Slept
      <4> QED
        BY <4>2, <4>3 DEF wait
    <3>3. \A n \in 1..Len(waits') : waits'[n] = RetryBackoff(n - 1)
      BY <2>2, <3>1, <3>2 DEF LoopInv, Slept
    <3> QED
      BY <2>1, <3>2, <3>3 DEF LoopInv, Slept
  <2> QED
    BY <2>1, <2>4 DEF LoopInv, Parked, Concluded
<1>9. CASE UNCHANGED vars
  BY <1>9 DEF vars, chainVars, LoopInv, Slept, Parked, Concluded
<1> QED
  BY <1>1, <1>2, <1>3, <1>4, <1>5, <1>6, <1>7, <1>8, <1>9 DEF Next

LEMMA LoopInit == Init => LoopInv
  BY RetriesAssumption DEF Init, ChainInit, LoopInv, Slept, Parked, Concluded

LEMMA LoopKept == Spec => []LoopInv
  BY LoopInit, LoopStep, PTL DEF Spec

\* For every number of retries, every wait and every width of the factor, only a
\* connection error or a 429 is tried again, one wait comes before each retry:
\* doubled from the one before until it meets its cap or the factor its width, and
\* after that what the cut factor makes of it; and send() returns what its last
\* attempt came to.
THEOREM RetriesAreDisciplined == Spec => []RetryDiscipline
<1>1. LoopInv => RetryDiscipline
  <2> SUFFICES ASSUME LoopInv
               PROVE  RetryDiscipline
    OBVIOUS
  <2>1. ASSUME NEW n \in 1..Len(waits)
        PROVE  waits[n] = NthWait(n)
    <3>1. n \in Nat \ {0} /\ waits[n] = RetryBackoff(n - 1)
      BY <2>1 DEF LoopInv, Slept
    <3> QED
      BY <3>1, BackoffIsNthWait
  <2> QED
    BY <2>1 DEF LoopInv, Slept, Parked, Concluded, RetryDiscipline
<1> QED
  BY <1>1, LoopKept, PTL

-----------------------------------------------------------------------------
(* The shapes of a step, as the chain sees it.                               *)

Over == {"idle", "ended", "final", "parsed"}

\* send_inner ends in any way: its locals are gone.
Leaves ==
    /\ Dropped
    /\ pc' \in {"idle", "ended", "final"}
    /\ UNCHANGED <<config, sent>>

\* The loop or the body's reader works; the chain is over.
Settles ==
    /\ pc \in Over /\ pc' \in Over
    /\ UNCHANGED <<config, locals, sent>>

\* An attempt starts.
Enters ==
    /\ pc = "idle" /\ pc' = "request"
    /\ UNCHANGED <<config, locals, sent>>

LEMMA ReturnLeaves ==
    ASSUME NEW r, Return(r), UNCHANGED <<config, sent>>
    PROVE  Leaves
  BY DEF Return, Leaves

LEMMA ChainShapes ==
    ASSUME ChainNext
    PROVE  \/ Leaves
           \/ Dispatch
           \/ DispatchDirect
           \/ \E u \in Uris : Redirect(u)
           \/ \E h \in SetCookies : Store(h)
           \/ Advance
<1>1. CASE NoRequest
  BY <1>1, ReturnLeaves DEF NoRequest
<1>2. CASE DispatchFails
  BY <1>2, ReturnLeaves DEF DispatchFails
<1>3. CASE DirectFails
  BY <1>3, ReturnLeaves DEF DirectFails
<1>4. CASE Final
  BY <1>4 DEF Final, Leaves
<1>5. CASE TooManyRedirects
  BY <1>5, ReturnLeaves DEF TooManyRedirects
<1>6. CASE NoLocation
  BY <1>6, ReturnLeaves DEF NoLocation
<1> QED
  BY <1>1, <1>2, <1>3, <1>4, <1>5, <1>6 DEF ChainNext

LEMMA StepShapes ==
    ASSUME LoopInv, [Next]_vars
    PROVE  \/ Leaves
           \/ Settles
           \/ Enters
           \/ Dispatch
           \/ DispatchDirect
           \/ \E u \in Uris : Redirect(u)
           \/ \E h \in SetCookies : Store(h)
           \/ Advance
           \/ UNCHANGED chainVars
<1>1. CASE InvalidProxy
  BY <1>1 DEF InvalidProxy
<1>2. CASE FirstAttempt
  BY <1>2 DEF FirstAttempt, Attempt, Enters, LoopInv, Parked
<1>3. CASE Chain
  BY <1>3, ChainShapes DEF Chain
<1>4. CASE \E b \in Bodies : ParseBody(b)
  BY <1>4 DEF ParseBody, Settles, Over
<1>5. CASE \E status \in Responses : Responds(status)
  BY <1>5 DEF Responds, Conclude, Settles, Over
<1>6. CASE Errs
  BY <1>6 DEF Errs, Conclude, Settles, Over
<1>7. CASE AttemptTimesOut
  BY <1>7 DEF AttemptTimesOut, Leaves
<1>8. CASE Backoff
  BY <1>8 DEF Backoff, Attempt, Enters, LoopInv, Parked
<1>9. CASE UNCHANGED vars
  BY <1>9 DEF vars
<1> QED
  BY <1>1, <1>2, <1>3, <1>4, <1>5, <1>6, <1>7, <1>8, <1>9 DEF Next

-----------------------------------------------------------------------------
(* The order of a Cookie header.                                             *)

\* How many elements of M come before i in the order R.
Rank(M, R, i) == Cardinality({j \in M : <<j, i>> \in R})

\* In a finite set under a strict total order R, every place is somebody's.
LEMMA Ranked ==
    ASSUME NEW M, IsFiniteSet(M), NEW R,
           \A i \in M : <<i, i>> \notin R,
           \A i, j, l \in M : <<i, j>> \in R /\ <<j, l>> \in R => <<i, l>> \in R,
           \A i, j \in M : i # j => <<i, j>> \in R \/ <<j, i>> \in R,
           NEW k \in 1..Cardinality(M)
    PROVE  \E i \in M : Rank(M, R, i) = k - 1
<1> DEFINE n == Cardinality(M)
           Below(i) == {j \in M : <<j, i>> \in R}
           f == [i \in M |-> Cardinality(Below(i))]
<1>1. n \in Nat /\ n >= 1 /\ k - 1 \in 0..(n - 1)
  BY FS_CardinalityType
<1>2. ASSUME NEW i \in M
      PROVE  IsFiniteSet(Below(i)) /\ Cardinality(Below(i)) \in Nat /\ Cardinality(Below(i)) <= n - 1
  <2>1. IsFiniteSet(M \ {i}) /\ Cardinality(M \ {i}) = n - 1
    BY <1>2, FS_RemoveElement
  <2>2. Below(i) \in SUBSET (M \ {i})
    BY <1>2
  <2> HIDE DEF Below, n
  <2>3. IsFiniteSet(Below(i)) /\ Cardinality(Below(i)) <= n - 1
    BY <2>1, <2>2, FS_Subset
  <2> QED
    BY <2>3, FS_CardinalityType
<1>3. f \in [M -> 0..(n - 1)]
  <2> HIDE DEF Below, n
  <2> QED
    BY <1>1, <1>2
<1>4. ASSUME NEW i \in M, NEW j \in M, <<j, i>> \in R
      PROVE  f[j] < f[i]
  <2>1. j \notin Below(j) /\ Below(j) \cup {j} \in SUBSET Below(i)
    BY <1>4
  <2> HIDE DEF Below, n
  <2>2. IsFiniteSet(Below(j)) /\ Cardinality(Below(j)) \in Nat
        /\ IsFiniteSet(Below(i)) /\ Cardinality(Below(i)) \in Nat
    BY <1>2
  <2>3. Cardinality(Below(j) \cup {j}) = Cardinality(Below(j)) + 1
    BY <2>1, <2>2, FS_AddElement
  <2>4. Cardinality(Below(j) \cup {j}) <= Cardinality(Below(i))
    BY <2>1, <2>2, FS_Subset
  <2>5. f[j] = Cardinality(Below(j)) /\ f[i] = Cardinality(Below(i))
    OBVIOUS
  <2> QED
    BY <2>2, <2>3, <2>4, <2>5
<1>5. f \in Injection(M, 0..(n - 1))
  <2> HIDE DEF f, n
  <2>1. ASSUME NEW i \in M, NEW j \in M, f[i] = f[j]
        PROVE  i = j
    <3>1. f[i] \in Int /\ f[j] \in Int
      BY <1>1, <1>3
    <3>2. ~(f[i] < f[j]) /\ ~(f[j] < f[i])
      BY <2>1, <3>1
    <3>3. <<i, j>> \notin R /\ <<j, i>> \notin R
      BY <1>4, <3>2
    <3> QED
      BY <3>3
  <2> QED
    BY <1>3, <2>1 DEF Injection, IsInjective
<1>6. IsFiniteSet(0..(n - 1)) /\ Cardinality(0..(n - 1)) = n
  <2> HIDE DEF n
  <2>1. 0 \in Int /\ n - 1 \in Int /\ ~(0 > n - 1) /\ (n - 1) - 0 + 1 = n
    BY <1>1
  <2> QED
    BY <2>1, FS_Interval
<1>7. f \in Surjection(M, 0..(n - 1))
  <2> HIDE DEF f
  <2> QED
    BY <1>5, <1>6, FS_Injection
<1>8. PICK i \in M : f[i] = k - 1
  <2> HIDE DEF f, n
  <2> QED
    BY <1>1, <1>7 DEF Surjection
<1> QED
  BY <1>8 DEF Rank

-----------------------------------------------------------------------------
(* What a cookie is, and where it belongs.                                   *)

AllUris == Origins \cup Uris

\* Strings, with the segment that stands for a lone slash named: to the provers
\* a literal is not known to be one of them.
Segments == STRING \cup {""}

Cookie == [name : STRING, size : Nat, secure : BOOLEAN, domain : Seq(STRING),
           host_only : BOOLEAN, path : Seq(Segments), set_by : Seq(STRING)]

\* A widened cookie stays within the registrable domain of the host that set it.
Homed(c) ==
    IF c.host_only
    THEN c.domain = c.set_by
    ELSE ~IsPublicSuffix(c.domain) /\ Registrable(c.domain) = Registrable(c.set_by)

LEMMA UriFields ==
    ASSUME NEW u \in AllUris
    PROVE  /\ u.host \in Seq(STRING) /\ u.path \in Seq(STRING) /\ u.path # << >>
           /\ u.scheme \in STRING
  BY UrisAssumption DEF AllUris

LEMMA HeaderFields ==
    ASSUME NEW h \in SetCookies
    PROVE  /\ h.name \in STRING /\ h.size \in Nat /\ h.domain \in Seq(STRING)
           /\ h.path \in Seq(STRING) /\ h.secure \in BOOLEAN /\ h.expired \in BOOLEAN
  BY SetCookiesAssumption

\* The rules of parse_set_cookie about Domain.
LEMMA Scoped ==
    ASSUME NEW domain \in Seq(STRING), NEW host \in Seq(STRING), NEW s \in Scope(domain, host)
    PROVE  /\ s.domain \in Seq(STRING) /\ s.host_only \in BOOLEAN
           /\ IF s.host_only
              THEN s.domain = host
              ELSE ~IsPublicSuffix(s.domain) /\ Registrable(s.domain) = Registrable(host)
<1>1. CASE s = HostOnly(host)
  BY <1>1 DEF HostOnly
<1>2. CASE s # HostOnly(host)
  <2>1. /\ s = [domain |-> domain, host_only |-> FALSE]
        /\ ~IsPublicSuffix(domain) /\ Registrable(host) = Registrable(domain)
    BY <1>2 DEF Scope
  <2> QED
    BY <2>1
<1> QED
  BY <1>1, <1>2

LEMMA Singleton ==
    ASSUME NEW S, NEW x \in S
    PROVE  <<x>> \in Seq(S)
  OBVIOUS

LEMMA SegmentPaths ==
    ASSUME NEW p \in Seq(STRING)
    PROVE  p \in Seq(Segments)
<1>1. STRING \subseteq Segments
  BY DEF Segments
<1> QED
  BY <1>1, SeqMonotonic

LEMMA DefaultPathType ==
    ASSUME NEW p \in Seq(STRING), p # << >>
    PROVE  DefaultPath(p) \in Seq(Segments)
<1>1. CASE Len(p) = 1
  <2>1. <<"">> \in Seq(Segments)
    BY Singleton DEF Segments
  <2> QED
    BY <1>1, <2>1 DEF DefaultPath
<1>2. CASE Len(p) # 1
  <2>1. Len(p) - 1 \in Nat /\ Len(p) - 1 <= Len(p)
    OBVIOUS
  <2>2. Front(p) \in Seq(STRING)
    BY <2>1 DEF Front
  <2> QED
    BY <1>2, <2>2, SegmentPaths DEF DefaultPath
<1> QED
  BY <1>1, <1>2

LEMMA ParsedCookie ==
    ASSUME NEW h \in SetCookies, NEW u \in AllUris, NEW c \in ParseSetCookie(h, u)
    PROVE  c \in Cookie /\ c.name = h.name /\ Homed(c)
<1>1. PICK s \in Scope(h.domain, u.host) :
        c = [name |-> h.name, size |-> h.size, secure |-> h.secure,
             domain |-> s.domain, host_only |-> s.host_only,
             path |-> IF h.path = Unset THEN DefaultPath(u.path) ELSE h.path,
             set_by |-> u.host]
  BY DEF ParseSetCookie
<1>2. /\ s.domain \in Seq(STRING) /\ s.host_only \in BOOLEAN
      /\ IF s.host_only
         THEN s.domain = u.host
         ELSE ~IsPublicSuffix(s.domain) /\ Registrable(s.domain) = Registrable(u.host)
  BY HeaderFields, UriFields, Scoped
<1>3. (IF h.path = Unset THEN DefaultPath(u.path) ELSE h.path) \in Seq(Segments)
  BY HeaderFields, UriFields, DefaultPathType, SegmentPaths
<1>4. c \in Cookie
  BY <1>1, <1>2, <1>3, HeaderFields, UriFields DEF Cookie
<1> QED
  BY <1>1, <1>2, <1>4 DEF Homed

LEMMA PathLengthType ==
    ASSUME NEW p \in Seq(Segments)
    PROVE  PathLength(p) \in Nat
<1> DEFINE S == {k \in 1..Len(p) : p[k] # ""}
<1>1. IsFiniteSet(1..Len(p)) /\ S \in SUBSET (1..Len(p)) /\ Len(p) \in Nat
  <2>1. 1 \in Int /\ Len(p) \in Int /\ Len(p) \in Nat
    OBVIOUS
  <2>2. IsFiniteSet(1..Len(p))
    BY <2>1, FS_Interval
  <2> QED
    BY <2>1, <2>2
<1>2. IsFiniteSet(S)
  <2> HIDE DEF S
  <2> QED
    BY <1>1, FS_Subset
<1>3. Cardinality(S) \in Nat
  <2> HIDE DEF S
  <2> QED
    BY <1>2, FS_CardinalityType
<1>4. PathLength(p) = Len(p) + Cardinality(S)
  BY DEF PathLength
<1> HIDE DEF S
<1> QED
  BY <1>1, <1>3, <1>4

\* A Cookie header holds stored cookies that apply to where it goes.
LEMMA HeaderHolds ==
    ASSUME NEW s \in Seq(Cookie), NEW u
    PROVE  /\ HeaderFor(s, u) \in Seq(Cookie)
           /\ \A k \in 1..Len(HeaderFor(s, u)) :
                \E i \in 1..Len(s) : HeaderFor(s, u)[k] = s[i] /\ Applies(s[i], u)
<1> DEFINE M == {i \in 1..Len(s) : Applies(s[i], u)}
           L(i) == PathLength(s[i].path)
           Before(i, j) ==
             \/ PathLength(s[i].path) > PathLength(s[j].path)
             \/ PathLength(s[i].path) = PathLength(s[j].path) /\ i < j
           At(k) == CHOOSE i \in M : Cardinality({j \in M : Before(j, i)}) = k - 1
           R == {p \in M \X M : Before(p[1], p[2])}
           n == Cardinality(M)
<1>1. HeaderFor(s, u) = [k \in 1..n |-> s[At(k)]]
  BY DEF HeaderFor
<1>2. IsFiniteSet(M) /\ n \in Nat /\ M \subseteq 1..Len(s)
  <2>1. IsFiniteSet(1..Len(s)) /\ M \in SUBSET (1..Len(s))
    BY FS_Interval
  <2> HIDE DEF M
  <2> QED
    BY <2>1, FS_Subset, FS_CardinalityType
<1>3. \A i \in M : i \in Nat /\ L(i) \in Nat
  <2>1. \A i \in M : i \in 1..Len(s) /\ s[i].path \in Seq(Segments)
    <3>1. \A i \in 1..Len(s) : s[i] \in Cookie
      OBVIOUS
    <3> QED
      BY <3>1 DEF Cookie
  <2> QED
    BY <2>1, PathLengthType
<1>4. \A i, j \in M : <<i, j>> \in R <=> Before(i, j)
  <2> HIDE DEF M, Before
  <2> QED
    OBVIOUS
<1>5. \A i, j \in M : Before(i, j) <=> (L(i) > L(j) \/ (L(i) = L(j) /\ i < j))
  OBVIOUS
<1>6. ASSUME NEW k \in 1..n
      PROVE  At(k) \in M
  <2> HIDE DEF M, R, Before
  <2>1. \E i \in M : Rank(M, R, i) = k - 1
    <3> HIDE DEF L
    <3>1. \A i \in M : <<i, i>> \notin R
      BY <1>3, <1>4, <1>5
    <3>2. \A i, j, l \in M : <<i, j>> \in R /\ <<j, l>> \in R => <<i, l>> \in R
      BY <1>3, <1>4, <1>5
    <3>3. \A i, j \in M : i # j => <<i, j>> \in R \/ <<j, i>> \in R
      BY <1>3, <1>4, <1>5
    <3> QED
      BY <1>2, <3>1, <3>2, <3>3, Ranked
  <2>2. \A i \in M : {j \in M : <<j, i>> \in R} = {j \in M : Before(j, i)}
    BY <1>4
  <2>3. \E i \in M : Cardinality({j \in M : Before(j, i)}) = k - 1
    BY <2>1, <2>2 DEF Rank
  <2> QED
    BY <2>3
<1>7. \A k \in 1..n : At(k) \in 1..Len(s) /\ Applies(s[At(k)], u)
  <2> HIDE DEF At
  <2> QED
    BY <1>6
<1> HIDE DEF At, M, n
<1>8. HeaderFor(s, u) \in Seq(Cookie) /\ Len(HeaderFor(s, u)) = n
  BY <1>1, <1>2, <1>7
<1> QED
  BY <1>1, <1>7, <1>8

-----------------------------------------------------------------------------
(* The store.                                                                *)

LEMMA Removed ==
    ASSUME NEW S, NEW s \in Seq(S), NEW i \in 1..Len(s)
    PROVE  /\ RemoveAt(s, i) \in Seq(S) /\ Len(RemoveAt(s, i)) = Len(s) - 1
           /\ \A k \in 1..(Len(s) - 1) : RemoveAt(s, i)[k] = IF k < i THEN s[k] ELSE s[k + 1]
<1> DEFINE a == SubSeq(s, 1, i - 1)
           b == SubSeq(s, i + 1, Len(s))
<1>1. Len(s) \in Nat /\ i \in Nat /\ i >= 1 /\ i <= Len(s)
  OBVIOUS
<1>2. a \in Seq(S) /\ Len(a) = i - 1 /\ \A k \in 1..(i - 1) : a[k] = s[k]
  BY <1>1
<1>3. b \in Seq(S) /\ Len(b) = Len(s) - i /\ \A k \in 1..(Len(s) - i) : b[k] = s[i + k]
  BY <1>1
<1>4. RemoveAt(s, i) = a \o b
  BY DEF RemoveAt
<1> HIDE DEF a, b
<1>5. a \o b \in Seq(S) /\ Len(a \o b) = Len(s) - 1
  <2>1. a \o b \in Seq(S) /\ Len(a \o b) = Len(a) + Len(b)
    BY <1>2, <1>3, ConcatProperties
  <2> QED
    BY <1>1, <1>2, <1>3, <2>1
<1>6. ASSUME NEW k \in 1..(Len(s) - 1)
      PROVE  (a \o b)[k] = IF k < i THEN s[k] ELSE s[k + 1]
  <2>1. (a \o b)[k] = IF k <= Len(a) THEN a[k] ELSE b[k - Len(a)]
    BY <1>1, <1>2, <1>3, ConcatProperties
  <2>2. CASE k < i
    <3>1. k <= Len(a) /\ k \in 1..(i - 1)
      BY <1>1, <1>2, <2>2
    <3> QED
      BY <1>2, <2>1, <2>2, <3>1
  <2>3. CASE k >= i
    <3>1. k - Len(a) \in 1..(Len(s) - i) /\ i + (k - Len(a)) = k + 1 /\ ~(k <= Len(a)) /\ ~(k < i)
      BY <1>1, <1>2, <2>3
    <3>2. b[k - Len(a)] = s[k + 1]
      BY <1>3, <3>1
    <3>3. (a \o b)[k] = b[k - Len(a)]
      BY <2>1, <3>1
    <3> QED
      BY <3>1, <3>2, <3>3
  <2>4. k < i \/ k >= i
    BY <1>1
  <2> QED
    BY <2>2, <2>3, <2>4
<1> QED
  BY <1>4, <1>5, <1>6

\* What is left after Without: the old cookies but perhaps one, in their order.
Leaving(s, t, I) ==
    \/ t = s /\ I = {}
    \/ \E i \in I : /\ Len(t) = Len(s) - 1
                    /\ \A k \in 1..(Len(s) - 1) : t[k] = IF k < i THEN s[k] ELSE s[k + 1]

LEMMA WithoutLeaves ==
    ASSUME NEW S, NEW s \in Seq(S), NEW I, I \subseteq 1..Len(s)
    PROVE  Without(s, I) \in Seq(S) /\ Leaving(s, Without(s, I), I)
<1>1. CASE I = {}
  BY <1>1 DEF Without, Leaving
<1>2. CASE I # {}
  <2>1. PICK i \in I : Without(s, I) = RemoveAt(s, i)
    BY <1>2 DEF Without
  <2> QED
    BY <2>1, Removed DEF Leaving
<1> QED
  BY <1>1, <1>2

\* Each cookie once.
Distinct(s) == \A i, j \in 1..Len(s) : SameKey(s[i], s[j]) => i = j

LEMMA SameKeyEquivalence ==
    ASSUME NEW c, NEW d, NEW e
    PROVE  /\ SameKey(c, c)
           /\ SameKey(c, d) => SameKey(d, c)
           /\ SameKey(c, d) /\ SameKey(d, e) => SameKey(c, e)
  BY DEF SameKey

\* Each cookie left is an old one, they stay distinct, and none has the key of
\* the one that was taken out.
LEMMA LeftOnes ==
    ASSUME NEW s \in Seq(Cookie), NEW t \in Seq(Cookie), NEW c,
           Distinct(s), Leaving(s, t, Replacing(s, c))
    PROVE  /\ \A k \in 1..Len(t) : \E i \in 1..Len(s) : t[k] = s[i] /\ ~SameKey(s[i], c)
           /\ Distinct(t)
           /\ \A i \in 1..Len(s) :
                SameKey(s[i], c) \/ \E k \in 1..Len(t) : t[k] = s[i]
<1>0. Len(s) \in Nat /\ Len(t) \in Nat
  OBVIOUS
<1>1. CASE t = s /\ Replacing(s, c) = {}
  BY <1>0, <1>1 DEF Replacing
<1>2. CASE \E i \in Replacing(s, c) :
             /\ Len(t) = Len(s) - 1
             /\ \A k \in 1..(Len(s) - 1) : t[k] = IF k < i THEN s[k] ELSE s[k + 1]
  <2>1. PICK r \in 1..Len(s) :
             /\ SameKey(s[r], c)
             /\ Len(t) = Len(s) - 1
             /\ \A k \in 1..(Len(s) - 1) : t[k] = IF k < r THEN s[k] ELSE s[k + 1]
    BY <1>2 DEF Replacing
  <2> DEFINE From(k) == IF k < r THEN k ELSE k + 1
  <2>2. \A k \in 1..Len(t) : From(k) \in 1..Len(s) /\ From(k) # r /\ t[k] = s[From(k)]
    BY <1>0, <2>1
  <2>3. \A k, l \in 1..Len(t) : From(k) = From(l) => k = l
    BY <1>0, <2>1
  <2>4. \A i \in 1..Len(s) : i # r => \E k \in 1..Len(t) : From(k) = i
    <3> SUFFICES ASSUME NEW i \in 1..Len(s), i # r
                 PROVE  \E k \in 1..Len(t) : From(k) = i
      OBVIOUS
    <3>1. CASE i < r
      BY <1>0, <2>1, <3>1
    <3>2. CASE i > r
      <4>1. i - 1 \in 1..Len(t) /\ From(i - 1) = i
        BY <1>0, <2>1, <3>2
      <4> QED
        BY <4>1
    <3> QED
      BY <1>0, <3>1, <3>2
  <2>5. \A i \in 1..Len(s) : i # r => ~SameKey(s[i], c)
    BY <2>1, SameKeyEquivalence DEF Distinct
  <2> HIDE DEF From
  <2>6. \A k \in 1..Len(t) : \E i \in 1..Len(s) : t[k] = s[i] /\ ~SameKey(s[i], c)
    BY <2>2, <2>5
  <2>7. Distinct(t)
    BY <2>2, <2>3 DEF Distinct
  <2>8. \A i \in 1..Len(s) : SameKey(s[i], c) \/ \E k \in 1..Len(t) : t[k] = s[i]
    BY <2>1, <2>2, <2>4
  <2> QED
    BY <2>6, <2>7, <2>8
<1> QED
  BY <1>1, <1>2 DEF Leaving

\* What one round of store() makes of the cookies held: those left are old
\* ones or the new one, and only an expiry takes a key away.
Applied(s, t, c, v) ==
    /\ t \in Seq(Cookie) /\ Distinct(t)
    /\ \A k \in 1..Len(t) : (\E i \in 1..Len(s) : t[k] = s[i]) \/ (t[k] = c /\ v = "stored")
    /\ v # "expired" =>
         \A i \in 1..Len(s) : \E k \in 1..Len(t) : SameKey(s[i], t[k])

LEMMA AppliedHolds ==
    ASSUME NEW s \in Seq(Cookie), NEW c \in Cookie, NEW v, Distinct(s)
    PROVE  Applied(s, Apply(s, c, v), c, v)
<1> DEFINE I == Replacing(s, c)
           r == Without(s, I)
<1>1. I \subseteq 1..Len(s)
  BY DEF Replacing
<1>2. r \in Seq(Cookie) /\ Leaving(s, r, I)
  <2> HIDE DEF I
  <2> QED
    BY <1>1, WithoutLeaves
<1> HIDE DEF r
<1>3. /\ \A k \in 1..Len(r) : \E i \in 1..Len(s) : r[k] = s[i] /\ ~SameKey(s[i], c)
      /\ Distinct(r)
      /\ \A i \in 1..Len(s) : SameKey(s[i], c) \/ \E k \in 1..Len(r) : r[k] = s[i]
  BY <1>2, LeftOnes
<1>4. CASE v = "stored"
  <2> DEFINE t == Append(r, c)
  <2>1. Apply(s, c, v) = t
    BY <1>4 DEF Apply, r
  <2>2. /\ t \in Seq(Cookie) /\ Len(r) \in Nat /\ Len(t) = Len(r) + 1 /\ t[Len(t)] = c
        /\ \A k \in 1..Len(r) : t[k] = r[k]
    BY <1>2
  <2> HIDE DEF t
  <2>3. \A k \in 1..Len(t) : (k \in 1..Len(r) /\ t[k] = r[k]) \/ (k = Len(t) /\ t[k] = c)
    BY <2>2
  <2>4. \A k \in 1..Len(t) : (\E i \in 1..Len(s) : t[k] = s[i]) \/ t[k] = c
    BY <1>3, <2>3
  <2>5. Distinct(t)
    <3> SUFFICES ASSUME NEW k \in 1..Len(t), NEW l \in 1..Len(t), SameKey(t[k], t[l])
                 PROVE  k = l
      BY DEF Distinct
    <3>1. \A m \in 1..Len(r) : ~SameKey(r[m], c) /\ ~SameKey(c, r[m])
      BY <1>3, SameKeyEquivalence
    <3>2. CASE k \in 1..Len(r) /\ l \in 1..Len(r)
      BY <1>3, <2>2, <3>2 DEF Distinct
    <3>3. CASE ~(k \in 1..Len(r) /\ l \in 1..Len(r))
      BY <2>3, <3>1, <3>3
    <3> QED
      BY <3>2, <3>3
  <2>6. ASSUME NEW i \in 1..Len(s)
        PROVE  \E k \in 1..Len(t) : SameKey(s[i], t[k])
    <3>1. CASE SameKey(s[i], c)
      <4>1. Len(t) \in 1..Len(t)
        BY <2>2
      <4> QED
        BY <2>2, <3>1, <4>1
    <3>2. CASE \E k \in 1..Len(r) : r[k] = s[i]
      <4>1. PICK k \in 1..Len(r) : r[k] = s[i]
        BY <3>2
      <4>2. k \in 1..Len(t) /\ t[k] = s[i]
        BY <2>2, <4>1
      <4> QED
        BY <4>2, SameKeyEquivalence
    <3> QED
      BY <1>3, <3>1, <3>2
  <2> QED
    BY <1>4, <2>1, <2>2, <2>4, <2>5, <2>6 DEF Applied
<1>5. CASE v = "expired"
  <2>1. Apply(s, c, v) = r
    BY <1>5 DEF Apply, r
  <2> QED
    BY <1>2, <1>3, <1>5, <2>1 DEF Applied
<1>6. CASE v # "stored" /\ v # "expired"
  <2>1. Apply(s, c, v) = s
    BY <1>6 DEF Apply
  <2> QED
    BY <1>6, <2>1, SameKeyEquivalence DEF Applied
<1> QED
  BY <1>4, <1>5, <1>6

-----------------------------------------------------------------------------
(* The chain.                                                                *)

Modes == {"direct", "tunnel", "forward", "socks5"}

Wired == [uri : AllUris, cookies : Seq(Cookie), mode : Modes]

\* A cookie the chain may hold, and a Cookie header that may go to u.
Kept(c) == c.name \notin CallerNames /\ Homed(c)
Fits(header, u) == \A j \in 1..Len(header) : Kept(header[j]) /\ Applies(header[j], u)

\* The proxy decision of a request is that of its own target.
Moded(mode, u) == mode = "direct" <=> (Proxy = "none" \/ HostBypasses(u.host))

ChainTyped ==
    /\ origin \in Origins /\ direct \in BOOLEAN
    /\ pc \in Over \cup {"request", "response", "store"}
    /\ uri \in AllUris /\ next_uri \in AllUris
    /\ hops \in Nat /\ sent \in Nat
    /\ cookies \in Seq(Cookie) /\ hop_cookies \in Seq(Cookie)
    /\ wire \in Seq(Wired)

\* The chain's cookies: none of the caller's, none twice, each where it belongs.
Jar == Distinct(cookies) /\ \A i \in 1..Len(cookies) : Kept(cookies[i])

\* The next hop's header is made for the next hop.
Headed == pc = "request" => Fits(hop_cookies, uri)

\* What went out was right for where it went.
Sent == \A k \in 1..Len(wire) : Fits(wire[k].cookies, wire[k].uri) /\ Moded(wire[k].mode, wire[k].uri)

\* Nothing is left of a chain that is over, and the first request of one is the
\* caller's.
Fresh ==
    /\ pc \in Over => /\ uri = origin /\ hops = 0 /\ wire = << >>
                      /\ cookies = << >> /\ hop_cookies = << >>
    /\ pc = "request" /\ wire = << >> => uri = origin /\ hop_cookies = << >>
    /\ pc \in {"response", "store"} => wire # << >>
    /\ wire # << >> => wire[1].uri = origin /\ wire[1].cookies = << >>
    /\ ~ForwardCookies => hop_cookies = << >>

ChainInv == ChainTyped /\ Jar /\ Headed /\ Sent /\ Fresh

LEMMA ModeFollowsTarget ==
    ASSUME NEW u
    PROVE  /\ ConnMode(u) \in Modes /\ Moded(ConnMode(u), u)
           /\ DirectMode(u) \in Modes /\ Moded(DirectMode(u), u)
<1>1. CASE EffectiveProxy(u) = "none"
  BY <1>1, ProxyAssumption DEF ConnMode, DirectMode, EffectiveProxy, Modes, Moded
<1>2. CASE EffectiveProxy(u) = "http"
  BY <1>2, ProxyAssumption DEF ConnMode, DirectMode, EffectiveProxy, Modes, Moded
<1>3. CASE EffectiveProxy(u) = "socks5"
  BY <1>3, ProxyAssumption DEF ConnMode, DirectMode, EffectiveProxy, Modes, Moded
<1> QED
  BY <1>1, <1>2, <1>3, ProxyAssumption DEF EffectiveProxy

LEMMA EmptyFits == \A u : Fits(<< >>, u) /\ Distinct(<< >>)
  BY DEF Fits, Distinct

LEMMA Ending ==
    ASSUME ChainInv, Leaves
    PROVE  ChainInv'
<1>1. /\ uri' = origin /\ next_uri' = origin /\ hops' = 0 /\ cookies' = << >> /\ hop_cookies' = << >>
      /\ wire' = << >> /\ sent' = sent /\ origin' = origin /\ direct' = direct /\ pc' \in Over
      /\ pc' # "request" /\ pc' \notin {"response", "store"}
  BY DEF Leaves, Dropped, config, Over
<1>2. ChainTyped'
  BY <1>1 DEF ChainInv, ChainTyped, AllUris
<1> QED
  BY <1>1, <1>2, EmptyFits DEF ChainInv, Jar, Headed, Sent, Fresh

LEMMA Settling ==
    ASSUME ChainInv, Settles
    PROVE  ChainInv'
<1>1. UNCHANGED <<uri, next_uri, hops, cookies, hop_cookies, wire, sent, origin, direct>>
      /\ pc \in Over /\ pc' \in Over
      /\ pc' # "request" /\ pc' \notin {"response", "store"}
  BY DEF Settles, config, locals, Over
<1> QED
  BY <1>1 DEF ChainInv, ChainTyped, Jar, Headed, Sent, Fresh

LEMMA Starting ==
    ASSUME ChainInv, Enters
    PROVE  ChainInv'
<1>1. UNCHANGED <<uri, next_uri, hops, cookies, hop_cookies, wire, sent, origin, direct>>
      /\ pc \in Over /\ pc' = "request"
  BY DEF Enters, config, locals, Over
<1>2. pc' \notin Over
  BY <1>1 DEF Over
<1> QED
  BY <1>1, <1>2, EmptyFits DEF ChainInv, ChainTyped, Jar, Headed, Sent, Fresh

\* A request goes out: the chain's own or one on a connection of its own.
LEMMA Sending ==
    ASSUME ChainInv, pc = "request", NEW header \in Seq(Cookie), NEW mode \in Modes,
           Fits(header, uri), Moded(mode, uri), hop_cookies = << >> => header = << >>,
           wire' = Append(wire, [uri |-> uri, cookies |-> header, mode |-> mode]),
           sent' = sent + 1, pc' = "response",
           UNCHANGED <<origin, direct, uri, next_uri, hops, cookies, hop_cookies>>
    PROVE  ChainInv'
<1> DEFINE w == [uri |-> uri, cookies |-> header, mode |-> mode]
<1>1. w \in Wired /\ w.uri = uri /\ w.cookies = header /\ w.mode = mode
  BY DEF Wired, ChainInv, ChainTyped
<1> HIDE DEF w
<1>2. /\ wire \in Seq(Wired) /\ wire' \in Seq(Wired) /\ Len(wire) \in Nat /\ Len(wire') = Len(wire) + 1
      /\ wire'[Len(wire) + 1] = w /\ wire' # << >>
      /\ \A k \in 1..Len(wire) : wire'[k] = wire[k]
  <2>1. wire' = Append(wire, w)
    BY DEF w
  <2>2. wire \in Seq(Wired)
    BY DEF ChainInv, ChainTyped
  <2> QED
    BY <1>1, <2>1, <2>2
<1>3. pc' \notin Over
  BY DEF Over
<1>4. ChainTyped'
  BY <1>2 DEF ChainInv, ChainTyped
<1>5. Sent'
  <2> SUFFICES ASSUME NEW k \in 1..Len(wire')
               PROVE  Fits(wire'[k].cookies, wire'[k].uri) /\ Moded(wire'[k].mode, wire'[k].uri)
    BY DEF Sent
  <2>1. CASE k \in 1..Len(wire)
    BY <1>2, <2>1 DEF ChainInv, Sent
  <2>2. CASE k = Len(wire) + 1
    BY <1>1, <1>2, <2>2
  <2> QED
    BY <1>2, <2>1, <2>2
<1>6. wire'[1].uri = origin /\ wire'[1].cookies = << >>
  <2>1. CASE wire = << >>
    <3>1. wire'[1] = w
      BY <1>2, <2>1
    <3> QED
      BY <1>1, <2>1, <3>1 DEF ChainInv, Fresh
  <2>2. CASE wire # << >>
    <3>1. wire'[1] = wire[1]
      BY <1>2, <2>2
    <3> QED
      BY <2>2, <3>1 DEF ChainInv, Fresh
  <2> QED
    BY <2>1, <2>2
<1>7. Fresh'
  BY <1>2, <1>3, <1>6 DEF ChainInv, Fresh
<1> QED
  BY <1>4, <1>5, <1>7 DEF ChainInv, Jar, Headed

LEMMA Dispatching ==
    ASSUME ChainInv, Dispatch
    PROVE  ChainInv'
<1>1. /\ pc = "request" /\ hop_cookies \in Seq(Cookie) /\ Fits(hop_cookies, uri)
      /\ ConnMode(uri) \in Modes /\ Moded(ConnMode(uri), uri)
  BY ModeFollowsTarget DEF Dispatch, ChainInv, ChainTyped, Headed
<1>2. /\ wire' = Append(wire, [uri |-> uri, cookies |-> hop_cookies, mode |-> ConnMode(uri)])
      /\ sent' = sent + 1 /\ pc' = "response"
      /\ UNCHANGED <<origin, direct, uri, next_uri, hops, cookies, hop_cookies>>
  BY DEF Dispatch, Built, config
<1> QED
  BY <1>1, <1>2, Sending

LEMMA DispatchingDirect ==
    ASSUME ChainInv, DispatchDirect
    PROVE  ChainInv'
<1>1. /\ pc = "request" /\ << >> \in Seq(Cookie) /\ Fits(<< >>, uri)
      /\ DirectMode(uri) \in Modes /\ Moded(DirectMode(uri), uri)
  BY ModeFollowsTarget, EmptyFits DEF DispatchDirect
<1>2. /\ wire' = Append(wire, [uri |-> uri, cookies |-> << >>, mode |-> DirectMode(uri)])
      /\ sent' = sent + 1 /\ pc' = "response"
      /\ UNCHANGED <<origin, direct, uri, next_uri, hops, cookies, hop_cookies>>
  BY DEF DispatchDirect, config
<1> QED
  BY <1>1, <1>2, Sending

LEMMA Redirecting ==
    ASSUME ChainInv, NEW u \in Uris, Redirect(u)
    PROVE  ChainInv'
<1>1. /\ pc = "response" /\ pc' = "store" /\ hops' = hops + 1 /\ next_uri' = u
      /\ UNCHANGED <<origin, direct, uri, cookies, hop_cookies, wire, sent>>
  BY DEF Redirect, config
<1>2. pc' \notin Over /\ u \in AllUris
  BY <1>1 DEF Over, AllUris
<1> QED
  BY <1>1, <1>2 DEF ChainInv, ChainTyped, Jar, Headed, Sent, Fresh

LEMMA Storing ==
    ASSUME ChainInv, NEW h \in SetCookies, Store(h)
    PROVE  /\ ChainInv'
           /\ verdict' # "expired" =>
                \A i \in 1..Len(cookies) : \E j \in 1..Len(cookies') : SameKey(cookies[i], cookies'[j])
<1>1. /\ pc = "store" /\ pc' = "store" /\ ForwardCookies
      /\ UNCHANGED <<origin, direct, uri, next_uri, hops, hop_cookies, wire, sent>>
  BY DEF Store, config
<1>2. cookies \in Seq(Cookie) /\ Distinct(cookies) /\ uri \in AllUris
      /\ \A i \in 1..Len(cookies) : Kept(cookies[i])
  BY DEF ChainInv, ChainTyped, Jar
<1>3. /\ cookies' \in Seq(Cookie) /\ Jar'
      /\ verdict' # "expired" =>
           \A i \in 1..Len(cookies) : \E j \in 1..Len(cookies') : SameKey(cookies[i], cookies'[j])
  <2>1. CASE cookies' = cookies
    BY <1>2, <2>1, SameKeyEquivalence DEF Jar
  <2>2. CASE \E c \in ParseSetCookie(h, uri) : /\ verdict' = Verdict(cookies, c, h.expired)
                                              /\ cookies' = Apply(cookies, c, verdict')
    <3>1. PICK c \in ParseSetCookie(h, uri) : /\ verdict' = Verdict(cookies, c, h.expired)
                                             /\ cookies' = Apply(cookies, c, verdict')
      BY <2>2
    <3>2. c \in Cookie /\ Homed(c)
      BY <1>2, ParsedCookie
    <3>3. Applied(cookies, cookies', c, verdict')
      BY <1>2, <3>1, <3>2, AppliedHolds
    <3>4. verdict' = "stored" => Kept(c)
      BY <3>1, <3>2 DEF Verdict, Kept
    <3>5. \A k \in 1..Len(cookies') : Kept(cookies'[k])
      BY <1>2, <3>3, <3>4 DEF Applied
    <3> QED
      BY <3>3, <3>5 DEF Applied, Jar
  <2> QED
    BY <2>1, <2>2 DEF Store
<1>4. pc' \notin Over
  BY <1>1 DEF Over
<1>5. ChainInv'
  BY <1>1, <1>3, <1>4 DEF ChainInv, ChainTyped, Headed, Sent, Fresh
<1> QED
  BY <1>3, <1>5

LEMMA Advancing ==
    ASSUME ChainInv, Advance
    PROVE  ChainInv'
<1>1. /\ pc = "store" /\ pc' = "request" /\ uri' = next_uri
      /\ hop_cookies' = IF ForwardCookies THEN HeaderFor(cookies, next_uri) ELSE hop_cookies
      /\ UNCHANGED <<origin, direct, next_uri, hops, cookies, wire, sent>>
  BY DEF Advance, config
<1>2. cookies \in Seq(Cookie) /\ next_uri \in AllUris
      /\ \A i \in 1..Len(cookies) : Kept(cookies[i])
  BY DEF ChainInv, ChainTyped, Jar
<1>3. hop_cookies' \in Seq(Cookie) /\ Fits(hop_cookies', next_uri)
  <2>1. CASE ForwardCookies
    <3>1. /\ HeaderFor(cookies, next_uri) \in Seq(Cookie)
          /\ \A k \in 1..Len(HeaderFor(cookies, next_uri)) :
               \E i \in 1..Len(cookies) : /\ HeaderFor(cookies, next_uri)[k] = cookies[i]
                                          /\ Applies(cookies[i], next_uri)
      BY <1>2, HeaderHolds
    <3> QED
      BY <1>1, <1>2, <2>1, <3>1 DEF Fits
  <2>2. CASE ~ForwardCookies
    <3>1. hop_cookies' = << >>
      BY <1>1, <2>2 DEF ChainInv, Fresh
    <3> QED
      BY <3>1, EmptyFits
  <2> QED
    BY <2>1, <2>2
<1>4. pc' \notin Over /\ wire # << >>
  BY <1>1 DEF Over, ChainInv, Fresh
<1>5. ~ForwardCookies => hop_cookies' = << >>
  BY <1>1 DEF ChainInv, Fresh
<1>6. Fresh'
  BY <1>1, <1>4, <1>5 DEF ChainInv, Fresh
<1> QED
  BY <1>1, <1>2, <1>3, <1>6 DEF ChainInv, ChainTyped, Jar, Headed, Sent

LEMMA ChainStep ==
    ASSUME LoopInv, ChainInv, [Next]_vars
    PROVE  ChainInv'
<1>1. CASE UNCHANGED chainVars
  BY <1>1 DEF chainVars, ChainInv, ChainTyped, Jar, Headed, Sent, Fresh
<1> QED
  BY <1>1, StepShapes, Ending, Settling, Starting, Dispatching, DispatchingDirect, Redirecting,
     Storing, Advancing

LEMMA ChainStarts == Init => ChainInv
<1> SUFFICES ASSUME Init PROVE ChainInv
  OBVIOUS
<1>1. /\ origin \in Origins /\ direct \in BOOLEAN /\ pc = "idle" /\ uri = origin /\ next_uri = origin
      /\ hops = 0 /\ cookies = << >> /\ hop_cookies = << >> /\ wire = << >> /\ sent = 0
  BY DEF Init, ChainInit
<1>2. pc \in Over /\ pc \notin {"request", "response", "store"} /\ origin \in AllUris
  BY <1>1 DEF Over, AllUris
<1> QED
  BY <1>1, <1>2, EmptyFits DEF ChainInv, ChainTyped, Jar, Headed, Sent, Fresh

LEMMA ChainKept == Spec => []ChainInv
  BY LoopKept, ChainStarts, ChainStep, PTL DEF Spec

-----------------------------------------------------------------------------
(* Suffixes and registrable domains.                                         *)

LEMMA SuffixElements ==
    ASSUME NEW S, NEW s \in Seq(S), NEW t \in Seq(S)
    PROVE  IsSuffix(s, t) <=> /\ Len(s) <= Len(t)
                              /\ \A i \in 1..Len(s) : s[i] = t[(Len(t) - Len(s)) + i]
<1> DEFINE rs == Reverse(s)
           rt == Reverse(t)
<1>1. Len(s) \in Nat /\ Len(t) \in Nat
  OBVIOUS
<1>2. /\ rs \in Seq(S) /\ Len(rs) = Len(s) /\ \A i \in 1..Len(s) : rs[i] = s[(Len(s) - i) + 1]
      /\ rt \in Seq(S) /\ Len(rt) = Len(t) /\ \A i \in 1..Len(t) : rt[i] = t[(Len(t) - i) + 1]
  BY <1>1 DEF Reverse
<1> HIDE DEF rs, rt
<1>3. IsSuffix(s, t) <=> Len(s) <= Len(t) /\ SubSeq(rs, 1, Len(s)) = SubSeq(rt, 1, Len(s))
  BY <1>2 DEF IsSuffix, IsPrefix, rs, rt
<1>4. ASSUME Len(s) <= Len(t)
      PROVE  SubSeq(rs, 1, Len(s)) = SubSeq(rt, 1, Len(s)) <=> \A i \in 1..Len(s) : rs[i] = rt[i]
  <2> DEFINE a == SubSeq(rs, 1, Len(s))
             b == SubSeq(rt, 1, Len(s))
  <2>1. /\ a \in Seq(S) /\ Len(a) = Len(s) /\ \A i \in 1..Len(s) : a[i] = rs[i]
        /\ b \in Seq(S) /\ Len(b) = Len(s) /\ \A i \in 1..Len(s) : b[i] = rt[i]
    BY <1>1, <1>2, <1>4
  <2> HIDE DEF a, b
  <2>2. a = b <=> \A i \in 1..Len(s) : rs[i] = rt[i]
    <3>1. ASSUME \A i \in 1..Len(s) : rs[i] = rt[i]
          PROVE  a = b
      BY <2>1, <3>1, SeqEqual
    <3> QED
      BY <2>1, <3>1
  <2> QED
    BY <2>2 DEF a, b
<1>5. ASSUME Len(s) <= Len(t)
      PROVE  (\A i \in 1..Len(s) : rs[i] = rt[i])
               <=> \A i \in 1..Len(s) : s[i] = t[(Len(t) - Len(s)) + i]
  <2> DEFINE Back(i) == (Len(s) - i) + 1
  <2>1. \A i \in 1..Len(s) : /\ Back(i) \in 1..Len(s) /\ Back(Back(i)) = i /\ i \in 1..Len(t)
                             /\ (Len(t) - i) + 1 = (Len(t) - Len(s)) + Back(i)
    BY <1>1, <1>5
  <2>2. \A i \in 1..Len(s) : rs[i] = s[Back(i)] /\ rt[i] = t[(Len(t) - Len(s)) + Back(i)]
    BY <1>2, <2>1
  <2> HIDE DEF Back
  <2>3. ASSUME \A i \in 1..Len(s) : rs[i] = rt[i], NEW i \in 1..Len(s)
        PROVE  s[i] = t[(Len(t) - Len(s)) + i]
    <3>1. Back(i) \in 1..Len(s) /\ Back(Back(i)) = i
      BY <2>1
    <3>2. rs[Back(i)] = s[i] /\ rt[Back(i)] = t[(Len(t) - Len(s)) + i]
      BY <2>2, <3>1
    <3> QED
      BY <2>3, <3>1, <3>2
  <2>4. ASSUME \A i \in 1..Len(s) : s[i] = t[(Len(t) - Len(s)) + i], NEW i \in 1..Len(s)
        PROVE  rs[i] = rt[i]
    <3>1. Back(i) \in 1..Len(s)
      BY <2>1
    <3>2. s[Back(i)] = t[(Len(t) - Len(s)) + Back(i)]
      BY <2>4, <3>1
    <3> QED
      BY <2>2, <3>2
  <2> QED
    BY <2>3, <2>4
<1> QED
  BY <1>3, <1>4, <1>5

LEMMA SuffixTransitive ==
    ASSUME NEW S, NEW s \in Seq(S), NEW t \in Seq(S), NEW u \in Seq(S), IsSuffix(s, t), IsSuffix(t, u)
    PROVE  IsSuffix(s, u)
<1>1. /\ Len(s) \in Nat /\ Len(t) \in Nat /\ Len(u) \in Nat
      /\ Len(s) <= Len(t) /\ \A i \in 1..Len(s) : s[i] = t[(Len(t) - Len(s)) + i]
      /\ Len(t) <= Len(u) /\ \A i \in 1..Len(t) : t[i] = u[(Len(u) - Len(t)) + i]
  BY SuffixElements
<1>2. \A i \in 1..Len(s) : /\ (Len(t) - Len(s)) + i \in 1..Len(t)
                           /\ (Len(u) - Len(t)) + ((Len(t) - Len(s)) + i) = (Len(u) - Len(s)) + i
  BY <1>1
<1>3. Len(s) <= Len(u) /\ \A i \in 1..Len(s) : s[i] = u[(Len(u) - Len(s)) + i]
  BY <1>1, <1>2
<1> QED
  BY <1>3, SuffixElements

\* A set of numbers up to n has a largest one.
LEMMA Largest ==
    ASSUME NEW n \in Nat, NEW T, T \subseteq 1..n, T # {}
    PROVE  \E k \in T : \A j \in T : j <= k
<1> DEFINE D == {n - k : k \in T}
           R == OpToRel(<, Nat)
<1>1. D \subseteq Nat /\ D # {}
  <2>1. \A k \in T : k \in 1..n
    OBVIOUS
  <2>2. \A k \in T : n - k \in Nat
    BY <2>1
  <2> QED
    BY <2>2
<1>2. IsWellFoundedOn(R, Nat)
  BY NatLessThanWellFounded
<1>3. PICK x \in D : \A y \in D : ~(<<y, x>> \in R)
  <2> HIDE DEF D, R
  <2> QED
    BY <1>1, <1>2, WFMin
<1>4. \A y \in D : ~(y < x)
  <2>1. \A y \in D : y \in Nat /\ x \in Nat
    BY <1>1
  <2> QED
    BY <1>3, <2>1 DEF OpToRel
<1>5. PICK k \in T : x = n - k
  OBVIOUS
<1>6. \A j \in T : ~(n - j < n - k) /\ j \in Nat /\ k \in Nat
  BY <1>4, <1>5
<1> QED
  BY <1>6

LEMMA SuffixLengthType ==
    ASSUME NEW host \in Seq(STRING)
    PROVE  SuffixLength(host) \in Nat /\ SuffixLength(host) >= 1
<1> DEFINE T == {k \in 1..Len(host) :
                   SubSeq(host, Len(host) - k + 1, Len(host)) \in PublicSuffixes}
<1>1. T \subseteq 1..Len(host) /\ Len(host) \in Nat
  OBVIOUS
<1>2. SuffixLength(host) = IF T = {} THEN 1 ELSE CHOOSE k \in T : \A j \in T : j <= k
  BY DEF SuffixLength
<1> HIDE DEF T
<1>3. CASE T = {}
  BY <1>2, <1>3
<1>4. CASE T # {}
  <2>1. \E k \in T : \A j \in T : j <= k
    BY <1>1, <1>4, Largest
  <2>2. SuffixLength(host) \in T
    BY <1>2, <1>4, <2>1
  <2>3. SuffixLength(host) \in 1..Len(host)
    BY <1>1, <2>2
  <2> QED
    BY <1>1, <2>3
<1> QED
  BY <1>3, <1>4

\* The registrable domain of a name that has one is the end of that name.
LEMMA RegistrableSuffix ==
    ASSUME NEW host \in Seq(STRING), ~IsPublicSuffix(host)
    PROVE  /\ Registrable(host) \in Seq(STRING) /\ Registrable(host) # Unset
           /\ IsSuffix(Registrable(host), host)
<1> DEFINE l == SuffixLength(host)
           n == Len(host)
           r == SubSeq(host, n - l, n)
<1>1. l \in Nat /\ l >= 1 /\ n \in Nat /\ l < n
  BY SuffixLengthType DEF IsPublicSuffix
<1>2. Registrable(host) = r
  BY DEF Registrable
<1> HIDE DEF l
<1>3. r \in Seq(STRING) /\ Len(r) = l + 1 /\ \A i \in 1..(l + 1) : r[i] = host[(n - l) + i - 1]
  BY <1>1
<1> HIDE DEF r
<1>4. Len(r) <= n /\ \A i \in 1..Len(r) : r[i] = host[(n - Len(r)) + i]
  <2>1. \A i \in 1..(l + 1) : (n - (l + 1)) + i = (n - l) + i - 1
    BY <1>1
  <2> QED
    BY <1>1, <1>3, <2>1
<1>5. IsSuffix(r, host)
  BY <1>3, <1>4, SuffixElements
<1>6. r # << >>
  BY <1>1, <1>3
<1> QED
  BY <1>2, <1>3, <1>5, <1>6 DEF Unset

\* Where a cookie that belongs to the chain is sent, it belongs.
LEMMA Reaches ==
    ASSUME NEW c \in Cookie, NEW u \in AllUris, Homed(c), Applies(c, u)
    PROVE  /\ \/ u.host = c.set_by
              \/ /\ ~c.host_only
                 /\ Registrable(c.set_by) # Unset
                 /\ IsSuffix(Registrable(c.set_by), u.host)
           /\ c.secure => u.scheme = "https"
<1>1. c.secure => u.scheme = "https"
  BY DEF Applies
<1>2. CASE c.host_only
  BY <1>1, <1>2 DEF Applies, Homed
<1>3. CASE ~c.host_only
  <2>1. c.domain \in Seq(STRING) /\ u.host \in Seq(STRING)
    BY UriFields DEF Cookie
  <2>2. ~IsPublicSuffix(c.domain) /\ Registrable(c.domain) = Registrable(c.set_by)
    BY <1>3 DEF Homed
  <2>3. u.host = c.domain \/ IsSuffix(c.domain, u.host)
    BY <1>3 DEF Applies, DomainMatches, IsStrictSuffix
  <2>4. /\ Registrable(c.domain) \in Seq(STRING) /\ Registrable(c.domain) # Unset
        /\ IsSuffix(Registrable(c.domain), c.domain)
    BY <2>1, <2>2, RegistrableSuffix
  <2>5. IsSuffix(Registrable(c.domain), u.host)
    BY <2>1, <2>3, <2>4, SuffixTransitive
  <2> QED
    BY <1>1, <1>3, <2>2, <2>4, <2>5
<1> QED
  BY <1>2, <1>3

-----------------------------------------------------------------------------
(* How many requests one call sends.                                         *)

PerChain == IF direct THEN 1 ELSE RedirectLimit + 1
Running == {"request", "response", "store"}

\* A chain has sent one request for each redirect it followed.
Counted ==
    /\ hops <= RedirectLimit
    /\ direct => hops = 0
    /\ pc = "request" => Len(wire) = hops
    /\ pc = "response" => Len(wire) = hops + 1
    /\ pc = "store" => Len(wire) = hops /\ ~direct

\* Earlier attempts took a whole chain each at most.
Spent ==
    /\ phase = "validate" => sent = 0
    /\ phase = "backoff" => sent <= attempt * PerChain
    /\ pc \in Running => sent <= attempt * PerChain + Len(wire)
    /\ sent <= (attempt + 1) * PerChain

LEMMA CountedStep ==
    ASSUME LoopInv, ChainInv, Counted, [Next]_vars
    PROVE  Counted'
<1>0. hops \in Nat /\ wire \in Seq(Wired) /\ Len(wire) \in Nat /\ RedirectLimit \in Nat /\ 0 <= RedirectLimit
  BY LimitAssumption DEF ChainInv, ChainTyped
<1>1. CASE Leaves
  BY <1>0, <1>1 DEF Leaves, Dropped, config, Counted
<1>2. CASE Settles
  BY <1>2 DEF Settles, config, locals, Over, Counted
<1>3. CASE Enters
  <2>1. pc \in Over /\ pc' = "request" /\ UNCHANGED <<hops, wire, direct>>
    BY <1>3 DEF Enters, config, locals, Over
  <2>2. hops = 0 /\ wire = << >>
    BY <2>1 DEF ChainInv, Fresh
  <2> QED
    BY <1>0, <2>1, <2>2 DEF Counted
<1>4. CASE Dispatch
  <2>1. Len(wire') = Len(wire) + 1
    <3>1. wire' = Append(wire, Built)
      BY <1>4 DEF Dispatch
    <3> QED
      BY <1>0, <3>1
  <2> QED
    BY <1>0, <1>4, <2>1 DEF Dispatch, config, Counted
<1>5. CASE DispatchDirect
  <2>1. Len(wire') = Len(wire) + 1
    <3>1. \E w : wire' = Append(wire, w)
      BY <1>5 DEF DispatchDirect
    <3> QED
      BY <1>0, <3>1
  <2> QED
    BY <1>0, <1>5, <2>1 DEF DispatchDirect, config, Counted
<1>6. CASE \E u \in Uris : Redirect(u)
  BY <1>0, <1>6 DEF Redirect, OverLimit, config, Counted
<1>7. CASE \E h \in SetCookies : Store(h)
  BY <1>0, <1>7 DEF Store, config, Counted
<1>8. CASE Advance
  BY <1>0, <1>8 DEF Advance, config, Counted
<1>9. CASE UNCHANGED chainVars
  BY <1>9 DEF chainVars, Counted
<1> QED
  BY <1>1, <1>2, <1>3, <1>4, <1>5, <1>6, <1>7, <1>8, <1>9, StepShapes

ChainBound ==
    /\ PerChain \in Nat /\ PerChain >= 1
    /\ Len(wire) \in Nat /\ Len(wire) <= PerChain

LEMMA ChainBounded == ChainInv /\ Counted => ChainBound
<1> SUFFICES ASSUME ChainInv, Counted
             PROVE  ChainBound
  OBVIOUS
<1>1. hops \in Nat /\ Len(wire) \in Nat /\ RedirectLimit \in Nat /\ direct \in BOOLEAN
  BY LimitAssumption DEF ChainInv, ChainTyped
<1>2. PerChain \in Nat /\ PerChain >= 1 /\ hops + 1 <= PerChain
  BY <1>1 DEF PerChain, Counted
<1>3. CASE pc \in Over
  BY <1>2, <1>3 DEF ChainInv, Fresh, ChainBound
<1>4. CASE pc \notin Over
  BY <1>1, <1>2, <1>4 DEF ChainInv, ChainTyped, Counted, ChainBound
<1> QED
  BY <1>3, <1>4

LEMMA Multiples ==
    ASSUME NEW a \in Nat, NEW p \in Nat
    PROVE  a * p \in Nat /\ (a + 1) * p = a * p + p
  OBVIOUS

LEMMA SpentStep ==
    ASSUME LoopInv, ChainInv, Counted, Spent, [Next]_vars
    PROVE  Spent'
<1> DEFINE p == PerChain
           used == attempt * p
<1>1. /\ p \in Nat /\ p >= 1 /\ Len(wire) \in Nat /\ Len(wire) <= p
      /\ attempt \in Nat /\ sent \in Nat /\ wire \in Seq(Wired)
  BY ChainBounded DEF LoopInv, Slept, ChainInv, ChainTyped, ChainBound
<1>2. used \in Nat /\ (attempt + 1) * p = used + p
  <2> HIDE DEF p
  <2> QED
    BY <1>1, Multiples
<1>3. /\ phase = "validate" => sent = 0
      /\ phase = "backoff" => sent <= used
      /\ pc \in Running => sent <= used + Len(wire)
      /\ sent <= used + p
  BY <1>2 DEF Spent
<1>4. direct' = direct /\ p' = p
  <2>1. direct' = direct
    <3>1. CASE UNCHANGED chainVars
      BY <3>1 DEF chainVars
    <3> QED
      BY <3>1, StepShapes DEF Leaves, Settles, Enters, Dispatch, DispatchDirect, Redirect, Store, Advance,
         config
  <2> QED
    BY <2>1 DEF PerChain
<1>5. ChainInv' /\ Counted'
  BY ChainStep, CountedStep
<1>6. Len(wire') \in Nat /\ Len(wire') <= p
  <2>1. ChainBound'
    BY <1>5, ChainBounded, PTL
  <2> QED
    BY <1>4, <2>1 DEF ChainBound
\* The loop goes round: what is spent is that of one attempt more.
<1>7. CASE attempt' = attempt + 1 /\ sent' = sent /\ pc' = "idle" /\ phase' = "backoff"
  <2> HIDE DEF p, used
  <2>1. attempt' \in Nat /\ attempt' * p' = used + p /\ (attempt' + 1) * p' = (used + p) + p
    <3>1. attempt' * p' = used + p /\ attempt' \in Nat
      BY <1>1, <1>2, <1>4, <1>7
    <3>2. (attempt' + 1) * p' = attempt' * p' + p'
      BY <1>1, <1>4, <3>1, Multiples
    <3> QED
      BY <1>4, <3>1, <3>2
  <2>2. sent' <= used + p /\ sent' <= (used + p) + p
    BY <1>1, <1>2, <1>3, <1>7
  <2> QED
    BY <1>7, <2>1, <2>2 DEF Spent, Running, p
\* An attempt goes on, starts or ends.
<1>8. CASE /\ attempt' = attempt /\ phase' \notin {"validate", "backoff"}
           /\ \/ sent' = sent /\ pc' \notin Running
              \/ sent' <= used + Len(wire') /\ sent' \in Nat
  <2>1. attempt' * p' = used /\ (attempt' + 1) * p' = used + p
    <3> HIDE DEF p
    <3> QED
      BY <1>2, <1>4, <1>8
  <2> HIDE DEF used
  <2>2. sent' <= used + p
    <3> HIDE DEF p
    <3> QED
      BY <1>1, <1>2, <1>3, <1>6, <1>8
  <2> QED
    BY <1>8, <2>1, <2>2 DEF Spent
<1> HIDE DEF p, used
<1>9. CASE InvalidProxy
  BY <1>9, <1>8 DEF InvalidProxy, chainVars, LoopInv, Parked, Running
<1>10. CASE FirstAttempt \/ Backoff
  <2>1. pc = "idle" /\ phase \in {"validate", "backoff"} /\ attempt' = attempt /\ sent' = sent
        /\ wire' = wire /\ phase' = "attempt"
    BY <1>10 DEF FirstAttempt, Backoff, Attempt, locals, LoopInv, Parked
  <2>2. sent <= used
    BY <1>1, <1>2, <1>3, <2>1
  <2>3. sent' <= used + Len(wire') /\ sent' \in Nat
    BY <1>1, <1>2, <2>1, <2>2
  <2> QED
    BY <1>8, <2>1, <2>3
<1>11. CASE Chain
  <2>1. attempt' = attempt /\ phase' = "attempt"
    BY <1>11 DEF Chain
  <2>2. CASE Leaves
    BY <1>8, <2>1, <2>2 DEF Leaves, Running
  <2>3. CASE Dispatch \/ DispatchDirect
    <3>1. pc \in Running /\ sent' = sent + 1 /\ \E w : wire' = Append(wire, w)
      BY <2>3 DEF Dispatch, DispatchDirect, Running
    <3>2. Len(wire') = Len(wire) + 1
      BY <1>1, <3>1
    <3>3. sent' <= used + Len(wire') /\ sent' \in Nat
      BY <1>1, <1>2, <1>3, <3>1, <3>2
    <3> QED
      BY <1>8, <2>1, <3>3
  <2>4. CASE (\E u \in Uris : Redirect(u)) \/ (\E h \in SetCookies : Store(h)) \/ Advance
    <3>1. pc \in Running /\ sent' = sent /\ wire' = wire
      BY <2>4 DEF Redirect, Store, Advance, Running
    <3> QED
      BY <1>1, <1>3, <1>8, <2>1, <3>1
  <2> QED
    BY <1>11, <2>2, <2>3, <2>4, ChainShapes DEF Chain
<1>12. CASE \E b \in Bodies : ParseBody(b)
  <2>1. attempt' = attempt /\ sent' = sent /\ phase' = "attempt" /\ pc' \in {"ended", "parsed"}
    BY <1>12 DEF ParseBody
  <2> QED
    BY <1>8, <2>1 DEF Running
<1>13. ASSUME NEW o, Conclude(o)
       PROVE  Spent'
  <2>1. CASE IsRetryable(o) /\ attempt < MaxRetries
    BY <1>7, <1>13, <2>1 DEF Conclude
  <2>2. CASE ~(IsRetryable(o) /\ attempt < MaxRetries)
    BY <1>8, <1>13, <2>2 DEF Conclude, Running
  <2> QED
    BY <2>1, <2>2
<1>14. CASE AttemptTimesOut
  BY <1>8, <1>14 DEF AttemptTimesOut, Running
<1>15. CASE UNCHANGED vars
  <2>1. UNCHANGED <<attempt, sent, phase, pc, wire, direct>>
    BY <1>15 DEF vars, chainVars
  <2> QED
    BY <2>1 DEF Spent, PerChain
<1> QED
  BY <1>9, <1>10, <1>11, <1>12, <1>13, <1>14, <1>15 DEF Next, Responds, Errs

LEMMA CountKept == Spec => [](LoopInv /\ ChainInv /\ Counted /\ Spent)
<1>1. Init => Counted /\ Spent
  <2> SUFFICES ASSUME Init PROVE Counted /\ Spent
    OBVIOUS
  <2>1. /\ hops = 0 /\ sent = 0 /\ pc = "idle" /\ attempt = 0
    BY DEF Init, ChainInit
  <2>2. PerChain \in Nat /\ RedirectLimit \in Nat
    BY LimitAssumption DEF PerChain
  <2>3. (attempt + 1) * PerChain \in Nat
    BY <2>1, <2>2, Multiples
  <2> QED
    BY <2>1, <2>2, <2>3 DEF Counted, Spent, Running
<1>2. LoopInv /\ ChainInv /\ Counted /\ Spent /\ [Next]_vars => Counted' /\ Spent'
  BY CountedStep, SpentStep
<1> QED
  BY <1>1, <1>2, LoopKept, ChainKept, PTL DEF Spec

-----------------------------------------------------------------------------
(* The theorems.                                                             *)

\* For every number of retries and redirects one call of send() puts no more
\* requests on the wire than attempts times hops, and one for each attempt when
\* it goes to an address or target of its own.
THEOREM RequestsAreBounded == Spec => []RequestsBounded
<1>1. ChainInv /\ Counted /\ Spent => RequestsBounded
  BY ChainBounded DEF ChainBound, Spent, PerChain, RequestsBounded
<1> QED
  BY <1>1, CountKept, PTL

\* Whatever an attempt met and however it ended, the next one starts at the
\* caller's URL, without a cookie.
THEOREM AttemptsAreFresh == Spec => []AttemptsStartAfresh
<1>1. ChainInv => AttemptsStartAfresh
  BY DEF ChainInv, Fresh, Over, AttemptsStartAfresh
<1> QED
  BY <1>1, ChainKept, PTL

\* For every Public Suffix List and every chain, a cookie goes to the host that
\* set it or stays under that host's registrable domain, and a Secure one goes
\* out over https alone.
THEOREM CookiesStayHome == Spec => []CookieStaysHome
<1>1. ChainInv => CookieStaysHome
  <2> SUFFICES ASSUME ChainInv, NEW k \in 1..Len(wire), NEW j \in 1..Len(wire[k].cookies)
               PROVE  LET c == wire[k].cookies[j]
                          to == wire[k].uri
                      IN  /\ \/ to.host = c.set_by
                             \/ /\ ~c.host_only
                                /\ Registrable(c.set_by) # Unset
                                /\ IsSuffix(Registrable(c.set_by), to.host)
                          /\ c.secure => to.scheme = "https"
    BY DEF CookieStaysHome
  <2>1. wire[k] \in Wired
    BY DEF ChainInv, ChainTyped
  <2>2. wire[k].uri \in AllUris /\ wire[k].cookies \in Seq(Cookie)
    BY <2>1 DEF Wired
  <2>3. wire[k].cookies[j] \in Cookie
    BY <2>2
  <2>4. Homed(wire[k].cookies[j]) /\ Applies(wire[k].cookies[j], wire[k].uri)
    BY DEF ChainInv, Sent, Fits, Kept
  <2> QED
    BY <2>2, <2>3, <2>4, Reaches
<1> QED
  BY <1>1, ChainKept, PTL

\* Whatever servers set, the chain never holds or sends a cookie of the
\* caller's names, nor two under one key.
THEOREM CallerAlwaysWins == Spec => []CallerWins
<1>1. ChainInv => CallerWins
  BY DEF ChainInv, Jar, Sent, Fits, Kept, Distinct, CallerWins
<1> QED
  BY <1>1, ChainKept, PTL

\* For every proxy and every no_proxy list the decision is made for each hop
\* anew, on the direct way as on the chain's.
THEOREM ProxyIsDecidedPerHop == Spec => []ProxyFollowsHop
<1>1. ChainInv => ProxyFollowsHop
  BY DEF ChainInv, Sent, Moded, ProxyFollowsHop
<1> QED
  BY <1>1, ChainKept, PTL

\* At every ceiling, a refused cookie leaves the one it would have replaced; a
\* key leaves a chain that goes on only by an expiry.
THEOREM RefusalsCostNothing == Spec => RefusalCostsNothing
<1>1. LoopInv /\ ChainInv /\ [Next]_vars =>
        [\A i \in 1..Len(cookies) :
           \/ \E j \in 1..Len(cookies') : SameKey(cookies[i], cookies'[j])
           \/ verdict' = "expired"
           \/ pc' # "store"]_cookies
  <2> SUFFICES ASSUME LoopInv, ChainInv, [Next]_vars, cookies' # cookies, pc' = "store", verdict' # "expired"
               PROVE  \A i \in 1..Len(cookies) :
                        \E j \in 1..Len(cookies') : SameKey(cookies[i], cookies'[j])
    OBVIOUS
  <2>1. \E h \in SetCookies : Store(h)
    <3>1. CASE UNCHANGED chainVars
      BY <3>1 DEF chainVars
    <3> QED
      BY <3>1, StepShapes DEF Leaves, Settles, Enters, Dispatch, DispatchDirect, Redirect, Advance,
         locals
  <2> QED
    BY <2>1, Storing
<1> QED
  BY <1>1, LoopKept, ChainKept, PTL DEF Spec, RefusalCostsNothing

-----------------------------------------------------------------------------
(* Bodies.  Sequences whose elements are of no particular set.             *)

\* What holds of 0 and goes from each number to the next, holds up to n.
LEMMA UpTo ==
    ASSUME NEW n \in Nat, NEW T, 0 \in T,
           \A i \in 1..n : i - 1 \in T => i \in T
    PROVE  0..n \subseteq T
<1> SUFFICES ASSUME NEW i \in 0..n, i \notin T
             PROVE  FALSE
  OBVIOUS
<1> DEFINE W == {k \in Nat : k <= n /\ k \notin T}
<1>1. i \in W
  OBVIOUS
<1>2. IsWellFoundedOn(OpToRel(<, Nat), Nat)
  BY NatLessThanWellFounded
<1>3. PICK k \in W : \A j \in W : ~(<<j, k>> \in OpToRel(<, Nat))
  <2>1. W \subseteq Nat /\ W # {}
    BY <1>1
  <2> HIDE DEF W
  <2> QED
    BY <1>2, <2>1, WFMin
<1>4. \A j \in W : ~(j < k)
  <2>1. k \in Nat /\ \A j \in W : j \in Nat
    BY <1>3
  <2> QED
    BY <1>3, <2>1 DEF OpToRel
<1>5. k \in 1..n /\ k - 1 \in Nat /\ k - 1 <= n /\ k - 1 < k
  <2>1. k \in Nat /\ k <= n /\ k \notin T
    BY <1>3
  <2>2. k # 0
    BY <2>1
  <2> QED
    BY <2>1, <2>2
<1>6. k - 1 \in T
  BY <1>4, <1>5
<1> QED
  BY <1>3, <1>5, <1>6

LEMMA RowIs ==
    ASSUME NEW s, IsRow(s)
    PROVE  Len(s) \in Nat /\ s = [i \in 1..Len(s) |-> s[i]]
<1> DEFINE S == {s[i] : i \in 1..Len(s)}
<1>1. s \in Seq(S)
  BY DEF IsRow
<1> HIDE DEF S
<1> QED
  BY <1>1

LEMMA RowFrom ==
    ASSUME NEW S, NEW s \in Seq(S)
    PROVE  IsRow(s)
<1> DEFINE n == Len(s)
           R == {s[i] : i \in 1..n}
<1>1. n \in Nat /\ s \in [1..n -> S]
  OBVIOUS
<1>2. s \in [1..n -> R]
  BY <1>1
<1>3. s \in Seq(R)
  <2> HIDE DEF R
  <2> QED
    BY <1>1, <1>2
<1> QED
  BY <1>3 DEF IsRow

LEMMA RowOf ==
    ASSUME NEW n \in Nat, NEW s, s = [i \in 1..n |-> s[i]]
    PROVE  IsRow(s) /\ Len(s) = n
<1> DEFINE R == {s[i] : i \in 1..n}
<1>1. s \in [1..n -> R]
  OBVIOUS
<1> HIDE DEF R
<1>2. s \in Seq(R) /\ Len(s) = n
  BY <1>1
<1> QED
  BY <1>2, RowFrom

LEMMA SameRow ==
    ASSUME NEW s, IsRow(s), NEW t, IsRow(t), Len(s) = Len(t), \A i \in 1..Len(s) : s[i] = t[i]
    PROVE  s = t
<1>1. s = [i \in 1..Len(s) |-> s[i]] /\ t = [i \in 1..Len(t) |-> t[i]]
  BY RowIs
<1> QED
  BY <1>1

\* p is a beginning of s.
Begins(p, s) ==
    IsRow(p) /\ IsRow(s) /\ Len(p) <= Len(s) /\ \A i \in 1..Len(p) : p[i] = s[i]

LEMMA FirstIs ==
    ASSUME NEW s, IsRow(s), NEW k \in 0..Len(s)
    PROVE  Begins(SubSeq(s, 1, k), s) /\ Len(SubSeq(s, 1, k)) = k
<1> DEFINE S == {s[i] : i \in 1..Len(s)}
           p == SubSeq(s, 1, k)
<1>1. s \in Seq(S)
  BY DEF IsRow
<1> HIDE DEF S
<1>2. p \in Seq(S) /\ Len(p) = k /\ \A i \in 1..k : p[i] = s[i]
  BY <1>1
<1>3. Len(s) \in Nat /\ k <= Len(s)
  BY <1>1
<1> HIDE DEF p
<1>4. IsRow(p)
  BY <1>2, RowFrom
<1>5. Begins(p, s)
  BY <1>2, <1>3, <1>4 DEF Begins
<1> QED
  BY <1>2, <1>5 DEF p

LEMMA ClippedIs ==
    ASSUME NEW s, IsRow(s), NEW n \in Nat
    PROVE  /\ Begins(Clipped(s, n), s) /\ Len(Clipped(s, n)) = IF Len(s) < n THEN Len(s) ELSE n
           /\ Len(s) <= n => Clipped(s, n) = s
<1> DEFINE k == IF Len(s) < n THEN Len(s) ELSE n
<1>1. k \in 0..Len(s) /\ Clipped(s, n) = SubSeq(s, 1, k)
  BY RowIs DEF Clipped
<1>2. Len(s) \in Nat /\ (Len(s) <= n => k = Len(s))
  BY RowIs
<1>3. k = IF Len(s) < n THEN Len(s) ELSE n
  OBVIOUS
<1> HIDE DEF k
<1> DEFINE p == SubSeq(s, 1, k)
<1>4. Begins(p, s) /\ Len(p) = k
  BY <1>1, FirstIs
<1> HIDE DEF p
<1>5. Len(s) <= n => p = s
  <2> SUFFICES ASSUME Len(s) <= n
               PROVE  p = s
    OBVIOUS
  <2>1. IsRow(p) /\ Len(p) = Len(s) /\ \A i \in 1..Len(p) : p[i] = s[i]
    BY <1>2, <1>4 DEF Begins
  <2> QED
    BY <2>1, SameRow
<1> QED
  BY <1>1, <1>3, <1>4, <1>5 DEF p

LEMMA BeginsPrefix ==
    ASSUME NEW p, NEW s, Begins(p, s)
    PROVE  IsPrefix(p, s)
<1>1. IsRow(p) /\ IsRow(s) /\ Len(p) <= Len(s) /\ \A i \in 1..Len(p) : p[i] = s[i]
  BY DEF Begins
<1> DEFINE k == Len(p)
<1>2. k \in Nat /\ Len(s) \in Nat /\ k \in 0..Len(p) /\ k \in 0..Len(s)
  BY <1>1, RowIs
<1> DEFINE u == SubSeq(p, 1, k)
           v == SubSeq(s, 1, k)
<1>3. Begins(u, p) /\ Len(u) = k
  <2> HIDE DEF k
  <2> QED
    BY <1>1, <1>2, FirstIs
<1>4. Begins(v, s) /\ Len(v) = k
  <2> HIDE DEF k
  <2> QED
    BY <1>1, <1>2, FirstIs
<1> HIDE DEF u, v
<1>5. \A i \in 1..Len(u) : u[i] = v[i]
  BY <1>1, <1>3, <1>4 DEF Begins
<1>6. u = v
  <2>1. IsRow(u) /\ IsRow(v) /\ Len(u) = Len(v)
    BY <1>3, <1>4 DEF Begins
  <2> QED
    BY <1>5, <2>1, SameRow
<1> QED
  BY <1>1, <1>6 DEF IsPrefix, u, v

LEMMA BeginsTransitive ==
    ASSUME NEW p, NEW q, NEW s, Begins(p, q), Begins(q, s)
    PROVE  Begins(p, s)
<1>1. /\ IsRow(p) /\ IsRow(q) /\ Len(p) <= Len(q) /\ \A i \in 1..Len(p) : p[i] = q[i]
      /\ IsRow(s) /\ Len(q) <= Len(s) /\ \A i \in 1..Len(q) : q[i] = s[i]
  BY DEF Begins
<1>2. Len(p) \in Nat /\ Len(q) \in Nat /\ Len(s) \in Nat
  BY <1>1, RowIs
<1>3. Len(p) <= Len(s) /\ \A i \in 1..Len(p) : i \in 1..Len(q)
  BY <1>1, <1>2
<1>4. \A i \in 1..Len(p) : p[i] = s[i]
  BY <1>1, <1>3
<1> QED
  BY <1>1, <1>3, <1>4 DEF Begins

LEMMA JoinIs ==
    ASSUME NEW s, IsRow(s), NEW t, IsRow(t)
    PROVE  /\ IsRow(s \o t) /\ Len(s \o t) = Len(s) + Len(t)
           /\ \A i \in 1..Len(s) : (s \o t)[i] = s[i]
           /\ \A i \in 1..Len(t) : (s \o t)[Len(s) + i] = t[i]
<1> DEFINE S == {s[i] : i \in 1..Len(s)} \cup {t[i] : i \in 1..Len(t)}
<1>1. s \in Seq(S) /\ t \in Seq(S)
  <2>1. /\ Len(s) \in Nat /\ Len(t) \in Nat
        /\ s = [i \in 1..Len(s) |-> s[i]] /\ t = [i \in 1..Len(t) |-> t[i]]
    BY RowIs
  <2>2. s \in [1..Len(s) -> S] /\ t \in [1..Len(t) -> S]
    BY <2>1
  <2> HIDE DEF S
  <2> QED
    BY <2>1, <2>2
<1> HIDE DEF S
<1>2. /\ s \o t \in Seq(S) /\ Len(s \o t) = Len(s) + Len(t)
      /\ \A i \in 1..Len(s) : (s \o t)[i] = s[i]
      /\ \A i \in 1..Len(t) : (s \o t)[Len(s) + i] = t[i]
  BY <1>1
<1> QED
  BY <1>2, RowFrom

-----------------------------------------------------------------------------
(* A coding, block by block.                                               *)

Count(body, r) == (Len(body) + r - 1) \div r
Chunk(body, r, i) == Clipped(SubSeq(body, (i - 1) * r + 1, Len(body)), r)
Reach(body, r, i) == IF i * r < Len(body) THEN i * r ELSE Len(body)

LEMMA Quotient ==
    ASSUME NEW x \in Nat, NEW r \in Nat, r > 0
    PROVE  x \div r \in Nat /\ r * (x \div r) <= x /\ x < r * (x \div r) + r
  OBVIOUS

LEMMA CountIs ==
    ASSUME NEW body, IsRow(body), NEW r \in Nat \ {0}
    PROVE  /\ Count(body, r) \in Nat /\ Reach(body, r, Count(body, r)) = Len(body)
           /\ Reach(body, r, 0) = 0
           /\ \A i \in 1..Count(body, r) :
                 (i - 1) * r \in Nat /\ (i - 1) * r < Len(body) /\ i * r = (i - 1) * r + r
<1> DEFINE n == Len(body)
           x == n + r - 1
           q == x \div r
<1>1. n \in Nat
  BY RowIs
<1>2. x \in Nat /\ x = n + (r - 1) /\ r > 0
  BY <1>1
<1>3. Count(body, r) = q
  BY DEF Count
<1> HIDE DEF n, x
<1>4. q \in Nat /\ r * q <= x /\ x < r * q + r
  BY <1>2, Quotient
<1> HIDE DEF q
<1>5. q * r = r * q /\ r * q \in Nat
  BY <1>4
<1>6. ~(q * r < n)
  <2> DEFINE m == r * q
  <2>1. m \in Nat /\ x < m + r
    BY <1>4, <1>5
  <2> HIDE DEF m
  <2>2. ~(m < n)
    BY <1>1, <1>2, <2>1
  <2> QED
    BY <1>5, <2>2 DEF m
<1>7. ASSUME NEW i \in 1..q
      PROVE  (i - 1) * r \in Nat /\ (i - 1) * r < n /\ i * r = (i - 1) * r + r
  <2> DEFINE k == i - 1
             j == q - i
  <2>1. k \in Nat /\ j \in Nat /\ i = k + 1 /\ q = (k + 1) + j
    BY <1>4
  <2> HIDE DEF k, j
  <2>2. k * r \in Nat /\ j * r \in Nat /\ (k + 1) * r = k * r + r /\ r * q = (k * r + r) + j * r
    BY <2>1
  <2> DEFINE a == k * r
             b == j * r
  <2>3. a \in Nat /\ b \in Nat /\ (a + r) + b <= x
    BY <1>4, <2>2
  <2> HIDE DEF a, b
  <2>4. a < n
    BY <1>1, <1>2, <2>3
  <2> QED
    BY <2>1, <2>2, <2>4 DEF a, k
<1>8. 0 * r = 0
  OBVIOUS
<1> QED
  BY <1>1, <1>3, <1>4, <1>6, <1>7, <1>8 DEF Reach, n

LEMMA ChunkIs ==
    ASSUME NEW body, IsRow(body), NEW r \in Nat \ {0}, NEW i \in 1..Count(body, r)
    PROVE  /\ IsRow(Chunk(body, r, i))
           /\ Reach(body, r, i - 1) \in 0..Len(body) /\ Reach(body, r, i) \in 0..Len(body)
           /\ SubSeq(body, 1, Reach(body, r, i - 1)) \o Chunk(body, r, i) = SubSeq(body, 1, Reach(body, r, i))
<1> DEFINE n == Len(body)
           a == (i - 1) * r
           S == {body[j] : j \in 1..Len(body)}
           t == SubSeq(body, a + 1, n)
           c == Chunk(body, r, i)
           k == Reach(body, r, i)
           u == SubSeq(body, 1, a)
           v == SubSeq(body, 1, k)
<1>1. n \in Nat
  BY RowIs
<1>2. a \in Nat /\ a < n /\ i * r = a + r
  BY CountIs
<1>3. body \in Seq(S)
  BY DEF IsRow
<1> HIDE DEF a, S
<1>4. Reach(body, r, i - 1) = a
  BY <1>2 DEF Reach, a
<1>5. k = IF a + r < n THEN a + r ELSE n
  BY <1>2 DEF Reach
<1>6. k \in 0..n
  BY <1>1, <1>2, <1>5
<1> HIDE DEF k
<1>7. t \in Seq(S) /\ Len(t) = n - a /\ \A j \in 1..(n - a) : t[j] = body[a + j]
  BY <1>1, <1>2, <1>3
<1>8. c = Clipped(t, r)
  BY DEF Chunk, a
<1> HIDE DEF t, c
<1>9. IsRow(t)
  BY <1>7, RowFrom
<1>10. Begins(c, t) /\ Len(c) = IF n - a < r THEN n - a ELSE r
  BY <1>7, <1>8, <1>9, ClippedIs
<1>11. IsRow(c) /\ Len(c) = k - a /\ \A j \in 1..(k - a) : c[j] = body[a + j]
  <2>1. Len(c) = k - a
    BY <1>1, <1>2, <1>5, <1>10
  <2>2. IsRow(c) /\ \A j \in 1..Len(c) : c[j] = t[j]
    BY <1>10 DEF Begins
  <2>3. \A j \in 1..(k - a) : j \in 1..(n - a)
    BY <1>1, <1>2, <1>6
  <2> QED
    BY <1>7, <2>1, <2>2, <2>3
<1>12. Begins(u, body) /\ Len(u) = a
  <2>1. a \in 0..Len(body)
    BY <1>1, <1>2
  <2> QED
    BY <2>1, FirstIs
<1>13. Begins(v, body) /\ Len(v) = k
  BY <1>6, FirstIs
<1> HIDE DEF u, v
<1>14. /\ IsRow(u \o c) /\ Len(u \o c) = Len(u) + Len(c)
       /\ \A j \in 1..Len(u) : (u \o c)[j] = u[j]
       /\ \A j \in 1..Len(c) : (u \o c)[Len(u) + j] = c[j]
  <2>1. IsRow(u) /\ IsRow(c)
    BY <1>11, <1>12 DEF Begins
  <2> QED
    BY <2>1, JoinIs
<1>15. u \o c = v
  <2> DEFINE w == u \o c
  <2>1. IsRow(w) /\ IsRow(v) /\ Len(w) = k /\ Len(v) = k
    <3>1. k \in Nat /\ a + (k - a) = k
      BY <1>1, <1>2, <1>6
    <3> QED
      BY <1>11, <1>12, <1>13, <1>14, <3>1 DEF Begins
  <2>2. /\ \A j \in 1..a : w[j] = body[j]
        /\ \A j \in 1..(k - a) : w[a + j] = body[a + j]
    BY <1>11, <1>12, <1>14 DEF Begins
  <2>3. \A j \in 1..k : v[j] = body[j]
    BY <1>13 DEF Begins
  <2> HIDE DEF w
  <2>4. ASSUME NEW j \in 1..k
        PROVE  w[j] = v[j]
    <3>1. k \in Nat
      BY <1>1, <1>6
    <3>2. CASE j <= a
      <4>1. j \in 1..a
        BY <1>2, <3>2
      <4> QED
        BY <2>2, <2>3, <4>1
    <3>3. CASE ~(j <= a)
      <4>1. j - a \in 1..(k - a) /\ a + (j - a) = j
        BY <1>2, <3>1, <3>3
      <4>2. w[a + (j - a)] = body[a + (j - a)]
        BY <2>2, <4>1
      <4> QED
        BY <2>3, <4>1, <4>2
    <3> QED
      BY <3>2, <3>3
  <2>5. w = v
    BY <2>1, <2>4, SameRow
  <2> QED
    BY <2>5 DEF w
<1>16. a \in 0..n
  BY <1>1, <1>2
<1> QED
  BY <1>4, <1>6, <1>11, <1>15, <1>16 DEF c, k, u, v, n

\* The units of a coded body.
IsCoded(w, body, c) ==
    LET n == Count(body, c.ratio)
    IN  /\ IsRow(w) /\ Len(w) = n + 2 /\ n \in Nat
        /\ w[1] = Unit(IF c.lucky THEN "lucky_head" ELSE "head", c.flavour, << >>)
        /\ \A i \in 1..n : w[i + 1] = Unit("block", c.flavour, Chunk(body, c.ratio, i))
        /\ w[n + 2] = Unit(IF c.bad_sum THEN "bad_end" ELSE "end", c.flavour, << >>)

LEMMA RowOne ==
    ASSUME NEW x
    PROVE  IsRow(<<x>>) /\ Len(<<x>>) = 1 /\ <<x>>[1] = x
<1>1. <<x>> \in Seq({x}) /\ Len(<<x>>) = 1 /\ <<x>>[1] = x
  OBVIOUS
<1> QED
  BY <1>1, RowFrom

LEMMA CodedIs ==
    ASSUME NEW body, IsRow(body), NEW c, IsCoding(c)
    PROVE  IsCoded(Coded(body, c), body, c)
<1> DEFINE n == Count(body, c.ratio)
           h == Unit(IF c.lucky THEN "lucky_head" ELSE "head", c.flavour, << >>)
           e == Unit(IF c.bad_sum THEN "bad_end" ELSE "end", c.flavour, << >>)
           B == [i \in 1..n |-> Unit("block", c.flavour, Chunk(body, c.ratio, i))]
           hs == <<h>>
           es == <<e>>
<1>1. Coded(body, c) = (hs \o B) \o es
  BY DEF Coded, Count, Chunk
<1>2. n \in Nat
  BY CountIs DEF IsCoding
<1>3. \A i \in 1..n : B[i] = Unit("block", c.flavour, Chunk(body, c.ratio, i))
  OBVIOUS
<1>4. IsRow(B) /\ Len(B) = n
  <2>1. B = [i \in 1..n |-> B[i]]
    OBVIOUS
  <2> HIDE DEF B, n
  <2> QED
    BY <1>2, <2>1, RowOf
<1>5. IsRow(hs) /\ Len(hs) = 1 /\ hs[1] = h /\ IsRow(es) /\ Len(es) = 1 /\ es[1] = e
  <2> HIDE DEF h, e
  <2> QED
    BY RowOne
<1> HIDE DEF n, h, e, B, hs, es
<1> DEFINE p == hs \o B
           w == p \o es
<1>6. /\ IsRow(p) /\ Len(p) = 1 + n
      /\ p[1] = h /\ \A i \in 1..n : p[1 + i] = B[i]
  <2>1. /\ IsRow(p) /\ Len(p) = Len(hs) + Len(B)
        /\ \A i \in 1..Len(hs) : p[i] = hs[i]
        /\ \A i \in 1..Len(B) : p[Len(hs) + i] = B[i]
    <3>1. IsRow(hs) /\ IsRow(B)
      BY <1>4, <1>5
    <3> QED
      BY <3>1, JoinIs
  <2> HIDE DEF p
  <2> QED
    BY <1>4, <1>5, <2>1
<1> HIDE DEF p
<1>7. /\ IsRow(w) /\ Len(w) = Len(p) + Len(es)
      /\ \A i \in 1..Len(p) : w[i] = p[i]
      /\ \A i \in 1..Len(es) : w[Len(p) + i] = es[i]
  <2>1. IsRow(p) /\ IsRow(es)
    BY <1>5, <1>6
  <2> QED
    BY <2>1, JoinIs
<1> HIDE DEF w
<1>8. Len(w) = n + 2 /\ w[1] = h /\ w[n + 2] = e
  <2>1. 1 \in 1..(1 + n) /\ (1 + n) + 1 = n + 2 /\ 1 \in 1..1
    BY <1>2
  <2>2. w[1] = p[1] /\ w[(1 + n) + 1] = es[1]
    BY <1>5, <1>6, <1>7, <2>1
  <2> QED
    BY <1>5, <1>6, <1>7, <2>1, <2>2
<1>9. ASSUME NEW i \in 1..n
      PROVE  w[i + 1] = B[i]
  <2>1. 1 + i \in 1..(1 + n) /\ i + 1 = 1 + i
    BY <1>2
  <2> QED
    BY <1>6, <1>7, <2>1
<1>10. IsCoded(w, body, c)
  BY <1>2, <1>3, <1>7, <1>8, <1>9 DEF IsCoded, n, h, e
<1> QED
  BY <1>1, <1>10 DEF w, p

\* Blocks put together again give the body as far as they reach.
LEMMA Flattened ==
    ASSUME NEW body, IsRow(body), NEW r \in Nat \ {0}, NEW j \in 0..Count(body, r),
           NEW s, s = [i \in 1..j |-> Chunk(body, r, i)]
    PROVE  FlattenSeq(s) = SubSeq(body, 1, Reach(body, r, j))
<1> DEFINE n == Count(body, r)
<1>1. n \in Nat /\ j \in Nat /\ Reach(body, r, 0) = 0 /\ \A i \in 1..j : i \in 1..n
  BY CountIs
<1>2. Len(s) = j /\ IsRow(s) /\ \A i \in 1..j : s[i] = Chunk(body, r, i)
  <2>1. s = [i \in 1..j |-> s[i]] /\ \A i \in 1..j : s[i] = Chunk(body, r, i)
    OBVIOUS
  <2> QED
    BY <1>1, <2>1, RowOf
<1>3. CASE j = 0
  <2>1. FlattenSeq(s) = s
    BY <1>2, <1>3 DEF FlattenSeq
  <2> DEFINE p == SubSeq(body, 1, 0)
  <2>2. IsRow(p) /\ Len(p) = 0
    <3>1. 0 \in 0..Len(body)
      BY RowIs
    <3> QED
      BY <3>1, FirstIs DEF Begins
  <2> HIDE DEF p
  <2>3. s = p
    <3>1. \A i \in 1..Len(s) : s[i] = p[i]
      BY <1>2, <1>3
    <3> QED
      BY <1>2, <1>3, <2>2, <3>1, SameRow
  <2> QED
    BY <1>1, <1>3, <2>1, <2>3 DEF p
<1>4. CASE j # 0
  <2> DEFINE Then(x, i) == IF i = 1 THEN s[i] ELSE x[i - 1] \o s[i]
             f == CHOOSE x : x = [i \in 1..j |-> Then(x, i)]
             u == [i \in 1..j |-> SubSeq(body, 1, Reach(body, r, i))]
  <2>1. FlattenSeq(s) = f[j]
    BY <1>2, <1>4 DEF FlattenSeq
  <2>2. ASSUME NEW i \in 1..j
        PROVE  SubSeq(body, 1, Reach(body, r, i - 1)) \o s[i] = SubSeq(body, 1, Reach(body, r, i)) /\ IsRow(s[i])
    BY <1>1, <1>2, ChunkIs
  <2>3. ASSUME NEW i \in 1..j
        PROVE  u[i] = Then(u, i)
    <3>1. CASE i = 1
      <4> DEFINE p == SubSeq(body, 1, 0)
                 t == s[i]
      <4>1. IsRow(p) /\ Len(p) = 0
        <5>1. 0 \in 0..Len(body)
          BY RowIs
        <5> QED
          BY <5>1, FirstIs DEF Begins
      <4>2. p \o t = u[i] /\ IsRow(t)
        <5>1. i - 1 = 0
          BY <3>1
        <5> QED
          BY <1>1, <2>2, <5>1
      <4> HIDE DEF p, t
      <4>3. p \o t = t
        <5>1. /\ IsRow(p \o t) /\ Len(p \o t) = Len(p) + Len(t)
              /\ \A k \in 1..Len(t) : (p \o t)[Len(p) + k] = t[k]
          <6>1. IsRow(p) /\ IsRow(t)
            BY <4>1, <4>2
          <6> QED
            BY <6>1, JoinIs
        <5> DEFINE z == p \o t
        <5>2. IsRow(z) /\ Len(z) = 0 + Len(t) /\ Len(t) \in Nat /\ \A k \in 1..Len(t) : z[0 + k] = t[k]
          BY <4>1, <4>2, <5>1, RowIs
        <5> HIDE DEF z
        <5>3. Len(z) = Len(t) /\ \A k \in 1..Len(z) : z[k] = t[k]
          BY <5>2
        <5>4. z = t
          BY <4>2, <5>2, <5>3, SameRow
        <5> QED
          BY <5>4 DEF z
      <4> QED
        BY <3>1, <4>2, <4>3 DEF t
    <3>2. CASE i # 1
      <4>1. i - 1 \in 1..j
        BY <1>1, <3>2
      <4>2. u[i - 1] = SubSeq(body, 1, Reach(body, r, i - 1)) /\ u[i] = SubSeq(body, 1, Reach(body, r, i))
        BY <4>1
      <4> QED
        BY <2>2, <3>2, <4>2
    <3> QED
      BY <3>1, <3>2
  <2>4. u[j] = SubSeq(body, 1, Reach(body, r, j)) /\ j \in 1..j
    <3>1. j \in 1..j
      BY <1>1, <1>4
    <3> QED
      BY <3>1
  <2>5. u = [i \in 1..j |-> Then(u, i)]
    <3>1. u = [i \in 1..j |-> u[i]]
      OBVIOUS
    <3> HIDE DEF u, Then
    <3> QED
      BY <2>3, <3>1
  <2> HIDE DEF u
  <2>6. f = [i \in 1..j |-> Then(f, i)]
    BY <2>5
  <2> HIDE DEF f
  <2> DEFINE T == {i \in 0..j : i = 0 \/ f[i] = u[i]}
  <2>7. 0 \in T
    BY <1>1
  <2>8. ASSUME NEW i \in 1..j, i - 1 \in T
        PROVE  i \in T
    <3>1. f[i] = Then(f, i) /\ u[i] = Then(u, i)
      BY <2>6, <2>3
    <3>2. i = 1 \/ f[i - 1] = u[i - 1]
      BY <1>1, <2>8
    <3>3. f[i] = u[i]
      BY <3>1, <3>2
    <3> QED
      BY <1>1, <3>3
  <2>9. j \in T
    <3> HIDE DEF T
    <3>1. 0..j \subseteq T
      BY <1>1, <2>7, <2>8, UpTo
    <3> QED
      BY <1>1, <3>1
  <2> QED
    BY <1>4, <2>1, <2>4, <2>9
<1> QED
  BY <1>3, <1>4

-----------------------------------------------------------------------------
(* What a decoder makes of a coded body, damaged or cut.                   *)

LEMMA Least ==
    ASSUME NEW S, S \subseteq Nat, S # {}
    PROVE  Min(S) \in S /\ \A j \in S : Min(S) <= j
<1>1. IsWellFoundedOn(OpToRel(<, Nat), Nat)
  BY NatLessThanWellFounded
<1>2. PICK k \in S : \A j \in S : ~(<<j, k>> \in OpToRel(<, Nat))
  BY <1>1, WFMin
<1>3. \A j \in S : k <= j
  <2>1. ASSUME NEW j \in S
        PROVE  k <= j
    <3>1. j \in Nat /\ k \in Nat
      BY <1>2
    <3>2. ~(j < k)
      BY <1>2, <3>1 DEF OpToRel
    <3> QED
      BY <3>1, <3>2
  <2> QED
    BY <2>1
<1> QED
  BY <1>3 DEF Min

\* The first j units behind the head are blocks, and the next is not.
IsBlock(u, flavour) == u.kind = "block" /\ u.of = flavour
Run(flavour, data, j) ==
    /\ Starts(flavour, data) /\ IsRow(data) /\ j \in Nat /\ j + 1 <= Len(data)
    /\ \A i \in 2..(j + 1) : IsBlock(data[i], flavour)
    /\ j + 1 < Len(data) => ~IsBlock(data[j + 2], flavour)

LEMMA BlocksAre ==
    ASSUME NEW flavour, NEW data, NEW j, Run(flavour, data, j)
    PROVE  Len(Blocks(flavour, data)) = j /\ \A i \in 1..j : Blocks(flavour, data)[i] = data[i + 1]
<1> DEFINE n == Len(data)
           I == {i \in 2..n : ~IsBlock(data[i], flavour)}
           stop == SelectInSubSeq(data, 2, Len(data), LAMBDA u : u.kind # "block" \/ u.of # flavour)
           last == IF stop = 0 THEN Len(data) ELSE stop - 1
           S == {data[i] : i \in 1..Len(data)}
<1>1. /\ Starts(flavour, data) /\ IsRow(data) /\ j \in Nat /\ j + 1 <= n
      /\ \A i \in 2..(j + 1) : IsBlock(data[i], flavour)
      /\ j + 1 < n => ~IsBlock(data[j + 2], flavour)
  BY DEF Run
<1>2. n \in Nat
  BY <1>1, RowIs
<1>3. stop = IF I # {} THEN Min(I) ELSE 0
  BY DEF SelectInSubSeq, IsBlock
<1>4. Blocks(flavour, data) = SubSeq(data, 2, last)
  BY <1>1 DEF Blocks
<1> HIDE DEF stop
<1>5. last = j + 1
  <2>1. CASE j + 1 < n
    <3>1. j + 2 \in I
      BY <1>1, <1>2, <2>1
    <3> DEFINE m == Min(I)
    <3>2. I \subseteq Nat
      BY <1>2
    <3>3. m \in I /\ m <= j + 2
      <4> HIDE DEF I
      <4> QED
        BY <3>1, <3>2, Least
    <3>4. stop = m
      BY <1>3, <3>1
    <3> HIDE DEF m
    <3>5. m \in 2..n /\ ~IsBlock(data[m], flavour)
      BY <3>3
    <3>6. ~(m \in 2..(j + 1))
      BY <1>1, <3>5
    <3>7. m = j + 2
      BY <1>1, <1>2, <3>3, <3>5, <3>6
    <3> QED
      BY <1>1, <3>4, <3>7
  <2>2. CASE ~(j + 1 < n)
    <3>1. n = j + 1
      BY <1>1, <1>2, <2>2
    <3>2. I = {}
      BY <1>1, <3>1
    <3> QED
      BY <1>3, <3>1, <3>2
  <2> QED
    BY <2>1, <2>2
<1>6. data \in Seq(S)
  BY <1>1 DEF IsRow
<1> HIDE DEF S, last
<1>7. Len(SubSeq(data, 2, j + 1)) = j /\ \A i \in 1..j : SubSeq(data, 2, j + 1)[i] = data[i + 1]
  <2> DEFINE k == j + 1
  <2>1. k \in Nat /\ k >= 1 /\ k <= Len(data) /\ k - 1 = j
    BY <1>1
  <2> HIDE DEF k
  <2>2. Len(SubSeq(data, 2, k)) = k - 1 /\ \A i \in 1..(k - 1) : SubSeq(data, 2, k)[i] = data[i + 1]
    BY <1>6, <2>1
  <2> QED
    BY <2>1, <2>2 DEF k
<1> QED
  BY <1>4, <1>5, <1>7

\* data is whole up to unit m, where it ends or is damaged.
TornAt(data, whole, m) ==
    /\ IsRow(data) /\ IsRow(whole) /\ m \in 0..Len(data) /\ m <= Len(whole)
    /\ \A i \in 1..m : data[i] = whole[i]
    /\ m < Len(data) => data[m + 1] = Damage
Torn(data, whole) == \E m : TornAt(data, whole, m)

LEMMA BeginsTorn ==
    ASSUME NEW data, NEW whole, Begins(data, whole)
    PROVE  Torn(data, whole)
<1>1. /\ IsRow(data) /\ IsRow(whole) /\ Len(data) <= Len(whole)
      /\ \A i \in 1..Len(data) : data[i] = whole[i]
  BY DEF Begins
<1>2. Len(data) \in Nat
  BY <1>1, RowIs
<1>3. TornAt(data, whole, Len(data))
  BY <1>1, <1>2 DEF TornAt
<1> QED
  BY <1>3 DEF Torn

LEMMA TornBegins ==
    ASSUME NEW p, NEW data, NEW whole, Begins(p, data), Torn(data, whole)
    PROVE  Torn(p, whole)
<1>1. PICK m : TornAt(data, whole, m)
  BY DEF Torn
<1>2. /\ IsRow(data) /\ IsRow(whole) /\ m \in 0..Len(data) /\ m <= Len(whole)
      /\ \A i \in 1..m : data[i] = whole[i]
      /\ m < Len(data) => data[m + 1] = Damage
  BY <1>1 DEF TornAt
<1>3. IsRow(p) /\ Len(p) <= Len(data) /\ \A i \in 1..Len(p) : p[i] = data[i]
  BY DEF Begins
<1>4. Len(p) \in Nat /\ Len(data) \in Nat /\ Len(whole) \in Nat
  BY <1>2, <1>3, RowIs
<1>5. CASE Len(p) <= m
  <2>1. \A i \in 1..Len(p) : i \in 1..m
    BY <1>2, <1>4, <1>5
  <2>2. \A i \in 1..Len(p) : p[i] = whole[i]
    BY <1>2, <1>3, <2>1
  <2>3. Len(p) <= Len(whole) /\ Len(p) \in 0..Len(p) /\ ~(Len(p) < Len(p))
    BY <1>2, <1>4, <1>5
  <2>4. TornAt(p, whole, Len(p))
    BY <1>2, <1>3, <2>2, <2>3 DEF TornAt
  <2> QED
    BY <2>4 DEF Torn
<1>6. CASE ~(Len(p) <= m)
  <2>1. m \in 0..Len(p) /\ m + 1 \in 1..Len(p) /\ m < Len(data) /\ \A i \in 1..m : i \in 1..Len(p)
    BY <1>2, <1>3, <1>4, <1>6
  <2>2. \A i \in 1..m : p[i] = whole[i]
    BY <1>2, <1>3, <2>1
  <2>3. p[m + 1] = Damage
    BY <1>2, <1>3, <2>1
  <2>4. TornAt(p, whole, m)
    BY <1>2, <1>3, <2>1, <2>2, <2>3 DEF TornAt
  <2> QED
    BY <2>4 DEF Torn
<1> QED
  BY <1>5, <1>6

\* What a decoder puts out, and whether it came to a clean end.
Output(flavour, data) ==
    FlattenSeq([i \in 1..Len(Blocks(flavour, data)) |-> Blocks(flavour, data)[i].inner])
Clean(flavour, data) == EndsCleanly(flavour, data, Blocks(flavour, data))

LEMMA OutputOf ==
    ASSUME NEW body, IsRow(body), NEW c, IsCoding(c), NEW j \in 0..Count(body, c.ratio),
           NEW data, Run(c.flavour, data, j),
           \A i \in 1..j : data[i + 1].inner = Chunk(body, c.ratio, i)
    PROVE  Output(c.flavour, data) = SubSeq(body, 1, Reach(body, c.ratio, j))
<1> DEFINE f == c.flavour
           r == c.ratio
           B == Blocks(f, data)
           s == [i \in 1..Len(B) |-> B[i].inner]
<1>1. r \in Nat \ {0}
  BY DEF IsCoding
<1>2. Len(B) = j /\ \A i \in 1..j : B[i] = data[i + 1]
  BY BlocksAre
<1> HIDE DEF B
<1>3. s = [i \in 1..j |-> Chunk(body, r, i)]
  BY <1>2
<1>4. Output(c.flavour, data) = FlattenSeq(s)
  BY DEF Output, B
<1> HIDE DEF s, f, r
<1>5. j \in 0..Count(body, r)
  BY DEF r
<1>6. FlattenSeq(s) = SubSeq(body, 1, Reach(body, r, j))
  BY <1>1, <1>3, <1>5, Flattened
<1> QED
  BY <1>4, <1>6 DEF r

LEMMA NothingOut ==
    ASSUME NEW flavour, NEW data, ~Starts(flavour, data)
    PROVE  Output(flavour, data) = << >> /\ ~Clean(flavour, data)
<1>1. Blocks(flavour, data) = << >>
  BY DEF Blocks
<1> DEFINE s == [i \in 1..Len(Blocks(flavour, data)) |-> Blocks(flavour, data)[i].inner]
<1>2. s = [i \in 1..0 |-> Blocks(flavour, data)[i].inner]
  BY <1>1
<1>3. IsRow(s) /\ Len(s) = 0
  <2>1. s = [i \in 1..0 |-> s[i]]
    BY <1>2
  <2> HIDE DEF s
  <2> QED
    BY <2>1, RowOf
<1>4. Output(flavour, data) = FlattenSeq(s)
  BY DEF Output
<1> HIDE DEF s
<1>5. s = << >>
  <2>1. s \in Seq({s[i] : i \in 1..Len(s)})
    BY <1>3 DEF IsRow
  <2> QED
    BY <1>3, <2>1
<1>6. FlattenSeq(s) = s
  BY <1>3 DEF FlattenSeq
<1> QED
  BY <1>4, <1>5, <1>6 DEF Clean, EndsCleanly

LEMMA ReachIs ==
    ASSUME NEW body, IsRow(body), NEW r \in Nat \ {0}, NEW j \in 0..Count(body, r)
    PROVE  Reach(body, r, j) \in 0..Len(body)
<1>1. Len(body) \in Nat /\ Count(body, r) \in Nat /\ Reach(body, r, 0) = 0
  BY CountIs, RowIs
<1>2. CASE j = 0
  BY <1>1, <1>2
<1>3. CASE j # 0
  <2>1. j \in 1..Count(body, r)
    BY <1>1, <1>3
  <2> QED
    BY <2>1, ChunkIs
<1> QED
  BY <1>2, <1>3

\* A unit that is neither a head, nor a block, nor a clean end.
Dead(u) == ~IsHead(u) /\ u.kind # "block" /\ u.kind # "end"

LEMMA Units ==
    /\ Dead(Damage)
    /\ \A f, x : /\ ~IsBlock(Unit("end", f, x), f) /\ ~IsBlock(Unit("bad_end", f, x), f)
                 /\ IsBlock(Unit("block", f, x), f) /\ Unit("block", f, x).inner = x
                 /\ IsHead(Unit("head", f, x)) /\ IsHead(Unit("lucky_head", f, x))
                 /\ Unit("head", f, x).of = f /\ Unit("lucky_head", f, x).of = f
                 /\ Unit("bad_end", f, x) # Unit("end", f, x)
                 /\ Unit("block", f, x).kind = "block" /\ Unit("end", f, x).kind = "end"
  BY DEF Dead, Damage, Unit, IsBlock, IsHead

\* Of the right flavour, the output is a beginning of the body, all of it after
\* a clean end; of another, there is none.
LEMMA OutputIs ==
    ASSUME NEW body, IsRow(body), NEW c, IsCoding(c), NEW data, Torn(data, Coded(body, c))
    PROVE  /\ Begins(Output(c.flavour, data), body)
           /\ Clean(c.flavour, data) => Output(c.flavour, data) = body
           /\ \A f : f # c.flavour => ~Starts(f, data)
<1> DEFINE w == Coded(body, c)
           f == c.flavour
           r == c.ratio
           n == Count(body, r)
<1>1. /\ IsRow(w) /\ Len(w) = n + 2 /\ n \in Nat
      /\ w[1] = Unit(IF c.lucky THEN "lucky_head" ELSE "head", f, << >>)
      /\ \A i \in 1..n : w[i + 1] = Unit("block", f, Chunk(body, r, i))
      /\ w[n + 2] = Unit(IF c.bad_sum THEN "bad_end" ELSE "end", f, << >>)
  BY CodedIs DEF IsCoded
<1> HIDE DEF w
<1>2. PICK m : TornAt(data, w, m)
  BY DEF Torn, w
<1>3. /\ IsRow(data) /\ m \in 0..Len(data) /\ m <= n + 2
      /\ \A i \in 1..m : data[i] = w[i]
      /\ m < Len(data) => data[m + 1] = Damage
  BY <1>1, <1>2 DEF TornAt
<1>4. Len(data) \in Nat /\ m \in Nat
  BY <1>3, RowIs
<1>5. r \in Nat \ {0}
  BY DEF IsCoding
<1>6. CASE m = 0
  <2>1. \A g : ~Starts(g, data)
    <3>1. Len(data) > 0 => data[1] = Damage
      BY <1>3, <1>4, <1>6
    <3>2. Len(data) = 0 => data = << >>
      <4>1. data \in Seq({data[i] : i \in 1..Len(data)})
        BY <1>3 DEF IsRow
      <4> QED
        BY <4>1
    <3>3. ~IsHead(Damage)
      BY Units DEF Dead
    <3> QED
      BY <1>4, <3>1, <3>2, <3>3 DEF Starts
  <2>2. Output(f, data) = << >> /\ ~Clean(f, data)
    BY <2>1, NothingOut
  <2>3. Begins(<< >>, body)
    <3>1. IsRow(<< >>) /\ Len(<< >>) = 0
      <4>1. << >> \in Seq({}) /\ Len(<< >>) = 0
        OBVIOUS
      <4> QED
        BY <4>1, RowFrom
    <3>2. Len(body) \in Nat
      BY RowIs
    <3> QED
      BY <3>1, <3>2 DEF Begins
  <2> QED
    BY <2>1, <2>2, <2>3
<1>7. CASE m # 0
  <2> DEFINE j == IF m = n + 2 THEN n ELSE m - 1
  <2>1. j \in 0..n /\ j + 1 <= m /\ j + 1 <= Len(data)
    BY <1>1, <1>3, <1>4, <1>7
  <2>2. data[1] = w[1] /\ Len(data) > 0
    <3>1. 1 \in 1..m
      BY <1>4, <1>7
    <3> QED
      BY <1>3, <1>4, <1>7, <3>1
  <2>3. IsHead(data[1]) /\ data[1].of = f
    BY <1>1, <2>2, Units
  <2>4. Starts(f, data) /\ \A g : g # f => ~Starts(g, data)
    BY <2>2, <2>3 DEF Starts
  <2>5. ASSUME NEW i \in 1..j
        PROVE  data[i + 1] = Unit("block", f, Chunk(body, r, i))
    <3>1. i + 1 \in 1..m /\ i \in 1..n
      BY <1>1, <1>4, <2>1
    <3> QED
      BY <1>1, <1>3, <3>1
  <2>6. \A i \in 1..j : IsBlock(data[i + 1], f) /\ data[i + 1].inner = Chunk(body, r, i)
    BY <2>5, Units
  <2>7. m = n + 2 => data[j + 2] = w[n + 2] /\ j = n
    <3> SUFFICES ASSUME m = n + 2
                 PROVE  data[j + 2] = w[n + 2] /\ j = n
      OBVIOUS
    <3>1. j = n /\ n + 2 \in 1..m
      BY <1>1
    <3> QED
      BY <1>3, <3>1
  <2>8. (m # n + 2 /\ j + 1 < Len(data)) => data[j + 2] = Damage
    <3> SUFFICES ASSUME m # n + 2, j + 1 < Len(data)
                 PROVE  data[j + 2] = Damage
      OBVIOUS
    <3>1. j + 2 = m + 1 /\ m < Len(data)
      BY <1>4
    <3> QED
      BY <1>3, <3>1
  <2> HIDE DEF j
  <2>9. j + 1 < Len(data) => ~IsBlock(data[j + 2], f)
    <3>1. ~IsBlock(w[n + 2], f) /\ ~IsBlock(Damage, f)
      BY <1>1, Units DEF Dead, IsBlock
    <3> QED
      BY <2>7, <2>8, <3>1
  <2>10. Run(f, data, j)
    <3>1. \A i \in 2..(j + 1) : IsBlock(data[i], f)
      <4>1. ASSUME NEW i \in 2..(j + 1)
            PROVE  IsBlock(data[i], f)
        <5>1. i - 1 \in 1..j /\ (i - 1) + 1 = i
          BY <1>1, <2>1
        <5>2. IsBlock(data[(i - 1) + 1], f)
          BY <2>6, <5>1
        <5> QED
          BY <5>1, <5>2
      <4> QED
        BY <4>1
    <3>2. j \in Nat /\ j + 1 <= Len(data)
      BY <1>1, <2>1
    <3> QED
      BY <1>3, <2>4, <2>9, <3>1, <3>2 DEF Run
  <2> DEFINE k == Reach(body, r, j)
             o == Output(f, data)
  <2>11. o = SubSeq(body, 1, k)
    BY <2>1, <2>6, <2>10, OutputOf
  <2>12. k \in 0..Len(body)
    BY <1>5, <2>1, ReachIs
  <2> HIDE DEF o
  <2>13. Begins(o, body)
    <3> HIDE DEF k
    <3> QED
      BY <2>11, <2>12, FirstIs
  <2>14. Clean(f, data) => o = body
    <3> SUFFICES ASSUME Clean(f, data)
                 PROVE  o = body
      OBVIOUS
    <3>1. Len(Blocks(f, data)) = j
      BY <2>10, BlocksAre
    <3>2. j + 2 <= Len(data) /\ data[j + 2] = Unit("end", f, << >>)
      BY <3>1 DEF Clean, EndsCleanly
    <3>3. j = n
      <4>1. Damage # Unit("end", f, << >>)
        BY DEF Damage, Unit
      <4>2. j + 1 < Len(data)
        BY <1>1, <1>4, <2>1, <3>2
      <4> QED
        BY <2>7, <2>8, <3>2, <4>1, <4>2
    <3>4. k = Len(body) /\ Len(body) \in Nat
      BY <1>5, <3>3, CountIs, RowIs
    <3> HIDE DEF k
    <3>5. o = Clipped(body, Len(body))
      BY <2>11, <3>4 DEF Clipped
    <3>6. Len(body) <= Len(body)
      BY <3>4
    <3> QED
      BY <3>4, <3>5, <3>6, ClippedIs
  <2> QED
    BY <2>4, <2>13, <2>14 DEF o
<1> QED
  BY <1>6, <1>7

LEMMA CleanWhole ==
    ASSUME NEW body, IsRow(body), NEW c, IsCoding(c), ~c.bad_sum
    PROVE  Clean(c.flavour, Coded(body, c)) /\ Torn(Coded(body, c), Coded(body, c))
<1> DEFINE w == Coded(body, c)
           f == c.flavour
           r == c.ratio
           n == Count(body, r)
<1>1. /\ IsRow(w) /\ Len(w) = n + 2 /\ n \in Nat
      /\ w[1] = Unit(IF c.lucky THEN "lucky_head" ELSE "head", f, << >>)
      /\ \A i \in 1..n : w[i + 1] = Unit("block", f, Chunk(body, r, i))
      /\ w[n + 2] = Unit("end", f, << >>)
  BY CodedIs DEF IsCoded
<1> HIDE DEF w, n
<1>2. Starts(f, w)
  <2>1. IsHead(w[1]) /\ w[1].of = f
    BY <1>1, Units
  <2>2. w # << >>
    BY <1>1
  <2> QED
    BY <2>1, <2>2 DEF Starts
<1>3. \A i \in 2..(n + 1) : IsBlock(w[i], f)
  <2>1. ASSUME NEW i \in 2..(n + 1)
        PROVE  IsBlock(w[i], f)
    <3>1. i - 1 \in 1..n /\ (i - 1) + 1 = i
      BY <1>1
    <3>2. w[(i - 1) + 1] = Unit("block", f, Chunk(body, r, i - 1))
      BY <1>1, <3>1
    <3> QED
      BY <3>1, <3>2, Units
  <2> QED
    BY <2>1
<1>4. ~IsBlock(w[n + 2], f)
  BY <1>1, Units
<1>5. Run(f, w, n)
  <2>1. n + 1 <= Len(w)
    BY <1>1
  <2> QED
    BY <1>1, <1>2, <1>3, <1>4, <2>1 DEF Run
<1>6. Len(Blocks(f, w)) = n
  BY <1>5, BlocksAre
<1>7. Clean(f, w)
  <2>1. n + 2 <= Len(w)
    BY <1>1
  <2> QED
    BY <1>1, <1>2, <1>6, <2>1 DEF Clean, EndsCleanly
<1>8. Torn(w, w)
  <2>1. Begins(w, w)
    <3>1. Len(w) <= Len(w)
      BY <1>1
    <3> QED
      BY <1>1, <3>1 DEF Begins
  <2> QED
    BY <2>1, BeginsTorn
<1> QED
  BY <1>7, <1>8 DEF w

\* A decoder that has not filled the cap calls a body whole after a clean end only.
LEMMA ReadIs ==
    ASSUME NEW f, NEW data, NEW lag \in Nat
    PROVE  LET r == ReadBounded(f, data, lag)
               o == Output(f, data)
           IN  /\ r.tag \in {"whole", "partial", "failed"}
               /\ r.tag = "failed" => r = Failed
               /\ r.tag = "whole" => r.out = Clipped(o, MaxBody) /\ (Len(o) >= MaxBody \/ Clean(f, data))
               /\ Clean(f, data) => r = Whole(Clipped(o, MaxBody))
<1> DEFINE o == Output(f, data)
           r == ReadBounded(f, data, lag)
           a == Whole(Clipped(o, MaxBody))
           b == Partial(Clipped(o, Len(o) - lag))
<1>1. r = IF Len(o) >= MaxBody \/ Clean(f, data) THEN a ELSE IF Len(o) <= lag THEN Failed ELSE b
  BY DEF ReadBounded, InflatedFrom, Bounded, Output, Clean
<1>2. a.tag = "whole" /\ a.out = Clipped(o, MaxBody) /\ b.tag = "partial" /\ Failed.tag = "failed"
  BY DEF Whole, Partial, Failed
<1> HIDE DEF r, a, b, o
<1>3. CASE Len(o) >= MaxBody \/ Clean(f, data)
  <2>1. r = a
    BY <1>1, <1>3
  <2> QED
    BY <1>2, <1>3, <2>1 DEF r, a, o
<1>4. CASE ~(Len(o) >= MaxBody \/ Clean(f, data))
  <2>1. r = Failed \/ r = b
    BY <1>1, <1>4
  <2> QED
    BY <1>2, <1>4, <2>1 DEF r, a, o
<1> QED
  BY <1>3, <1>4

LEMMA ReadNothing ==
    ASSUME NEW f, NEW data, NEW lag \in Nat, ~Starts(f, data), MaxBody > 0
    PROVE  ReadBounded(f, data, lag) = Failed
<1> DEFINE o == Output(f, data)
<1>1. o = << >> /\ ~Clean(f, data)
  BY NothingOut
<1>2. ReadBounded(f, data, lag) = IF Len(o) >= MaxBody \/ Clean(f, data) THEN Whole(Clipped(o, MaxBody))
                                  ELSE IF Len(o) <= lag THEN Failed ELSE Partial(Clipped(o, Len(o) - lag))
  BY DEF ReadBounded, InflatedFrom, Bounded, Output, Clean
<1> HIDE DEF o
<1>3. Len(o) = 0
  BY <1>1
<1>4. ~(Len(o) >= MaxBody) /\ Len(o) <= lag
  BY <1>3, MaxBodyAssumption
<1> QED
  BY <1>1, <1>2, <1>4

\* The token names the flavour.
Names(token, flavour) ==
    CASE flavour \in {"zlib", "raw"} -> token = "deflate"
      [] flavour = "gzip" -> token \in {"gzip", "x-gzip"}
      [] flavour = "br" -> token = "br"

LEMMA DecodeIs ==
    ASSUME NEW body, IsRow(body), NEW c, IsCoding(c), NEW data, Torn(data, Coded(body, c)),
           NEW lag \in Nat, MaxBody > 0, NEW token, Names(token, c.flavour)
    PROVE  DecodeOne(token, data, lag) = ReadBounded(c.flavour, data, lag)
<1> DEFINE f == c.flavour
           rz == ReadBounded("zlib", data, lag)
           rr == ReadBounded("raw", data, lag)
<1>1. IsRow(Output(f, data)) /\ \A g : g # f => ~Starts(g, data)
  BY OutputIs DEF Begins
<1>2. ReadBounded(f, data, lag).tag = "failed" => ReadBounded(f, data, lag) = Failed
  BY ReadIs
<1>3. f \in {"gzip", "zlib", "raw", "br"}
  BY DEF IsCoding
<1>4. Failed.tag = "failed"
  BY DEF Failed
<1>5. CASE f = "zlib"
  <2>1. rr = Failed
    BY <1>1, <1>5, ReadNothing
  <2>2. rz.tag = "failed" => rz = Failed
    BY <1>2, <1>5
  <2>3. token = "deflate"
    BY <1>5 DEF Names
  <2>4. DecodeOne(token, data, lag) = DecodeDeflate(data, lag)
    BY <2>3 DEF DecodeOne
  <2> HIDE DEF rr, rz
  <2>5. OrElse(rz, rr) = rz /\ OrElse(rr, rz) = rz
    BY <1>4, <2>1, <2>2 DEF OrElse
  <2> QED
    BY <1>5, <2>4, <2>5 DEF DecodeDeflate, rr, rz
<1>6. CASE f = "raw"
  <2>1. rz = Failed
    BY <1>1, <1>6, ReadNothing
  <2>2. rr.tag = "failed" => rr = Failed
    BY <1>2, <1>6
  <2>3. token = "deflate"
    BY <1>6 DEF Names
  <2>4. DecodeOne(token, data, lag) = DecodeDeflate(data, lag)
    BY <2>3 DEF DecodeOne
  <2> HIDE DEF rr, rz
  <2>5. OrElse(rz, rr) = rr /\ OrElse(rr, rz) = rr
    BY <1>4, <2>1, <2>2 DEF OrElse
  <2> QED
    BY <1>6, <2>4, <2>5 DEF DecodeDeflate, rr, rz
<1>7. CASE f = "gzip"
  <2>1. token \in {"gzip", "x-gzip"}
    BY <1>7 DEF Names
  <2> QED
    BY <1>7, <2>1 DEF DecodeOne
<1>8. CASE f = "br"
  <2>1. token = "br"
    BY <1>8 DEF Names
  <2> QED
    BY <1>8, <2>1 DEF DecodeOne
<1> QED
  BY <1>3, <1>5, <1>6, <1>7, <1>8

-----------------------------------------------------------------------------
(* The layers of a body, and the peels that undo them.                     *)

IsLayers(s, b, n) == s = [k \in 0..n |-> IF k = 0 THEN b.content ELSE Coded(s[k - 1], b.codings[k])]

LEMMA LayersExists ==
    ASSUME NEW b, NEW n \in Nat
    PROVE  \E s : IsLayers(s, b, n)
<1> DEFINE T == {i \in 0..n : \E s : IsLayers(s, b, i)}
<1>1. 0 \in T
  <2> DEFINE s == [k \in 0..0 |-> b.content]
  <2>1. s = [k \in 0..0 |-> IF k = 0 THEN b.content ELSE Coded(s[k - 1], b.codings[k])]
    OBVIOUS
  <2>2. IsLayers(s, b, 0)
    BY <2>1 DEF IsLayers
  <2> QED
    BY <2>2
<1>2. ASSUME NEW i \in 1..n, i - 1 \in T
      PROVE  i \in T
  <2>1. PICK s : IsLayers(s, b, i - 1)
    BY <1>2
  <2> DEFINE u == [k \in 0..i |-> IF k = i THEN Coded(s[i - 1], b.codings[i]) ELSE s[k]]
  <2>2. s = [k \in 0..(i - 1) |-> IF k = 0 THEN b.content ELSE Coded(s[k - 1], b.codings[k])]
    BY <2>1 DEF IsLayers
  <2>3. ASSUME NEW k \in 0..i
        PROVE  u[k] = IF k = 0 THEN b.content ELSE Coded(u[k - 1], b.codings[k])
    <3>1. CASE k = i
      <4>1. u[k] = Coded(s[i - 1], b.codings[i]) /\ i - 1 \in 0..i /\ i - 1 # i /\ k # 0
        BY <3>1
      <4>2. u[i - 1] = s[i - 1]
        BY <4>1
      <4> QED
        BY <3>1, <4>1, <4>2
    <3>2. CASE k # i /\ k # 0
      <4>1. k \in 0..(i - 1) /\ k - 1 \in 0..i /\ k - 1 # i
        BY <3>2
      <4>2. u[k] = s[k] /\ u[k - 1] = s[k - 1]
        BY <3>2, <4>1
      <4>3. s[k] = Coded(s[k - 1], b.codings[k])
        BY <2>2, <3>2, <4>1
      <4> QED
        BY <3>2, <4>2, <4>3
    <3>3. CASE k # i /\ k = 0
      <4>1. 0 \in 0..(i - 1) /\ u[k] = s[k]
        BY <3>3
      <4>2. s[0] = b.content
        BY <2>2, <4>1
      <4> QED
        BY <3>3, <4>1, <4>2
    <3> QED
      BY <3>1, <3>2, <3>3
  <2>4. u = [k \in 0..i |-> u[k]]
    OBVIOUS
  <2> HIDE DEF u
  <2>5. IsLayers(u, b, i)
    BY <2>3, <2>4 DEF IsLayers
  <2> QED
    BY <2>5
<1>3. 0..n \subseteq T
  <2> HIDE DEF T
  <2> QED
    BY <1>1, <1>2, UpTo
<1>4. n \in T
  BY <1>3
<1> QED
  BY <1>4

LEMMA LayersAre ==
    ASSUME NEW b, IsBody(b)
    PROVE  /\ Len(b.codings) \in Nat /\ Layers(b)[0] = b.content
           /\ \A k \in 1..Len(b.codings) : Layers(b)[k] = Coded(Layers(b)[k - 1], b.codings[k])
           /\ \A k \in 0..Len(b.codings) : IsRow(Layers(b)[k])
<1> DEFINE n == Len(b.codings)
           l == Layers(b)
<1>1. n \in Nat /\ IsRow(b.content) /\ \A k \in 1..n : IsCoding(b.codings[k])
  BY RowIs DEF IsBody
<1>2. l = CHOOSE s : s = [k \in 0..n |-> IF k = 0 THEN b.content ELSE Coded(s[k - 1], b.codings[k])]
  BY DEF Layers
<1> HIDE DEF l, n
<1>3. \E s : s = [k \in 0..n |-> IF k = 0 THEN b.content ELSE Coded(s[k - 1], b.codings[k])]
  BY <1>1, LayersExists DEF IsLayers
<1>4. l = [k \in 0..n |-> IF k = 0 THEN b.content ELSE Coded(l[k - 1], b.codings[k])]
  BY <1>2, <1>3
<1>5. l[0] = b.content /\ \A k \in 1..n : l[k] = Coded(l[k - 1], b.codings[k])
  <2>1. 0 \in 0..n /\ \A k \in 1..n : k \in 0..n /\ k # 0
    BY <1>1
  <2> HIDE DEF l
  <2> QED
    BY <1>4, <2>1
<1> DEFINE T == {k \in 0..n : IsRow(l[k])}
<1>6. 0 \in T
  BY <1>1, <1>5
<1>7. ASSUME NEW k \in 1..n, k - 1 \in T
      PROVE  k \in T
  <2>1. IsRow(l[k - 1]) /\ IsCoding(b.codings[k])
    BY <1>1, <1>7
  <2>2. IsRow(Coded(l[k - 1], b.codings[k]))
    <3> DEFINE body == l[k - 1]
               c == b.codings[k]
    <3> HIDE DEF body, c
    <3>1. IsCoded(Coded(body, c), body, c)
      BY <2>1, CodedIs DEF body, c
    <3> QED
      BY <3>1 DEF IsCoded, body, c
  <2> QED
    BY <1>1, <1>5, <2>2
<1>8. 0..n \subseteq T
  <2> HIDE DEF T
  <2> QED
    BY <1>1, <1>6, <1>7, UpTo
<1> QED
  BY <1>1, <1>5, <1>8 DEF l, n

\* One turn of the walk.
Unpeeled(data) == [body |-> data, decode_error |-> FALSE, stuck |-> FALSE]
Turn(d, token, lag) == IF d.stuck THEN d ELSE Peel(d, DecodeOne(token, d.body, lag))

IsWalk(s, codecs, data, lag, n) ==
    s = [k \in 0..n |-> IF k = 0 THEN Unpeeled(data) ELSE Turn(s[k - 1], codecs[Len(codecs) + 1 - k], lag)]

LEMMA WalkExists ==
    ASSUME NEW codecs, NEW data, NEW lag, NEW n \in Nat
    PROVE  \E s : IsWalk(s, codecs, data, lag, n)
<1> DEFINE T == {i \in 0..n : \E s : IsWalk(s, codecs, data, lag, i)}
<1>1. 0 \in T
  <2> DEFINE s == [k \in 0..0 |-> Unpeeled(data)]
  <2>1. s = [k \in 0..0 |-> IF k = 0 THEN Unpeeled(data) ELSE Turn(s[k - 1], codecs[Len(codecs) + 1 - k], lag)]
    OBVIOUS
  <2>2. IsWalk(s, codecs, data, lag, 0)
    BY <2>1 DEF IsWalk
  <2> QED
    BY <2>2
<1>2. ASSUME NEW i \in 1..n, i - 1 \in T
      PROVE  i \in T
  <2>1. PICK s : IsWalk(s, codecs, data, lag, i - 1)
    BY <1>2
  <2> DEFINE u == [k \in 0..i |-> IF k = i THEN Turn(s[i - 1], codecs[Len(codecs) + 1 - i], lag) ELSE s[k]]
  <2>2. s = [k \in 0..(i - 1) |-> IF k = 0 THEN Unpeeled(data) ELSE Turn(s[k - 1], codecs[Len(codecs) + 1 - k], lag)]
    BY <2>1 DEF IsWalk
  <2>3. ASSUME NEW k \in 0..i
        PROVE  u[k] = IF k = 0 THEN Unpeeled(data) ELSE Turn(u[k - 1], codecs[Len(codecs) + 1 - k], lag)
    <3>1. CASE k = i
      <4>1. u[k] = Turn(s[i - 1], codecs[Len(codecs) + 1 - i], lag) /\ i - 1 \in 0..i /\ i - 1 # i /\ k # 0
        BY <3>1
      <4>2. u[i - 1] = s[i - 1]
        BY <4>1
      <4> QED
        BY <3>1, <4>1, <4>2
    <3>2. CASE k # i /\ k # 0
      <4>1. k \in 0..(i - 1) /\ k - 1 \in 0..i /\ k - 1 # i
        BY <3>2
      <4>2. u[k] = s[k] /\ u[k - 1] = s[k - 1]
        BY <3>2, <4>1
      <4>3. s[k] = Turn(s[k - 1], codecs[Len(codecs) + 1 - k], lag)
        BY <2>2, <3>2, <4>1
      <4> QED
        BY <3>2, <4>2, <4>3
    <3>3. CASE k # i /\ k = 0
      <4>1. 0 \in 0..(i - 1) /\ u[k] = s[k]
        BY <3>3
      <4>2. s[0] = Unpeeled(data)
        BY <2>2, <4>1
      <4> QED
        BY <3>3, <4>1, <4>2
    <3> QED
      BY <3>1, <3>2, <3>3
  <2>4. u = [k \in 0..i |-> u[k]]
    OBVIOUS
  <2> HIDE DEF u
  <2>5. IsWalk(u, codecs, data, lag, i)
    BY <2>3, <2>4 DEF IsWalk
  <2> QED
    BY <2>5
<1>3. 0..n \subseteq T
  <2> HIDE DEF T
  <2> QED
    BY <1>1, <1>2, UpTo
<1>4. n \in T
  BY <1>3
<1> QED
  BY <1>4

Peels(l, codecs, data, lag) ==
    /\ Unwrap(codecs, data, lag) = l[Len(codecs)] /\ l[0] = Unpeeled(data)
    /\ \A k \in 1..Len(codecs) : l[k] = Turn(l[k - 1], codecs[Len(codecs) + 1 - k], lag)

LEMMA WalkIs ==
    ASSUME NEW codecs, NEW data, NEW lag, Len(codecs) \in Nat
    PROVE  \E l : Peels(l, codecs, data, lag)
<1> DEFINE n == Len(codecs)
           l == CHOOSE s : s = [k \in 0..n |-> IF k = 0 THEN Unpeeled(data) ELSE Turn(s[k - 1], codecs[n + 1 - k], lag)]
<1>1. Unwrap(codecs, data, lag) = l[n]
  BY DEF Unwrap, Unpeeled, Turn
<1>2. \E s : s = [k \in 0..n |-> IF k = 0 THEN Unpeeled(data) ELSE Turn(s[k - 1], codecs[n + 1 - k], lag)]
  <2>1. PICK s : IsWalk(s, codecs, data, lag, Len(codecs))
    BY WalkExists
  <2> QED
    BY <2>1 DEF IsWalk
<1>3. l = [k \in 0..n |-> IF k = 0 THEN Unpeeled(data) ELSE Turn(l[k - 1], codecs[n + 1 - k], lag)]
  BY <1>2
<1> HIDE DEF l
<1>4. l[0] = Unpeeled(data) /\ \A k \in 1..n : l[k] = Turn(l[k - 1], codecs[n + 1 - k], lag)
  <2>1. 0 \in 0..n /\ \A k \in 1..n : k \in 0..n /\ k # 0
    OBVIOUS
  <2> QED
    BY <1>3, <2>1
<1>5. Peels(l, codecs, data, lag)
  BY <1>1, <1>4 DEF Peels
<1> QED
  BY <1>5

IsPeeled(d) ==
    /\ d = [body |-> d.body, decode_error |-> d.decode_error, stuck |-> d.stuck]
    /\ d.decode_error \in BOOLEAN /\ d.stuck \in BOOLEAN
Tags == {"whole", "partial", "failed"}

LEMMA PeelIs ==
    ASSUME NEW d, IsPeeled(d), NEW r, r.tag \in Tags
    PROVE  /\ IsPeeled(Peel(d, r))
           /\ r.tag # "whole" => Peel(d, r).decode_error
           /\ r.tag = "whole" => /\ (Peel(d, r).decode_error <=> d.decode_error)
                                 /\ (Peel(d, r).stuck <=> d.stuck)
                                 /\ Peel(d, r).body = r.out
<1>1. /\ d = [body |-> d.body, decode_error |-> d.decode_error, stuck |-> d.stuck]
      /\ d.decode_error \in BOOLEAN /\ d.stuck \in BOOLEAN
  BY DEF IsPeeled
<1> DEFINE p == d.body
           q == d.decode_error
           s == d.stuck
           z == r.out
<1>2. d = [body |-> p, decode_error |-> q, stuck |-> s] /\ q \in BOOLEAN /\ s \in BOOLEAN
  BY <1>1
<1> HIDE DEF p, q, s, z
<1>3. CASE r.tag = "whole"
  <2> DEFINE e == [body |-> z, decode_error |-> q, stuck |-> s]
  <2>1. Peel(d, r) = e
    BY <1>2, <1>3 DEF Peel, z
  <2>2. e.body = z /\ e.decode_error = q /\ e.stuck = s
    OBVIOUS
  <2>3. e = [body |-> e.body, decode_error |-> e.decode_error, stuck |-> e.stuck]
    OBVIOUS
  <2> HIDE DEF e
  <2>4. IsPeeled(e)
    BY <1>2, <2>2, <2>3 DEF IsPeeled
  <2> QED
    BY <1>3, <2>1, <2>2, <2>4, Zenon DEF q, s, z
<1>4. CASE r.tag = "partial"
  <2> DEFINE e == [body |-> z, decode_error |-> TRUE, stuck |-> s]
  <2>1. Peel(d, r) = e
    BY <1>2, <1>4 DEF Peel, z
  <2>2. e.body = z /\ e.decode_error = TRUE /\ e.stuck = s
    OBVIOUS
  <2>3. e = [body |-> e.body, decode_error |-> e.decode_error, stuck |-> e.stuck]
    OBVIOUS
  <2> HIDE DEF e
  <2>4. IsPeeled(e)
    BY <1>2, <2>2, <2>3 DEF IsPeeled
  <2> QED
    BY <1>4, <2>1, <2>2, <2>4
<1>5. CASE r.tag = "failed"
  <2> DEFINE e == [body |-> p, decode_error |-> TRUE, stuck |-> TRUE]
  <2>1. Peel(d, r) = e
    BY <1>2, <1>5 DEF Peel
  <2>2. e.body = p /\ e.decode_error = TRUE /\ e.stuck = TRUE
    OBVIOUS
  <2>3. e = [body |-> e.body, decode_error |-> e.decode_error, stuck |-> e.stuck]
    OBVIOUS
  <2> HIDE DEF e
  <2>4. IsPeeled(e)
    BY <1>2, <2>2, <2>3 DEF IsPeeled
  <2> QED
    BY <1>5, <2>1, <2>2, <2>4
<1> QED
  BY <1>3, <1>4, <1>5 DEF Tags

LEMMA Tagged ==
    ASSUME NEW data, NEW lag \in Nat, NEW flavour \in {"gzip", "zlib", "raw", "br"},
           NEW token, Names(token, flavour)
    PROVE  DecodeOne(token, data, lag).tag \in Tags
<1>1. \A f : ReadBounded(f, data, lag).tag \in Tags
  BY ReadIs DEF Tags
<1>2. token \in {"gzip", "x-gzip", "deflate", "br"}
  BY DEF Names
<1> QED
  BY <1>1, <1>2 DEF DecodeOne, DecodeDeflate, OrElse

\* All of the body, or as much of it as the cap holds.
Filled(p, body) == Begins(p, body) /\ (p = body \/ Len(p) = MaxBody)

\* A peel without an error undoes a coding; of a whole coded body it cannot fail.
LEMMA TurnIs ==
    ASSUME NEW body, IsRow(body), NEW c, IsCoding(c), NEW lag \in Nat, MaxBody > 0,
           NEW token, Names(token, c.flavour), NEW d, IsPeeled(d),
           ~d.decode_error => ~d.stuck /\ Torn(d.body, Coded(body, c))
    PROVE  /\ IsPeeled(Turn(d, token, lag))
           /\ ~Turn(d, token, lag).decode_error =>
                ~Turn(d, token, lag).stuck /\ Filled(Turn(d, token, lag).body, body)
           /\ (~d.decode_error /\ d.body = Coded(body, c) /\ ~c.bad_sum /\ Len(body) <= MaxBody) =>
                ~Turn(d, token, lag).decode_error /\ Turn(d, token, lag).body = body
<1> DEFINE e == Turn(d, token, lag)
           r == DecodeOne(token, d.body, lag)
<1>1. c.flavour \in {"gzip", "zlib", "raw", "br"}
  BY DEF IsCoding
<1>2. r.tag \in Tags
  BY <1>1, Tagged
<1>3. e = IF d.stuck THEN d ELSE Peel(d, r)
  BY DEF Turn
<1> HIDE DEF r, e
<1>4. CASE d.stuck
  <2>1. e = d /\ d.decode_error
    BY <1>3, <1>4
  <2> QED
    BY <2>1 DEF e
<1>5. CASE ~d.stuck
  <2>1. e = Peel(d, r)
    BY <1>3, <1>5
  <2>2. /\ IsPeeled(e)
        /\ r.tag # "whole" => e.decode_error
        /\ r.tag = "whole" => /\ (e.decode_error <=> d.decode_error) /\ (e.stuck <=> d.stuck) /\ e.body = r.out
    BY <1>2, <2>1, PeelIs
  <2>3. ASSUME ~d.decode_error, r.tag = "whole"
        PROVE  Filled(r.out, body)
    <3> DEFINE f == c.flavour
               x == d.body
               o == Output(f, x)
    <3>1. Torn(x, Coded(body, c))
      BY <2>3
    <3> HIDE DEF x
    <3>2. Begins(o, body) /\ (Clean(f, x) => o = body)
      BY <3>1, OutputIs
    <3>3. r = ReadBounded(f, x, lag)
      BY <3>1, DecodeIs DEF r, x
    <3>4. r.out = Clipped(o, MaxBody) /\ (Len(o) >= MaxBody \/ Clean(f, x))
      BY <2>3, <3>3, ReadIs
    <3> HIDE DEF o, f
    <3>5. IsRow(o) /\ Len(o) \in Nat
      BY <3>2, RowIs DEF Begins
    <3> DEFINE p == Clipped(o, MaxBody)
    <3>6. /\ Begins(p, o) /\ Len(p) = IF Len(o) < MaxBody THEN Len(o) ELSE MaxBody
          /\ Len(o) <= MaxBody => p = o
      BY <3>5, ClippedIs, MaxBodyAssumption
    <3> HIDE DEF p
    <3>7. Begins(p, body)
      BY <3>2, <3>6, BeginsTransitive
    <3>8. p = body \/ Len(p) = MaxBody
      <4>1. CASE Len(o) >= MaxBody
        BY <3>5, <3>6, <4>1, MaxBodyAssumption
      <4>2. CASE ~(Len(o) >= MaxBody)
        <5>1. o = body /\ Len(o) <= MaxBody
          BY <3>2, <3>4, <3>5, <4>2, MaxBodyAssumption
        <5> QED
          BY <3>6, <5>1
      <4> QED
        BY <4>1, <4>2
    <3> QED
      BY <3>4, <3>7, <3>8 DEF Filled, p
  <2>4. ~e.decode_error => ~e.stuck /\ Filled(e.body, body)
    <3> SUFFICES ASSUME ~e.decode_error
                 PROVE  ~e.stuck /\ Filled(e.body, body)
      OBVIOUS
    <3>1. r.tag = "whole"
      BY <2>2
    <3>2. ~d.decode_error /\ e.body = r.out /\ ~e.stuck
      BY <1>5, <2>2, <3>1
    <3> QED
      BY <2>3, <3>1, <3>2
  <2>5. ASSUME ~d.decode_error, d.body = Coded(body, c), ~c.bad_sum, Len(body) <= MaxBody
        PROVE  ~e.decode_error /\ e.body = body
    <3> DEFINE f == c.flavour
               x == d.body
    <3>1. Torn(x, Coded(body, c)) /\ Clean(f, x)
      BY <2>5, CleanWhole
    <3> HIDE DEF x
    <3>2. Output(f, x) = body
      BY <3>1, OutputIs
    <3>3. r = ReadBounded(f, x, lag)
      BY <3>1, DecodeIs DEF r, x
    <3>4. r = Whole(Clipped(body, MaxBody))
      BY <3>1, <3>2, <3>3, ReadIs
    <3>5. Clipped(body, MaxBody) = body
      BY <2>5, ClippedIs, MaxBodyAssumption
    <3>6. r.tag = "whole" /\ r.out = body
      BY <3>4, <3>5 DEF Whole
    <3> QED
      BY <2>2, <2>5, <3>6
  <2> QED
    BY <2>2, <2>4, <2>5 DEF e
<1> QED
  BY <1>4, <1>5

\* Every layer fits the cap, and every checksum matches.
Sound(b) ==
    /\ \A k \in 0..Len(b.codings) : Len(Layers(b)[k]) <= MaxBody
    /\ \A k \in 1..Len(b.codings) : ~b.codings[k].bad_sum
Named(codecs, b) ==
    /\ Len(codecs) = Len(b.codings)
    /\ \A i \in 1..Len(codecs) : Names(codecs[i], b.codings[i].flavour)

\* Where the walk is after k peels, for any body and for a sound one.
OnTheWay(d, layer, k) ==
    /\ IsPeeled(d)
    /\ ~d.decode_error => ~d.stuck /\ Torn(d.body, layer) /\ (k > 0 => Filled(d.body, layer))
OnTrack(d, layer) == ~d.decode_error /\ d.body = layer

LEMMA WalkKeeps ==
    ASSUME NEW b, IsBody(b), NEW codecs, Named(codecs, b), NEW data, NEW lag \in Nat, MaxBody > 0,
           Torn(data, Layers(b)[Len(b.codings)])
    PROVE  /\ OnTheWay(Unwrap(codecs, data, lag), b.content, Len(b.codings))
           /\ (data = Layers(b)[Len(b.codings)] /\ Sound(b)) =>
                OnTrack(Unwrap(codecs, data, lag), b.content)
<1> DEFINE n == Len(b.codings)
           L == Layers(b)
<1>1. /\ n \in Nat /\ L[0] = b.content
      /\ \A k \in 1..n : L[k] = Coded(L[k - 1], b.codings[k])
      /\ \A k \in 0..n : IsRow(L[k])
  BY LayersAre
<1>2. Len(codecs) = n /\ \A i \in 1..n : Names(codecs[i], b.codings[i].flavour)
  BY DEF Named
<1>3. \A k \in 1..n : IsCoding(b.codings[k])
  BY DEF IsBody
<1> HIDE DEF n, L
<1>4. PICK l : Peels(l, codecs, data, lag)
  BY <1>1, <1>2, WalkIs
<1>5. /\ Unwrap(codecs, data, lag) = l[n] /\ l[0] = Unpeeled(data)
      /\ \A k \in 1..n : l[k] = Turn(l[k - 1], codecs[n + 1 - k], lag)
  BY <1>2, <1>4 DEF Peels
<1>6. OnTheWay(l[0], L[n], 0) /\ OnTrack(Unpeeled(data), data)
  <2> DEFINE d == Unpeeled(data)
  <2>1. d.body = data /\ d.decode_error = FALSE /\ d.stuck = FALSE
    BY DEF Unpeeled
  <2>2. d = [body |-> d.body, decode_error |-> d.decode_error, stuck |-> d.stuck]
    BY DEF Unpeeled
  <2> HIDE DEF d
  <2>3. IsPeeled(d)
    BY <2>1, <2>2 DEF IsPeeled
  <2>4. Torn(d.body, L[n])
    BY <2>1 DEF L, n
  <2>5. ~d.stuck /\ ~d.decode_error /\ ~(0 > 0)
    BY <2>1
  <2> QED
    BY <1>5, <2>1, <2>3, <2>4, <2>5 DEF OnTheWay, OnTrack, d
<1>7. ASSUME NEW k \in 1..n, OnTheWay(l[k - 1], L[n - (k - 1)], k - 1)
      PROVE  /\ OnTheWay(l[k], L[n - k], k)
             /\ (Sound(b) /\ OnTrack(l[k - 1], L[n - (k - 1)])) => OnTrack(l[k], L[n - k])
  <2> DEFINE i == n + 1 - k
             body == L[n - k]
             c == b.codings[i]
             t == codecs[i]
             d == l[k - 1]
             e == l[k]
             w == L[n - (k - 1)]
  <2>1. i \in 1..n /\ n - (k - 1) = i /\ n - k = i - 1 /\ n - k \in 0..n /\ k > 0
    BY <1>1
  <2>2. w = Coded(body, c) /\ IsRow(body) /\ IsCoding(c) /\ Names(t, c.flavour)
    BY <1>1, <1>2, <1>3, <2>1
  <2>3. e = Turn(d, t, lag)
    BY <1>5
  <2>4. IsPeeled(d) /\ (~d.decode_error => ~d.stuck /\ Torn(d.body, w))
    BY <1>7 DEF OnTheWay
  <2>5. Sound(b) => Len(body) <= MaxBody /\ ~c.bad_sum
    BY <2>1 DEF Sound, L, n
  <2> HIDE DEF body, c, t, d, e, w
  <2>6. /\ IsPeeled(e)
        /\ ~e.decode_error => ~e.stuck /\ Filled(e.body, body)
        /\ (~d.decode_error /\ d.body = w /\ ~c.bad_sum /\ Len(body) <= MaxBody) =>
             ~e.decode_error /\ e.body = body
    BY <2>2, <2>3, <2>4, TurnIs
  <2>7. Filled(e.body, body) => Torn(e.body, body)
    BY BeginsTorn DEF Filled
  <2>8. OnTheWay(e, body, k)
    BY <2>6, <2>7 DEF OnTheWay
  <2>9. (Sound(b) /\ OnTrack(d, w)) => OnTrack(e, body)
    BY <2>5, <2>6 DEF OnTrack
  <2> QED
    BY <2>8, <2>9 DEF body, d, e, w
<1> DEFINE T == {k \in 0..n : OnTheWay(l[k], L[n - k], k)}
           U == {k \in T : OnTrack(l[k], L[n - k])}
<1>8. 0 \in T
  BY <1>1, <1>6
<1>9. \A k \in 1..n : k - 1 \in T => k \in T
  BY <1>1, <1>7
<1>10. n \in T
  <2> HIDE DEF T
  <2>1. 0..n \subseteq T
    BY <1>1, <1>8, <1>9, UpTo
  <2> QED
    BY <1>1, <2>1
<1>11. (data = L[n] /\ Sound(b)) => OnTrack(l[n], b.content)
  <2> SUFFICES ASSUME data = L[n], Sound(b)
               PROVE  OnTrack(l[n], b.content)
    OBVIOUS
  <2>1. 0 \in U
    <3>1. n - 0 = n
      BY <1>1
    <3>2. OnTrack(l[0], L[n])
      BY <1>5, <1>6
    <3> HIDE DEF T
    <3> QED
      BY <1>8, <3>1, <3>2
  <2>2. ASSUME NEW k \in 1..n, k - 1 \in U
        PROVE  k \in U
    <3>1. OnTrack(l[k - 1], L[n - (k - 1)]) /\ k - 1 \in T
      BY <2>2
    <3>2. OnTheWay(l[k - 1], L[n - (k - 1)], k - 1)
      BY <3>1
    <3>3. OnTrack(l[k], L[n - k])
      BY <1>7, <3>1, <3>2
    <3>4. k \in T
      BY <1>9, <3>1
    <3> HIDE DEF T
    <3> QED
      BY <3>3, <3>4
  <2>3. n \in U
    <3> HIDE DEF U
    <3>1. 0..n \subseteq U
      BY <1>1, <2>1, <2>2, UpTo
    <3> QED
      BY <1>1, <3>1
  <2>4. n - n = 0
    BY <1>1
  <2> QED
    BY <1>1, <2>3, <2>4
<1>12. OnTheWay(l[n], b.content, n)
  <2>1. n - n = 0
    BY <1>1
  <2> QED
    BY <1>1, <1>10, <2>1
<1> QED
  BY <1>5, <1>11, <1>12 DEF n, L

-----------------------------------------------------------------------------
(* What arrives of a body, and what read_body keeps of it.                 *)

LEMMA Empty ==
    ASSUME NEW s, IsRow(s), Len(s) = 0
    PROVE  s = << >>
<1>1. s \in Seq({s[i] : i \in 1..Len(s)})
  BY DEF IsRow
<1> QED
  BY <1>1

LEMMA EmptyBegins ==
    ASSUME NEW s, IsRow(s)
    PROVE  IsRow(<< >>) /\ Len(<< >>) = 0 /\ Begins(<< >>, s) /\ << >> \o s = s /\ s \o << >> = s
<1> DEFINE e == << >>
<1>1. IsRow(e) /\ Len(e) = 0
  <2>1. << >> \in Seq({}) /\ Len(<< >>) = 0
    OBVIOUS
  <2> QED
    BY <2>1, RowFrom
<1>2. Len(s) \in Nat
  BY RowIs
<1> HIDE DEF e
<1>3. Begins(e, s)
  BY <1>1, <1>2 DEF Begins
<1>4. e \o s = s
  <2> DEFINE z == e \o s
  <2>1. /\ IsRow(z) /\ Len(z) = Len(e) + Len(s)
        /\ \A i \in 1..Len(s) : z[Len(e) + i] = s[i]
    <3>1. IsRow(e) /\ IsRow(s)
      BY <1>1
    <3> QED
      BY <3>1, JoinIs
  <2> HIDE DEF z
  <2>2. Len(z) = Len(s) /\ \A i \in 1..Len(z) : z[i] = s[i]
    BY <1>1, <1>2, <2>1
  <2>3. z = s
    BY <2>1, <2>2, SameRow
  <2> QED
    BY <2>3 DEF z
<1>5. s \o e = s
  <2> DEFINE z == s \o e
  <2>1. /\ IsRow(z) /\ Len(z) = Len(s) + Len(e)
        /\ \A i \in 1..Len(s) : z[i] = s[i]
    <3>1. IsRow(e) /\ IsRow(s)
      BY <1>1
    <3> QED
      BY <3>1, JoinIs
  <2> HIDE DEF z
  <2>2. Len(z) = Len(s) /\ \A i \in 1..Len(z) : z[i] = s[i]
    BY <1>1, <1>2, <2>1
  <2>3. z = s
    BY <2>1, <2>2, SameRow
  <2> QED
    BY <2>3 DEF z
<1> QED
  BY <1>1, <1>3, <1>4, <1>5 DEF e

LEMMA NoSub ==
    ASSUME NEW s, IsRow(s), NEW m \in Nat, NEW n \in Int, n < m
    PROVE  SubSeq(s, m, n) = << >>
<1> DEFINE S == {s[i] : i \in 1..Len(s)}
<1>1. s \in Seq(S)
  BY DEF IsRow
<1> HIDE DEF S
<1> QED
  BY <1>1

LEMMA WireIsTorn ==
    ASSUME NEW b, IsBody(b)
    PROVE  /\ Torn(OnTheWire(b), Layers(b)[Len(b.codings)])
           /\ b.fault = "none" => OnTheWire(b) = Layers(b)[Len(b.codings)]
<1> DEFINE w == Layers(b)[Len(b.codings)]
           n == Len(w)
<1>1. IsRow(w) /\ b.fault \in {"none", "cut", "damage"} /\ b.at \in Nat
  <2>1. Len(b.codings) \in 0..Len(b.codings)
    BY LayersAre
  <2> QED
    BY <2>1, LayersAre DEF IsBody
<1>2. /\ b.fault = "none" => OnTheWire(b) = w
      /\ b.fault = "cut" => OnTheWire(b) = SubSeq(w, 1, Len(w) - b.at)
      /\ b.fault = "damage" => OnTheWire(b) = [i \in 1..Len(w) |-> IF i = b.at THEN Damage ELSE w[i]]
  BY DEF OnTheWire
<1> HIDE DEF w
<1>3. n \in Nat
  BY <1>1, RowIs
<1>4. Begins(w, w)
  BY <1>1, <1>3 DEF Begins
<1>5. CASE b.fault = "none"
  BY <1>2, <1>4, <1>5, BeginsTorn DEF w
<1>6. CASE b.fault = "cut"
  <2> DEFINE k == n - b.at
             p == SubSeq(w, 1, k)
  <2>1. Begins(p, w)
    <3>1. CASE b.at <= n
      <4>1. k \in 0..Len(w)
        BY <1>1, <1>3, <3>1
      <4> HIDE DEF k
      <4> QED
        BY <1>1, <4>1, FirstIs
    <3>2. CASE ~(b.at <= n)
      <4>1. k \in Int /\ k < 1 /\ 1 \in Nat
        BY <1>1, <1>3, <3>2
      <4> HIDE DEF k
      <4>2. p = << >>
        BY <1>1, <4>1, NoSub
      <4> QED
        BY <1>1, <4>2, EmptyBegins
    <3> QED
      BY <3>1, <3>2
  <2> HIDE DEF p
  <2>2. Torn(p, w)
    BY <2>1, BeginsTorn
  <2> QED
    BY <1>2, <1>6, <2>2 DEF p, w
<1>7. CASE b.fault = "damage"
  <2> DEFINE p == [i \in 1..n |-> IF i = b.at THEN Damage ELSE w[i]]
             m == IF b.at \in 1..n THEN b.at - 1 ELSE n
  <2>1. IsRow(p) /\ Len(p) = n
    <3>1. p = [i \in 1..n |-> p[i]]
      OBVIOUS
    <3> HIDE DEF p, n
    <3> QED
      BY <1>3, <3>1, RowOf
  <2>2. m \in 0..n
    BY <1>1, <1>3
  <2>3. ASSUME NEW i \in 1..m
        PROVE  p[i] = w[i]
    <3>1. i \in 1..n /\ i # b.at
      BY <1>1, <1>3
    <3> QED
      BY <3>1
  <2>4. m < n => p[m + 1] = Damage
    <3> SUFFICES ASSUME m < n
                 PROVE  p[m + 1] = Damage
      OBVIOUS
    <3>1. b.at \in 1..n /\ m + 1 = b.at
      BY <1>1, <1>3
    <3> QED
      BY <3>1
  <2> HIDE DEF p, m
  <2>5. TornAt(p, w, m)
    <3>1. m \in 0..Len(p) /\ m <= Len(w)
      BY <1>3, <2>1, <2>2
    <3> QED
      BY <1>1, <2>1, <2>3, <2>4, <3>1 DEF TornAt
  <2>6. Torn(p, w)
    BY <2>5 DEF Torn
  <2> QED
    BY <1>2, <1>7, <2>6 DEF p, w
<1> QED
  BY <1>1, <1>5, <1>6, <1>7

LEMMA ClipBegins ==
    ASSUME NEW q, NEW s, Begins(q, s), NEW n \in Nat, Len(q) > n
    PROVE  Clipped(q, n) = Clipped(s, n)
<1> DEFINE u == Clipped(q, n)
           v == Clipped(s, n)
<1>1. IsRow(q) /\ IsRow(s) /\ Len(q) <= Len(s)
  BY DEF Begins
<1>2. Len(q) \in Nat /\ Len(s) \in Nat
  BY <1>1, RowIs
<1>3. Begins(u, q) /\ Len(u) = n
  BY <1>1, <1>2, ClippedIs
<1>4. Begins(v, s) /\ Len(v) = n
  BY <1>1, <1>2, ClippedIs
<1> HIDE DEF u, v
<1>5. Begins(u, s)
  BY <1>3, BeginsTransitive
<1>6. IsRow(u) /\ IsRow(v) /\ \A i \in 1..Len(u) : u[i] = v[i]
  BY <1>3, <1>4, <1>5 DEF Begins
<1>7. u = v
  BY <1>3, <1>4, <1>6, SameRow
<1> QED
  BY <1>7 DEF u, v

LEMMA TwoChunks ==
    ASSUME NEW s, IsRow(s), NEW k \in Nat
    PROVE  /\ Begins(Clipped(s, k), s) /\ IsRow(SubSeq(s, k + 1, Len(s)))
           /\ Clipped(s, k) \o SubSeq(s, k + 1, Len(s)) = s
<1> DEFINE p == Clipped(s, k)
           t == SubSeq(s, k + 1, Len(s))
           S == {s[i] : i \in 1..Len(s)}
<1>1. Len(s) \in Nat /\ s \in Seq(S)
  BY RowIs DEF IsRow
<1>2. /\ Begins(p, s) /\ Len(p) = IF Len(s) < k THEN Len(s) ELSE k
      /\ Len(s) <= k => p = s
  BY ClippedIs
<1> HIDE DEF p, S
<1>3. CASE Len(s) <= k
  <2>1. k + 1 \in Nat /\ Len(s) \in Int /\ Len(s) < k + 1
    BY <1>1, <1>3
  <2> DEFINE m == k + 1
             n == Len(s)
  <2>2. m \in Nat /\ n \in Int /\ n < m
    BY <2>1
  <2> HIDE DEF m, n
  <2>3. SubSeq(s, m, n) = << >>
    BY <2>2, NoSub
  <2>4. IsRow(<< >>) /\ s \o << >> = s
    BY EmptyBegins
  <2> QED
    BY <1>2, <1>3, <2>3, <2>4 DEF p, m, n
<1>4. CASE ~(Len(s) <= k)
  <2>1. k <= Len(s) /\ Len(p) = k
    BY <1>1, <1>2, <1>4
  <2>2. t \in Seq(S) /\ Len(t) = Len(s) - k /\ \A i \in 1..(Len(s) - k) : t[i] = s[k + i]
    BY <1>1, <2>1
  <2> HIDE DEF t
  <2>3. IsRow(t)
    BY <2>2, RowFrom
  <2> DEFINE z == p \o t
  <2>4. /\ IsRow(z) /\ Len(z) = Len(p) + Len(t)
        /\ \A i \in 1..Len(p) : z[i] = p[i]
        /\ \A i \in 1..Len(t) : z[Len(p) + i] = t[i]
    <3>1. IsRow(p) /\ IsRow(t)
      BY <1>2, <2>3 DEF Begins
    <3> QED
      BY <3>1, JoinIs
  <2> HIDE DEF z
  <2>5. Len(z) = Len(s)
    BY <1>1, <2>1, <2>2, <2>4
  <2>6. ASSUME NEW i \in 1..Len(z)
        PROVE  z[i] = s[i]
    <3>1. CASE i <= k
      <4>1. i \in 1..Len(p)
        BY <2>1, <3>1
      <4> QED
        BY <1>2, <2>4, <4>1 DEF Begins
    <3>2. CASE ~(i <= k)
      <4>1. i - k \in 1..(Len(s) - k) /\ k + (i - k) = i
        BY <1>1, <2>5, <3>2
      <4>2. z[k + (i - k)] = t[i - k] /\ t[i - k] = s[k + (i - k)]
        BY <2>1, <2>2, <2>4, <4>1
      <4> QED
        BY <4>1, <4>2
    <3> QED
      BY <3>1, <3>2
  <2>7. z = s
    BY <2>4, <2>5, <2>6, SameRow
  <2> QED
    BY <1>2, <2>3, <2>7 DEF z, p, t
<1> QED
  BY <1>3, <1>4

\* read_body after the frames that carry p.
Read(r, p, came) ==
    /\ r = [units |-> r.units, state |-> r.state]
    /\ r.state \in {"reading", "cut", "error"}
    /\ r.state = "reading" => r.units = p /\ Len(p) <= MaxBody
    /\ r.state = "cut" => r.units = Clipped(came, MaxBody)

LEMMA TakesData ==
    ASSUME NEW r, NEW p, NEW came, NEW u, NEW q, Read(r, p, came), IsRow(p), IsRow(u),
           p \o u = q, Begins(q, came)
    PROVE  Read(Take(r, [kind |-> "data", units |-> u]), q, came)
<1> DEFINE frame == [kind |-> "data", units |-> u]
           e == Take(r, frame)
           x == Clipped(q, MaxBody)
           t == IF Len(q) > MaxBody THEN "cut" ELSE "reading"
<1>1. frame.kind = "data" /\ frame.units = u
  OBVIOUS
<1> HIDE DEF frame
<1>2. Len(q) = Len(p) + Len(u) /\ IsRow(q) /\ Len(q) \in Nat
  BY JoinIs, RowIs
<1>3. CASE r.state = "reading"
  <2>1. r.units = p /\ Len(p) <= MaxBody
    BY <1>3 DEF Read
  <2>2. e = [units |-> x, state |-> t]
    BY <1>1, <1>2, <1>3, <2>1 DEF Take
  <2>3. Len(q) > MaxBody => x = Clipped(came, MaxBody)
    BY ClipBegins, MaxBodyAssumption
  <2>4. ~(Len(q) > MaxBody) => x = q /\ Len(q) <= MaxBody
    BY <1>2, ClippedIs, MaxBodyAssumption
  <2>5. t \in {"reading", "cut", "error"} /\ (t = "reading" => ~(Len(q) > MaxBody)) /\ (t = "cut" => Len(q) > MaxBody)
    OBVIOUS
  <2> HIDE DEF x, t, e
  <2>6. e.units = x /\ e.state = t /\ e = [units |-> e.units, state |-> e.state]
    BY <2>2
  <2>7. Read(e, q, came)
    BY <2>3, <2>4, <2>5, <2>6 DEF Read
  <2> QED
    BY <2>7 DEF e, frame
<1>4. CASE r.state # "reading"
  <2>1. e = r
    BY <1>4 DEF Take
  <2> HIDE DEF e
  <2>2. Read(e, q, came)
    BY <1>4, <2>1 DEF Read
  <2> QED
    BY <2>2 DEF e, frame
<1> QED
  BY <1>3, <1>4

LEMMA TakesOther ==
    ASSUME NEW r, NEW p, NEW came, Read(r, p, came), NEW frame, frame.kind \in {"trailers", "error"}
    PROVE  Read(Take(r, frame), p, came)
<1> DEFINE e == Take(r, frame)
<1>1. CASE r.state = "reading" /\ frame.kind = "error"
  <2> DEFINE x == r.units
             s == r.state
  <2>1. r = [units |-> x, state |-> s]
    BY DEF Read
  <2>2. e = [r EXCEPT !.state = "error"]
    BY <1>1 DEF Take
  <2> HIDE DEF x, s, e
  <2>3. e = [units |-> x, state |-> "error"]
    BY <2>1, <2>2
  <2>4. e.state = "error" /\ e = [units |-> e.units, state |-> e.state]
    BY <2>3
  <2>5. Read(e, p, came)
    BY <2>4 DEF Read
  <2> QED
    BY <2>5 DEF e
<1>2. CASE ~(r.state = "reading" /\ frame.kind = "error")
  <2>1. e = r
    BY <1>2 DEF Take
  <2> QED
    BY <2>1
<1> QED
  BY <1>1, <1>2

\* However it was framed, read_body fails or keeps of the wire what the cap holds.
LEMMA ReadBodyIs ==
    ASSUME NEW b, IsBody(b), NEW came, IsRow(came)
    PROVE  LET r == ReadBody(FramesOf(b, came))
           IN  r.state # "error" => r.units = Clipped(came, MaxBody)
<1> DEFINE F == FramesOf(b, came)
           u == Clipped(came, b.split)
           v == SubSeq(came, b.split + 1, Len(came))
           Data(units) == [kind |-> "data", units |-> units]
           R0 == [units |-> << >>, state |-> "reading"]
<1>1. F = <<Data(u), b.between, Data(v), b.last>>
  BY DEF FramesOf
<1>2. Begins(u, came) /\ IsRow(v) /\ u \o v = came
  BY TwoChunks DEF IsBody
<1> HIDE DEF u, v
<1>3. Len(F) = 4 /\ F[1] = Data(u) /\ F[2] = b.between /\ F[3] = Data(v) /\ F[4] = b.last
  BY <1>1
<1> HIDE DEF F
<1> DEFINE f == CHOOSE s : s = [k \in 0..4 |-> IF k = 0 THEN R0 ELSE Take(s[k - 1], F[k])]
           R1 == Take(R0, F[1])
           R2 == Take(R1, F[2])
           R3 == Take(R2, F[3])
           R4 == Take(R3, F[4])
           g == [k \in 0..4 |-> IF k = 0 THEN R0 ELSE IF k = 1 THEN R1 ELSE IF k = 2 THEN R2
                                ELSE IF k = 3 THEN R3 ELSE R4]
<1>4. ReadBody(F) = f[4]
  BY <1>3 DEF ReadBody
<1>5. g = [k \in 0..4 |-> IF k = 0 THEN R0 ELSE Take(g[k - 1], F[k])]
  <2>1. g[0] = R0 /\ g[1] = Take(g[0], F[1]) /\ g[2] = Take(g[1], F[2]) /\ g[3] = Take(g[2], F[3]) /\ g[4] = Take(g[3], F[4])
    <3> HIDE DEF R0, R1, R2, R3, R4
    <3>1. g[0] = R0 /\ g[1] = R1 /\ g[2] = R2 /\ g[3] = R3 /\ g[4] = R4
      OBVIOUS
    <3> QED
      BY <3>1 DEF R1, R2, R3, R4
  <2>2. g = [k \in 0..4 |-> g[k]]
    OBVIOUS
  <2> HIDE DEF g, R0
  <2>3. ASSUME NEW k \in 0..4
        PROVE  g[k] = IF k = 0 THEN R0 ELSE Take(g[k - 1], F[k])
    <3>1. k = 0 \/ k = 1 \/ k = 2 \/ k = 3 \/ k = 4
      OBVIOUS
    <3> QED
      BY <2>1, <3>1
  <2> QED
    BY <2>2, <2>3
<1> HIDE DEF g
<1>6. f = [k \in 0..4 |-> IF k = 0 THEN R0 ELSE Take(f[k - 1], F[k])]
  BY <1>5
<1> HIDE DEF f
<1>7. /\ f[0] = R0 /\ f[1] = Take(f[0], F[1]) /\ f[2] = Take(f[1], F[2])
      /\ f[3] = Take(f[2], F[3]) /\ f[4] = Take(f[3], F[4])
  <2> HIDE DEF R0
  <2> QED
    BY <1>6
<1>8. IsRow(<< >>) /\ IsRow(u) /\ << >> \o u = u /\ u \o << >> = u /\ Begins(u, came) /\ Begins(came, came)
  <2>1. IsRow(u)
    BY <1>2 DEF Begins
  <2>2. Begins(came, came)
    BY RowIs DEF Begins
  <2> QED
    BY <1>2, <2>1, <2>2, EmptyBegins
<1>9. Read(f[0], << >>, came)
  <2>1. R0.units = << >> /\ R0.state = "reading" /\ R0 = [units |-> R0.units, state |-> R0.state]
    OBVIOUS
  <2>2. Len(<< >>) <= MaxBody
    BY MaxBodyAssumption
  <2> HIDE DEF R0
  <2> QED
    BY <1>7, <2>1, <2>2 DEF Read
<1>10. Read(f[1], u, came)
  BY <1>3, <1>7, <1>8, <1>9, TakesData
<1>11. Read(f[2], u, came)
  <2>1. b.between = Data(<< >>) \/ b.between = [kind |-> "trailers"]
    BY DEF IsBody
  <2>2. CASE b.between = Data(<< >>)
    BY <1>3, <1>7, <1>8, <1>10, <2>2, TakesData
  <2>3. CASE b.between = [kind |-> "trailers"]
    <3>1. b.between.kind = "trailers"
      BY <2>3
    <3> QED
      BY <1>3, <1>7, <1>10, <3>1, TakesOther
  <2> QED
    BY <2>1, <2>2, <2>3
<1>12. Read(f[3], came, came)
  BY <1>2, <1>3, <1>7, <1>8, <1>11, TakesData
<1>13. Read(f[4], came, came)
  <2>1. b.last.kind \in {"trailers", "error"}
    <3>1. b.last = [kind |-> "trailers"] \/ b.last = [kind |-> "error"]
      BY DEF IsBody
    <3> QED
      BY <3>1
  <2> QED
    BY <1>3, <1>7, <1>12, <2>1, TakesOther
<1>14. f[4].state # "error" => f[4].units = Clipped(came, MaxBody)
  <2>1. Len(came) <= MaxBody => came = Clipped(came, MaxBody)
    BY ClippedIs, MaxBodyAssumption
  <2> QED
    BY <1>13, <2>1 DEF Read
<1> QED
  BY <1>4, <1>14 DEF F

\* A response without a decode_error has the content, and a sound body none.
Faithful(b, response) ==
    Truthful(b) =>
      /\ (~response.decode_error /\ b.codings # << >> /\ OnTheWire(b) # << >>) =>
           /\ IsPrefix(response.body, b.content)
           /\ response.body = b.content \/ Len(response.body) = MaxBody
      /\ (b.fault = "none" /\ Sound(b)) => ~response.decode_error /\ response.body = b.content

LEMMA CodedIsLong ==
    ASSUME NEW body, IsRow(body), NEW c, IsCoding(c)
    PROVE  Coded(body, c) # << >>
<1>1. IsCoded(Coded(body, c), body, c)
  BY CodedIs
<1> DEFINE w == Coded(body, c)
           n == Count(body, c.ratio)
<1>2. Len(w) = n + 2 /\ n \in Nat
  BY <1>1 DEF IsCoded
<1> HIDE DEF w, n
<1>3. Len(w) # 0
  BY <1>2
<1>4. w # << >>
  BY <1>3
<1> QED
  BY <1>4 DEF w

LEMMA ResponseIs ==
    ASSUME NEW b, IsBody(b), ~ParseResponse(b).error
    PROVE  Faithful(b, ParseResponse(b))
<1> DEFINE response == ParseResponse(b)
           came == OnTheWire(b)
           read == ReadBody(FramesOf(b, came))
           data == Clipped(came, MaxBody)
           codecs == Codecs(b.declared)
           n == Len(b.codings)
           top == Layers(b)[n]
           d == Decompress(b.declared, data, b.lag)
<1> SUFFICES ASSUME Truthful(b)
             PROVE  /\ (~response.decode_error /\ b.codings # << >> /\ came # << >>) =>
                         /\ IsPrefix(response.body, b.content)
                         /\ response.body = b.content \/ Len(response.body) = MaxBody
                    /\ (b.fault = "none" /\ Sound(b)) => ~response.decode_error /\ response.body = b.content
  BY DEF Faithful
<1>1. /\ n \in Nat /\ Layers(b)[0] = b.content
      /\ \A k \in 1..n : Layers(b)[k] = Coded(Layers(b)[k - 1], b.codings[k])
      /\ \A k \in 0..n : IsRow(Layers(b)[k])
  BY LayersAre
<1>2. Torn(came, top) /\ (b.fault = "none" => came = top)
  BY WireIsTorn
<1>3. IsRow(came) /\ IsRow(b.content) /\ IsRow(b.codings) /\ b.lag \in Nat
  BY <1>2 DEF Torn, TornAt, IsBody
<1>4. Named(codecs, b)
  BY DEF Truthful, Named, Names
<1> HIDE DEF came, codecs
<1>5. read.state # "error" => read.units = data
  BY <1>3, ReadBodyIs
<1>6. response.body = d.body /\ response.decode_error = d.decode_error
  <2>1. response = IF read.state = "error" THEN [error |-> TRUE, body |-> << >>, decode_error |-> FALSE]
                   ELSE LET x == Decompress(b.declared, read.units, b.lag)
                        IN  [error |-> FALSE, body |-> x.body, decode_error |-> x.decode_error]
    BY DEF ParseResponse, Response, came
  <2> HIDE DEF read, data
  <2>2. read.state # "error"
    BY <2>1
  <2> HIDE DEF response
  <2>3. response = [error |-> FALSE, body |-> d.body, decode_error |-> d.decode_error]
    BY <1>5, <2>1, <2>2
  <2> HIDE DEF d
  <2> QED
    BY <2>3
<1> HIDE DEF response, read
<1>7. /\ Begins(data, came) /\ Len(data) = (IF Len(came) < MaxBody THEN Len(came) ELSE MaxBody)
      /\ Len(came) <= MaxBody => data = came
  BY <1>3, ClippedIs, MaxBodyAssumption
<1>8. Torn(data, top)
  BY <1>2, <1>7, TornBegins
<1>9. IsRow(data) /\ Len(data) \in Nat /\ Len(came) \in Nat
  BY <1>3, <1>7, RowIs DEF Begins
<1>10. Sound(b) => Len(top) <= MaxBody
  <2>1. n \in 0..n
    BY <1>1
  <2> QED
    BY <2>1 DEF Sound
<1>11. b.codings # << >> => n > 0
  BY <1>1, <1>3, Empty
<1> HIDE DEF data, top
<1>12. CASE data = << >>
  <2>1. d.body = << >> /\ d.decode_error = FALSE
    BY <1>12 DEF Decompress
  <2>2. came # << >> => MaxBody = 0
    <3> SUFFICES ASSUME came # << >>
                 PROVE  MaxBody = 0
      OBVIOUS
    <3>1. Len(came) # 0
      BY <1>3, Empty
    <3>2. Len(data) = 0
      BY <1>12
    <3> QED
      BY <1>7, <1>9, <3>1, <3>2, MaxBodyAssumption
  <2>3. IsPrefix(<< >>, b.content) /\ Len(<< >>) = 0
    BY <1>3, EmptyBegins, BeginsPrefix
  <2>4. (b.fault = "none" /\ Sound(b)) => b.content = << >>
    <3> SUFFICES ASSUME b.fault = "none", Sound(b)
                 PROVE  b.content = << >>
      OBVIOUS
    <3>1. top = << >>
      BY <1>2, <1>7, <1>10, <1>12
    <3>2. CASE n = 0
      BY <1>1, <3>1, <3>2 DEF top
    <3>3. CASE n # 0
      <4>1. n \in 1..n /\ n - 1 \in 0..n
        BY <1>1, <3>3
      <4> DEFINE body == Layers(b)[n - 1]
                 c == b.codings[n]
      <4>2. top = Coded(body, c) /\ IsRow(body) /\ IsCoding(c)
        BY <1>1, <4>1 DEF top, IsBody
      <4> HIDE DEF body, c
      <4> QED
        BY <3>1, <4>2, CodedIsLong
    <3> QED
      BY <3>2, <3>3
  <2> QED
    BY <1>6, <2>1, <2>2, <2>3, <2>4
<1>13. CASE data # << >>
  <2>1. MaxBody > 0
    <3>1. Len(data) # 0
      BY <1>9, <1>13, Empty
    <3> QED
      BY <1>7, <1>9, <3>1, MaxBodyAssumption
  <2> DEFINE e == Unwrap(codecs, data, b.lag)
  <2>2. d = e
    <3>1. \A i \in 1..Len(codecs) : codecs[i] \in Known
      <4>1. ASSUME NEW i \in 1..Len(codecs)
            PROVE  codecs[i] \in Known
        <5> DEFINE f == b.codings[i].flavour
                   t == codecs[i]
        <5>1. Names(t, f) /\ f \in {"gzip", "zlib", "raw", "br"}
          BY <1>4 DEF Named, IsBody, IsCoding
        <5> HIDE DEF f, t
        <5>2. t \in Known
          BY <5>1 DEF Names, Known
        <5> QED
          BY <5>2 DEF t
      <4> QED
        BY <4>1
    <3> QED
      BY <1>13, <3>1 DEF Decompress, codecs
  <2>3. OnTheWay(e, b.content, n) /\ ((data = top /\ Sound(b)) => OnTrack(e, b.content))
    BY <1>3, <1>4, <1>8, <2>1, WalkKeeps DEF top
  <2> HIDE DEF e, d
  <2>4. (~e.decode_error /\ b.codings # << >>) =>
           IsPrefix(e.body, b.content) /\ (e.body = b.content \/ Len(e.body) = MaxBody)
    <3> SUFFICES ASSUME ~e.decode_error, b.codings # << >>
                 PROVE  IsPrefix(e.body, b.content) /\ (e.body = b.content \/ Len(e.body) = MaxBody)
      OBVIOUS
    <3>1. Filled(e.body, b.content)
      BY <1>11, <2>3 DEF OnTheWay
    <3> QED
      BY <3>1, BeginsPrefix DEF Filled
  <2>5. (b.fault = "none" /\ Sound(b)) => ~e.decode_error /\ e.body = b.content
    BY <1>2, <1>7, <1>10, <2>3 DEF OnTrack
  <2> QED
    BY <1>6, <2>2, <2>4, <2>5
<1> QED
  BY <1>12, <1>13

\* The body at hand is what parse_response made of one that was sent.
BodyKept ==
    \/ parsed = NoBody
    \/ \E b \in Bodies :
          /\ ~ParseResponse(b).error
          /\ parsed = [got |-> TRUE, sent |-> b, body |-> ParseResponse(b).body,
                       decode_error |-> ParseResponse(b).decode_error]

LEMMA KeptIsFaithful ==
    BodyKept => CleanMeansContent /\ WholeIsNeverFlagged
<1> SUFFICES ASSUME BodyKept
             PROVE  CleanMeansContent /\ WholeIsNeverFlagged
  OBVIOUS
<1>1. CASE parsed = NoBody
  <2>1. ~parsed.got
    BY <1>1 DEF NoBody
  <2> QED
    BY <2>1 DEF CleanMeansContent, WholeIsNeverFlagged
<1>2. CASE parsed # NoBody
  <2> DEFINE R(x) == ParseResponse(x)
  <2>1. PICK b \in Bodies :
           /\ ~R(b).error
           /\ parsed = [got |-> TRUE, sent |-> b, body |-> R(b).body, decode_error |-> R(b).decode_error]
    BY <1>2 DEF BodyKept
  <2> DEFINE r == R(b)
             x == r.body
             y == r.decode_error
  <2>2. Faithful(b, r)
    BY <2>1, BodiesAssumption, ResponseIs
  <2> HIDE DEF r, R
  <2>3. parsed = [got |-> TRUE, sent |-> b, body |-> x, decode_error |-> y]
    BY <2>1 DEF r
  <2> HIDE DEF x, y
  <2>4. parsed.sent = b /\ parsed.body = x /\ parsed.decode_error = y
    BY <2>3
  <2>5. CleanMeansContent
    BY <2>2, <2>4, Zenon DEF CleanMeansContent, Faithful, x, y
  <2>6. WholeIsNeverFlagged
    BY <2>2, <2>4, Zenon DEF WholeIsNeverFlagged, Faithful, Sound, x, y
  <2> QED
    BY <2>5, <2>6
<1> QED
  BY <1>1, <1>2

LEMMA BodyIsKept ==
    Spec => []BodyKept
<1>1. Init => BodyKept
  BY DEF Init, BodyKept
<1>2. BodyKept /\ [Next]_vars => BodyKept'
  <2> SUFFICES ASSUME BodyKept, [Next]_vars
               PROVE  BodyKept'
    OBVIOUS
  <2>1. parsed' = parsed \/ parsed' = NoBody => BodyKept'
    BY DEF BodyKept
  <2>2. CASE \E b \in Bodies : ParseBody(b)
    <3>1. PICK b \in Bodies : ParseBody(b)
      BY <2>2
    <3>2. CASE ParseResponse(b).error
      <4>1. parsed' = parsed
        BY <3>1, <3>2 DEF ParseBody
      <4> QED
        BY <2>1, <4>1
    <3>3. CASE ~ParseResponse(b).error
      <4>1. parsed' = [got |-> TRUE, sent |-> b, body |-> ParseResponse(b).body,
                       decode_error |-> ParseResponse(b).decode_error]
        BY <3>1, <3>3 DEF ParseBody
      <4> QED
        BY <3>3, <4>1 DEF BodyKept
    <3> QED
      BY <3>2, <3>3
  <2>3. CASE Next /\ ~(\E b \in Bodies : ParseBody(b))
    <3>1. parsed' = parsed \/ parsed' = NoBody
      BY <2>3 DEF Next, InvalidProxy, FirstAttempt, Attempt, Chain, Responds, Errs, Conclude, AttemptTimesOut, Backoff
    <3> QED
      BY <2>1, <3>1
  <2>4. CASE UNCHANGED vars
    BY <2>1, <2>4 DEF vars
  <2> QED
    BY <2>2, <2>3, <2>4
<1> QED
  BY <1>1, <1>2, PTL DEF Spec

\* "None when body is content" (hyper.rs, Decoded): whatever was cut or damaged
\* on the way, and wherever the cap fell, a coded body whose header names its
\* codings comes back without a decode_error only as the content, or as much of
\* it as the cap holds.
THEOREM CleanBodiesAreContent == Spec => []CleanMeansContent
<1>1. BodyKept => CleanMeansContent
  BY KeptIsFaithful
<1> QED
  BY <1>1, BodyIsKept, PTL

\* decompress flags no body that arrived whole and fits the cap in every layer:
\* however many codings it has, whichever shape deflate took, however it was framed.
THEOREM WholeBodiesAreNotFlagged == Spec => []WholeIsNeverFlagged
<1>1. BodyKept => WholeIsNeverFlagged
  BY KeptIsFaithful
<1> QED
  BY <1>1, BodyIsKept, PTL
=============================================================================
