------------------------------ MODULE H2Proofs ------------------------------
(***************************************************************************)
(* The HTTP/2 toolkit, for every complete prefix code, width of integers   *)
(* and static table: the Huffman decoder accepts canonical encodings only, *)
(* integers are exact, what encode_headers writes is read back, and the    *)
(* decoder keeps in step with every conforming peer.                       *)
(***************************************************************************)
EXTENDS H2Toolkit, FiniteSetTheorems, SequenceTheorems, WellFoundedInduction, TLAPS

-----------------------------------------------------------------------------
(* Induction over an initial segment of the numbers, and recursion.        *)

\* What holds of 0 and goes from each number to the next, holds up to n.
LEMMA UpTo ==
    ASSUME NEW n \in Nat, NEW T, 0 \in T,
           \A i \in 1..n : i - 1 \in T => i \in T
    PROVE  0..n \subseteq T
<1> SUFFICES ASSUME NEW i \in 0..n, i \notin T
             PROVE  FALSE
  OBVIOUS
<1> DEFINE W == {k \in Nat : k <= n /\ k \notin T}
<1>1. i \in W
  OBVIOUS
<1>2. IsWellFoundedOn(OpToRel(<, Nat), Nat)
  BY NatLessThanWellFounded
<1>3. PICK k \in W : \A j \in W : ~(<<j, k>> \in OpToRel(<, Nat))
  <2>1. W \subseteq Nat /\ W # {}
    BY <1>1
  <2> HIDE DEF W
  <2> QED
    BY <1>2, <2>1, WFMin
<1>4. \A j \in W : ~(j < k)
  <2>1. k \in Nat /\ \A j \in W : j \in Nat
    BY <1>3
  <2> QED
    BY <1>3, <2>1 DEF OpToRel
<1>5. k \in 1..n /\ k - 1 \in Nat /\ k - 1 <= n /\ k - 1 < k
  <2>1. k \in Nat /\ k <= n /\ k \notin T
    BY <1>3
  <2>2. k # 0
    BY <2>1
  <2> QED
    BY <2>1, <2>2
<1>6. k - 1 \in T
  BY <1>4, <1>5
<1> QED
  BY <1>3, <1>5, <1>6

\* A step given as a function for each number can be iterated.
Steps(n, S, a, g) == n \in Nat /\ a \in S /\ g \in [1..n -> [S -> S]]
IsRun(r, n, S, a, g) ==
    r \in [0..n -> S] /\ r[0] = a /\ \A i \in 1..n : r[i - 1] \in S /\ r[i] = g[i][r[i - 1]]

LEMMA Iterates ==
    ASSUME NEW n, NEW S, NEW a, NEW g, Steps(n, S, a, g)
    PROVE  \E r : IsRun(r, n, S, a, g)
<1> USE DEF Steps
<1> DEFINE T == {m \in 0..n : \E r : IsRun(r, m, S, a, g)}
<1>1. 0 \in T
  <2>1. IsRun([i \in 0..0 |-> a], 0, S, a, g)
    BY DEF IsRun
  <2> QED
    BY <2>1
<1>2. ASSUME NEW m \in 1..n, m - 1 \in T
      PROVE  m \in T
  <2>1. PICK r : IsRun(r, m - 1, S, a, g)
    BY <1>2
  <2> DEFINE q == [i \in 0..m |-> IF i = m THEN g[m][r[m - 1]] ELSE r[i]]
  <2>2. r[m - 1] \in S /\ g[m][r[m - 1]] \in S
    BY <2>1 DEF IsRun
  <2>3. q \in [0..m -> S] /\ q[0] = a
    BY <2>1, <2>2 DEF IsRun
  <2>4. ASSUME NEW i \in 1..m
        PROVE  q[i - 1] \in S /\ q[i] = g[i][q[i - 1]]
    BY <2>1, <2>2 DEF IsRun
  <2>5. IsRun(q, m, S, a, g)
    BY <2>3, <2>4 DEF IsRun
  <2> HIDE DEF q
  <2> QED
    BY <2>5
<1>3. n \in T
  <2> HIDE DEF T
  <2>1. 0..n \subseteq T
    BY <1>1, <1>2, UpTo
  <2> QED
    BY <2>1
<1> QED
  BY <1>3

\* Two runs that start alike and go on alike agree.
Alike(r, s, n) ==
    n \in Nat /\ r[0] = s[0] /\ \A i \in 1..n : r[i - 1] = s[i - 1] => r[i] = s[i]

LEMMA Agree ==
    ASSUME NEW n, NEW r, NEW s, Alike(r, s, n)
    PROVE  \A i \in 0..n : r[i] = s[i]
<1> USE DEF Alike
<1> DEFINE T == {i \in 0..n : r[i] = s[i]}
<1>1. 0 \in T /\ \A i \in 1..n : i - 1 \in T => i \in T
  OBVIOUS
<1> HIDE DEF T
<1>2. 0..n \subseteq T
  BY <1>1, UpTo
<1> QED
  BY <1>2 DEF T

\* The running totals of a sequence of numbers.
TotalRun(r, f) ==
    /\ r \in [0..Len(f) -> Nat] /\ r[0] = 0 /\ Total(f) = r[Len(f)]
    /\ \A i \in 1..Len(f) : r[i] = r[i - 1] + f[i]

LEMMA TotalRuns ==
    ASSUME NEW f \in Seq(Nat)
    PROVE  \E r : TotalRun(r, f)
<1> DEFINE n == Len(f)
           sum == CHOOSE s : s = [i \in 0..n |-> IF i = 0 THEN 0 ELSE s[i - 1] + f[i]]
           g == [i \in 1..n |-> [x \in Nat |-> x + f[i]]]
<1>1. n \in Nat /\ \A i \in 1..n : f[i] \in Nat
  OBVIOUS
<1>2. PICK r : IsRun(r, n, Nat, 0, g)
  <2>1. Steps(n, Nat, 0, g)
    BY <1>1 DEF Steps
  <2> HIDE DEF g, n
  <2> QED
    BY <2>1, Iterates
<1>3. r[0] = 0 /\ \A i \in 1..n : r[i] = r[i - 1] + f[i]
  BY <1>1, <1>2 DEF IsRun
<1>4. r = [i \in 0..n |-> IF i = 0 THEN 0 ELSE r[i - 1] + f[i]]
  BY <1>1, <1>2, <1>3 DEF IsRun
<1>5. sum = [i \in 0..n |-> IF i = 0 THEN 0 ELSE sum[i - 1] + f[i]]
  <2> HIDE DEF n
  <2> QED
    BY <1>4
<1>6. Total(f) = sum[n]
  BY DEF Total
<1> HIDE DEF sum
<1>7. sum[n] = r[n]
  <2>1. Alike(sum, r, n)
    BY <1>1, <1>3, <1>5 DEF Alike
  <2> HIDE DEF n
  <2>2. \A i \in 0..n : sum[i] = r[i]
    BY <2>1, Agree
  <2> QED
    BY <1>1, <2>2
<1> QED
  BY <1>2, <1>3, <1>6, <1>7 DEF TotalRun, IsRun

-----------------------------------------------------------------------------
(* Powers of two.                                                          *)

\* 2^n counts the subsets of 1..n; with n + 1 there are as many again.
LEMMA Doubling ==
    ASSUME NEW n \in Nat
    PROVE  2 ^ n \in Nat /\ 2 ^ n > 0 /\ 2 ^ (n + 1) = 2 * 2 ^ n
<1> DEFINE A == SUBSET (1..n)
           B == {s \cup {n + 1} : s \in A}
           f == [s \in A |-> s \cup {n + 1}]
<1>1. ASSUME NEW m \in Nat
      PROVE  /\ IsFiniteSet(SUBSET (1..m)) /\ Cardinality(SUBSET (1..m)) = 2 ^ m
             /\ 2 ^ m \in Nat /\ 2 ^ m > 0
  <2>1. IsFiniteSet(1..m) /\ Cardinality(1..m) = m
    BY FS_Interval
  <2>2. IsFiniteSet(SUBSET (1..m)) /\ Cardinality(SUBSET (1..m)) = 2 ^ m
    BY <2>1, FS_SUBSET
  <2>3. Cardinality(SUBSET (1..m)) \in Nat
    BY <2>2, FS_CardinalityType
  <2>4. SUBSET (1..m) # {}
    OBVIOUS
  <2>5. Cardinality(SUBSET (1..m)) # 0
    BY <2>2, <2>4, FS_EmptySet
  <2> QED
    BY <2>2, <2>3, <2>5
<1>2. A \cup B = SUBSET (1..(n + 1))
  <2>1. ASSUME NEW s \in SUBSET (1..(n + 1)), n + 1 \in s
        PROVE  s \in B
    <3>1. s \ {n + 1} \in A /\ s = (s \ {n + 1}) \cup {n + 1}
      BY <2>1
    <3> QED
      BY <3>1
  <2>2. ASSUME NEW s \in SUBSET (1..(n + 1)), n + 1 \notin s
        PROVE  s \in A
    BY <2>2
  <2>3. ASSUME NEW s \in A
        PROVE  s \in SUBSET (1..(n + 1)) /\ s \cup {n + 1} \in SUBSET (1..(n + 1))
    OBVIOUS
  <2>4. A \subseteq SUBSET (1..(n + 1)) /\ B \subseteq SUBSET (1..(n + 1))
    <3> HIDE DEF A
    <3> QED
      BY <2>3
  <2> HIDE DEF A, B
  <2> QED
    BY <2>1, <2>2, <2>4
<1>3. A \cap B = {}
  OBVIOUS
<1>4. f \in Bijection(A, B)
  <2>1. f \in Surjection(A, B)
    BY DEF Surjection
  <2>2. \A s, t \in A : s \cup {n + 1} = t \cup {n + 1} => s = t
    <3>1. \A s \in A : n + 1 \notin s
      OBVIOUS
    <3> HIDE DEF A
    <3> QED
      BY <3>1
  <2>3. f \in [A -> B] /\ \A s \in A : f[s] = s \cup {n + 1}
    OBVIOUS
  <2>4. f \in Injection(A, B)
    <3> HIDE DEF A, B, f
    <3> QED
      BY <2>2, <2>3 DEF Injection, IsInjective
  <2> QED
    BY <2>1, <2>4 DEF Bijection
<1>5. IsFiniteSet(A) /\ Cardinality(A) = 2 ^ n /\ 2 ^ n \in Nat /\ 2 ^ n > 0
  BY <1>1
<1>6. Cardinality(A \cup B) = 2 ^ (n + 1)
  <2>1. n + 1 \in Nat
    OBVIOUS
  <2>2. Cardinality(SUBSET (1..(n + 1))) = 2 ^ (n + 1)
    BY <1>1, <2>1
  <2> QED
    BY <1>2, <2>2
<1> HIDE DEF A, B, f
<1>7. IsFiniteSet(B) /\ Cardinality(B) = Cardinality(A)
  BY <1>4, <1>5, FS_Bijection DEF ExistsBijection
<1>8. Cardinality(A \cup B) = Cardinality(A) + Cardinality(B)
  <2>1. Cardinality(A \cup B) = Cardinality(A) + Cardinality(B) - Cardinality(A \cap B)
    BY <1>5, <1>7, FS_Union
  <2>2. Cardinality(A \cap B) = 0
    BY <1>3, FS_EmptySet
  <2>3. Cardinality(A) \in Nat /\ Cardinality(B) \in Nat
    BY <1>5, <1>7, FS_CardinalityType
  <2> QED
    BY <2>1, <2>2, <2>3
<1> QED
  BY <1>5, <1>6, <1>7, <1>8

LEMMA Grows ==
    ASSUME NEW m \in Nat, NEW n \in Nat, m <= n
    PROVE  2 ^ m <= 2 ^ n
<1> DEFINE T == {k \in Nat : 2 ^ m <= 2 ^ (m + k)}
<1>1. 0 \in T
  BY Doubling
<1>2. ASSUME NEW i \in 1..(n - m), i - 1 \in T
      PROVE  i \in T
  <2>1. m + (i - 1) \in Nat /\ (m + (i - 1)) + 1 = m + i /\ 2 ^ m <= 2 ^ (m + (i - 1)) /\ i \in Nat
    BY <1>2
  <2>2. 2 ^ (m + i) = 2 * 2 ^ (m + (i - 1)) /\ 2 ^ (m + (i - 1)) \in Nat
    BY <2>1, Doubling
  <2>3. 2 ^ m \in Nat
    BY Doubling
  <2> QED
    BY <2>1, <2>2, <2>3
<1>3. n - m \in T
  <2> HIDE DEF T
  <2>1. n - m \in Nat /\ n - m \in 0..(n - m)
    OBVIOUS
  <2> QED
    BY <1>1, <1>2, <2>1, UpTo
<1> QED
  BY <1>3

LEMMA GrowsStrictly ==
    ASSUME NEW m \in Nat, NEW n \in Nat, m < n
    PROVE  2 ^ m < 2 ^ n
<1>1. m + 1 \in Nat /\ m + 1 <= n
  OBVIOUS
<1>2. 2 ^ (m + 1) <= 2 ^ n
  BY <1>1, Grows
<1> QED
  BY <1>2, Doubling

LEMMA TimesSeven ==
    ASSUME NEW n \in Nat
    PROVE  2 ^ (n + 7) = 128 * 2 ^ n
<1>1. ASSUME NEW m \in Nat
      PROVE  2 ^ (m + 1) = 2 * 2 ^ m /\ m + 1 \in Nat /\ 2 ^ m \in Nat
  BY Doubling
<1>2. /\ n + 1 \in Nat /\ n + 2 \in Nat /\ n + 3 \in Nat /\ n + 4 \in Nat /\ n + 5 \in Nat
      /\ n + 6 \in Nat /\ n + 7 \in Nat
      /\ n + 2 = (n + 1) + 1 /\ n + 3 = (n + 2) + 1 /\ n + 4 = (n + 3) + 1
      /\ n + 5 = (n + 4) + 1 /\ n + 6 = (n + 5) + 1 /\ n + 7 = (n + 6) + 1
  OBVIOUS
<1>3. 2 ^ (n + 1) = 2 * 2 ^ n /\ 2 ^ (n + 2) = 2 * 2 ^ (n + 1) /\ 2 ^ (n + 3) = 2 * 2 ^ (n + 2)
  BY <1>1, <1>2
<1>4. 2 ^ (n + 4) = 2 * 2 ^ (n + 3) /\ 2 ^ (n + 5) = 2 * 2 ^ (n + 4)
  BY <1>1, <1>2
<1>5. 2 ^ (n + 6) = 2 * 2 ^ (n + 5) /\ 2 ^ (n + 7) = 2 * 2 ^ (n + 6)
  BY <1>1, <1>2
<1>6. 2 ^ n \in Nat
  BY <1>1
<1> QED
  BY <1>3, <1>4, <1>5, <1>6

-----------------------------------------------------------------------------
(* Sums and concatenations, one element after the other.                   *)

\* A sequence up to its i-th element.
LEMMA PrefixStep ==
    ASSUME NEW S, NEW s \in Seq(S), NEW i \in 1..Len(s)
    PROVE  /\ SubSeq(s, 1, i - 1) \in Seq(S) /\ Len(SubSeq(s, 1, i - 1)) = i - 1
           /\ s[i] \in S /\ SubSeq(s, 1, i) = Append(SubSeq(s, 1, i - 1), s[i])
<1>1. i \in Nat /\ Len(s) \in Nat /\ i - 1 \in Nat /\ s[i] \in S
  OBVIOUS
<1> DEFINE u == SubSeq(s, 1, i - 1)
           v == SubSeq(s, 1, i)
<1>2. u \in Seq(S) /\ Len(u) = i - 1 /\ \A j \in 1..(i - 1) : u[j] = s[j]
  BY <1>1
<1>3. v \in Seq(S) /\ Len(v) = i /\ \A j \in 1..i : v[j] = s[j]
  BY <1>1
<1> HIDE DEF u, v
<1>4. v = Append(u, s[i])
  <2>1. Append(u, s[i]) \in Seq(S) /\ Len(Append(u, s[i])) = i
    BY <1>1, <1>2
  <2>2. \A j \in 1..i : Append(u, s[i])[j] = v[j]
    BY <1>1, <1>2, <1>3
  <2> QED
    BY <1>3, <2>1, <2>2, SeqEqual
<1> QED
  BY <1>1, <1>2, <1>4 DEF u, v

LEMMA WholePrefix ==
    ASSUME NEW S, NEW s \in Seq(S)
    PROVE  SubSeq(s, 1, Len(s)) = s /\ SubSeq(s, 1, 0) = << >> /\ Len(s) \in Nat
  OBVIOUS

LEMMA ConcatAt ==
    ASSUME NEW S, NEW a \in Seq(S), NEW b \in Seq(S)
    PROVE  /\ a \o b \in Seq(S) /\ Len(a \o b) = Len(a) + Len(b)
           /\ Len(a) \in Nat /\ Len(b) \in Nat
           /\ \A i \in 1..Len(a) : (a \o b)[i] = a[i]
           /\ \A i \in 1..Len(b) : (a \o b)[Len(a) + i] = b[i]
  OBVIOUS

LEMMA TotalAppend ==
    /\ Total(<< >>) = 0
    /\ \A f \in Seq(Nat) : Total(f) \in Nat
    /\ \A f \in Seq(Nat) : \A x \in Nat : Total(Append(f, x)) = Total(f) + x
<1>1. Total(<< >>) = 0
  <2>1. << >> \in Seq(Nat) /\ Len(<< >>) = 0
    OBVIOUS
  <2> QED
    BY <2>1, TotalRuns DEF TotalRun
<1>2. ASSUME NEW f \in Seq(Nat)
      PROVE  Total(f) \in Nat
  BY TotalRuns DEF TotalRun
<1>3. ASSUME NEW f \in Seq(Nat), NEW x \in Nat
      PROVE  Total(Append(f, x)) = Total(f) + x
  <2> DEFINE h == Append(f, x)
  <2>1. /\ h \in Seq(Nat) /\ Len(h) = Len(f) + 1 /\ h[Len(f) + 1] = x /\ Len(f) \in Nat
        /\ \A i \in 1..Len(f) : h[i] = f[i]
    OBVIOUS
  <2> HIDE DEF h
  <2>2. PICK r : TotalRun(r, f)
    BY TotalRuns
  <2>3. PICK q : TotalRun(q, h)
    BY <2>1, TotalRuns
  <2>4. Alike(q, r, Len(f))
    BY <2>1, <2>2, <2>3 DEF Alike, TotalRun
  <2>5. q[Len(f)] = r[Len(f)]
    <3>1. \A i \in 0..Len(f) : q[i] = r[i]
      BY <2>4, Agree
    <3> QED
      BY <2>1, <3>1
  <2>6. q[Len(f) + 1] = q[Len(f)] + x
    <3>1. Len(f) + 1 \in 1..Len(h) /\ (Len(f) + 1) - 1 = Len(f)
      BY <2>1
    <3> QED
      BY <2>1, <2>3, <3>1 DEF TotalRun
  <2> QED
    BY <2>1, <2>2, <2>3, <2>5, <2>6 DEF TotalRun, h
<1> QED
  BY <1>1, <1>2, <1>3

ConcatRun(r, s, S) ==
    /\ r \in [0..Len(s) -> Seq(S)] /\ r[0] = << >> /\ Concat(s) = r[Len(s)]
    /\ \A i \in 1..Len(s) : r[i] = r[i - 1] \o s[i]

LEMMA ConcatRuns ==
    ASSUME NEW S, NEW f \in Seq(Seq(S))
    PROVE  \E r : ConcatRun(r, f, S)
<1> DEFINE n == Len(f)
           Then(x, i) == x \o f[i]
           upto == CHOOSE s : s = [i \in 0..n |-> IF i = 0 THEN << >> ELSE Then(s[i - 1], i)]
           g == [i \in 1..n |-> [x \in Seq(S) |-> Then(x, i)]]
<1>1. n \in Nat /\ \A i \in 1..n : f[i] \in Seq(S)
  OBVIOUS
<1>2. \A i \in 1..n : \A x \in Seq(S) : Then(x, i) \in Seq(S)
  BY <1>1
<1>3. Concat(f) = upto[n]
  BY DEF Concat
<1> HIDE DEF n, Then
<1>4. PICK r : IsRun(r, n, Seq(S), << >>, g)
  <2>1. Steps(n, Seq(S), << >>, g)
    BY <1>1, <1>2 DEF Steps
  <2> HIDE DEF g
  <2> QED
    BY <2>1, Iterates
<1>5. r[0] = << >> /\ \A i \in 1..n : r[i] = Then(r[i - 1], i)
  BY <1>1, <1>4 DEF IsRun
<1>6. r = [i \in 0..n |-> IF i = 0 THEN << >> ELSE Then(r[i - 1], i)]
  BY <1>1, <1>4, <1>5 DEF IsRun
<1>7. upto = [i \in 0..n |-> IF i = 0 THEN << >> ELSE Then(upto[i - 1], i)]
  BY <1>6
<1> HIDE DEF upto
<1>8. upto[n] = r[n]
  <2>1. Alike(upto, r, n)
    BY <1>1, <1>5, <1>7 DEF Alike
  <2>2. \A i \in 0..n : upto[i] = r[i]
    BY <2>1, Agree
  <2> QED
    BY <1>1, <2>2
<1>9. r \in [0..n -> Seq(S)]
  BY <1>4 DEF IsRun
<1> QED
  BY <1>3, <1>5, <1>8, <1>9, Zenon DEF ConcatRun, n, Then

LEMMA ConcatAppend ==
    ASSUME NEW S
    PROVE  /\ Concat(<< >>) = << >>
           /\ \A f \in Seq(Seq(S)) : Concat(f) \in Seq(S)
           /\ \A f \in Seq(Seq(S)) : \A x \in Seq(S) : Concat(Append(f, x)) = Concat(f) \o x
<1>1. Concat(<< >>) = << >>
  <2>1. << >> \in Seq(Seq(S)) /\ Len(<< >>) = 0
    OBVIOUS
  <2> QED
    BY <2>1, ConcatRuns DEF ConcatRun
<1>2. ASSUME NEW f \in Seq(Seq(S))
      PROVE  Concat(f) \in Seq(S)
  <2>1. PICK r : ConcatRun(r, f, S)
    BY ConcatRuns
  <2>2. Len(f) \in 0..Len(f)
    OBVIOUS
  <2> QED
    BY <2>1, <2>2 DEF ConcatRun
<1>3. ASSUME NEW f \in Seq(Seq(S)), NEW x \in Seq(S)
      PROVE  Concat(Append(f, x)) = Concat(f) \o x
  <2> DEFINE h == Append(f, x)
  <2>1. /\ h \in Seq(Seq(S)) /\ Len(h) = Len(f) + 1 /\ h[Len(f) + 1] = x /\ Len(f) \in Nat
        /\ \A i \in 1..Len(f) : h[i] = f[i]
    OBVIOUS
  <2> HIDE DEF h
  <2>2. PICK r : ConcatRun(r, f, S)
    BY ConcatRuns
  <2>3. PICK q : ConcatRun(q, h, S)
    BY <2>1, ConcatRuns
  <2>4. Alike(q, r, Len(f))
    <3>1. ASSUME NEW i \in 1..Len(f), q[i - 1] = r[i - 1]
          PROVE  q[i] = r[i]
      <4>1. i \in 1..Len(h) /\ h[i] = f[i]
        BY <2>1
      <4>2. q[i] = q[i - 1] \o h[i] /\ r[i] = r[i - 1] \o f[i]
        BY <2>2, <2>3, <4>1, Zenon DEF ConcatRun
      <4> QED
        BY <3>1, <4>1, <4>2, Zenon
    <3>2. q[0] = r[0]
      BY <2>2, <2>3, Zenon DEF ConcatRun
    <3> QED
      BY <2>1, <3>1, <3>2, Zenon DEF Alike
  <2>5. q[Len(f)] = r[Len(f)]
    <3>1. \A i \in 0..Len(f) : q[i] = r[i]
      BY <2>4, Agree
    <3> QED
      BY <2>1, <3>1
  <2>6. q[Len(f) + 1] = q[Len(f)] \o x
    <3>1. Len(f) + 1 \in 1..Len(h) /\ (Len(f) + 1) - 1 = Len(f)
      BY <2>1
    <3> QED
      BY <2>1, <2>3, <3>1, Zenon DEF ConcatRun
  <2> QED
    BY <2>1, <2>2, <2>3, <2>5, <2>6 DEF ConcatRun, h
<1> QED
  BY <1>1, <1>2, <1>3

-----------------------------------------------------------------------------
(* The Huffman code.                                                       *)

Bit == {0, 1}

LEMMA BitsAppendConcat ==
    ASSUME NEW a \in Seq(Bit), NEW b \in Seq(Bit), NEW x \in Bit
    PROVE  Append(a \o b, x) = a \o Append(b, x)
<1>1. /\ a \o b \in Seq(Bit) /\ <<x>> \in Seq(Bit)
  OBVIOUS
<1>2. Append(a \o b, x) = (a \o b) \o <<x>> /\ Append(b, x) = b \o <<x>>
  BY <1>1, AppendIsConcat
<1>3. (a \o b) \o <<x>> = a \o (b \o <<x>>)
  BY <1>1, ConcatAssociative
<1> QED
  BY <1>2, <1>3

LEMMA CodeTypes ==
    /\ Alphabet \subseteq Bytes /\ Eos \in Seq(Bit) /\ Eos # << >> /\ Len(Eos) > 7
    /\ \A b \in Alphabet : HuffmanTable[b] \in Seq(Bit) /\ HuffmanTable[b] # << >>
                           /\ HuffmanTable[b] \in CodeWords
<1>1. \A w \in CodeWords : w \in Seq(Bit) /\ Len(w) \in 1..30
  BY CodeAssumption DEF Bit
<1>2. Len(<< >>) = 0 /\ 0 \notin 1..30
  OBVIOUS
<1>3. \A w \in CodeWords : w \in Seq(Bit) /\ w # << >>
  BY <1>1, <1>2
<1>4. Eos \in CodeWords /\ \A b \in Alphabet : HuffmanTable[b] \in CodeWords
  BY DEF CodeWords
<1> QED
  BY <1>3, <1>4, CodeAssumption

\* What a function gives for each element of a sequence.
LEMMA MapAppend ==
    ASSUME NEW A, NEW B, NEW H, \A a \in A : H[a] \in B, NEW o \in Seq(A), NEW b \in A
    PROVE  /\ [i \in 1..Len(o) |-> H[o[i]]] \in Seq(B)
           /\ [i \in 1..Len(Append(o, b)) |-> H[Append(o, b)[i]]]
                = Append([i \in 1..Len(o) |-> H[o[i]]], H[b])
<1> DEFINE u == [i \in 1..Len(o) |-> H[o[i]]]
           o2 == Append(o, b)
           v == [i \in 1..Len(o2) |-> H[o2[i]]]
<1>1. Len(o) \in Nat /\ \A i \in 1..Len(o) : o[i] \in A
  OBVIOUS
<1>2. u \in Seq(B) /\ Len(u) = Len(o) /\ \A i \in 1..Len(o) : u[i] = H[o[i]]
  BY <1>1
<1>3. o2 \in Seq(A) /\ Len(o2) = Len(o) + 1 /\ o2[Len(o) + 1] = b /\ \A i \in 1..Len(o) : o2[i] = o[i]
  BY <1>1
<1> HIDE DEF o2
<1>4. v \in Seq(B) /\ Len(v) = Len(o) + 1 /\ v[Len(o) + 1] = H[b] /\ \A i \in 1..Len(o) : v[i] = u[i]
  BY <1>1, <1>2, <1>3
<1> HIDE DEF u, v
<1>5. /\ Append(u, H[b]) \in Seq(B) /\ Len(Append(u, H[b])) = Len(o) + 1
      /\ \A i \in 1..(Len(o) + 1) : Append(u, H[b])[i] = v[i]
  BY <1>1, <1>2, <1>4
<1>6. v = Append(u, H[b])
  BY <1>4, <1>5, SeqEqual
<1> QED
  BY <1>2, <1>6 DEF u, v, o2

LEMMA CodeBitsAppend ==
    /\ CodeBits(<< >>) = << >>
    /\ \A o \in Seq(Alphabet) : CodeBits(o) \in Seq(Bit)
    /\ \A o \in Seq(Alphabet) : \A b \in Alphabet :
         CodeBits(Append(o, b)) = CodeBits(o) \o HuffmanTable[b]
<1> DEFINE Words(o) == [i \in 1..Len(o) |-> HuffmanTable[o[i]]]
<1>1. CodeBits(<< >>) = << >>
  <2>1. Words(<< >>) = << >>
    OBVIOUS
  <2> QED
    BY <2>1, ConcatAppend DEF CodeBits
<1>2. \A a \in Alphabet : HuffmanTable[a] \in Seq(Bit)
  BY CodeTypes
<1>3. ASSUME NEW o \in Seq(Alphabet), NEW b \in Alphabet
      PROVE  Words(o) \in Seq(Seq(Bit)) /\ Words(Append(o, b)) = Append(Words(o), HuffmanTable[b])
  BY <1>2, MapAppend
<1>4. ASSUME NEW o \in Seq(Alphabet)
      PROVE  Words(o) \in Seq(Seq(Bit))
  BY <1>2
<1> HIDE DEF Words
<1>5. ASSUME NEW o \in Seq(Alphabet)
      PROVE  CodeBits(o) \in Seq(Bit)
  <2>1. CodeBits(o) = Concat(Words(o))
    BY DEF CodeBits, Words
  <2> QED
    BY <1>4, <2>1, ConcatAppend
<1>6. ASSUME NEW o \in Seq(Alphabet), NEW b \in Alphabet
      PROVE  CodeBits(Append(o, b)) = CodeBits(o) \o HuffmanTable[b]
  <2>1. CodeBits(o) = Concat(Words(o)) /\ CodeBits(Append(o, b)) = Concat(Words(Append(o, b)))
    BY DEF CodeBits, Words
  <2>2. Concat(Append(Words(o), HuffmanTable[b])) = Concat(Words(o)) \o HuffmanTable[b]
    BY <1>2, <1>3, ConcatAppend
  <2> QED
    BY <1>3, <2>1, <2>2
<1> QED
  BY <1>1, <1>5, <1>6

\* encoded_len counts the bits of the code words.
LEMMA EncodedLength ==
    ASSUME NEW o \in Seq(Alphabet)
    PROVE  Len(CodeBits(o)) \in Nat /\ EncodedLen(o) = (Len(CodeBits(o)) + 7) \div 8
<1> DEFINE H == [b \in Alphabet |-> Len(HuffmanTable[b])]
           Lens(u) == [i \in 1..Len(u) |-> H[u[i]]]
           T == {i \in 0..Len(o) : Total(Lens(SubSeq(o, 1, i))) = Len(CodeBits(SubSeq(o, 1, i)))}
<1>1. \A a \in Alphabet : H[a] \in Nat /\ H[a] = Len(HuffmanTable[a])
  BY CodeTypes
<1>2. ASSUME NEW u \in Seq(Alphabet), NEW b \in Alphabet
      PROVE  Lens(u) \in Seq(Nat) /\ Lens(Append(u, b)) = Append(Lens(u), H[b])
  <2> HIDE DEF H
  <2> QED
    BY <1>1, MapAppend
<1>3. 0 \in T
  <2>1. SubSeq(o, 1, 0) = << >> /\ Len(o) \in Nat
    BY WholePrefix
  <2>2. Lens(<< >>) = << >> /\ Len(<< >>) = 0
    OBVIOUS
  <2> HIDE DEF Lens
  <2>3. Total(Lens(SubSeq(o, 1, 0))) = Len(CodeBits(SubSeq(o, 1, 0)))
    BY <2>1, <2>2, TotalAppend, CodeBitsAppend
  <2> QED
    BY <2>1, <2>3
<1>4. ASSUME NEW i \in 1..Len(o), i - 1 \in T
      PROVE  i \in T
  <2> DEFINE u == SubSeq(o, 1, i - 1)
  <2>1. u \in Seq(Alphabet) /\ o[i] \in Alphabet /\ SubSeq(o, 1, i) = Append(u, o[i])
    BY PrefixStep
  <2>2. Total(Lens(u)) = Len(CodeBits(u))
    BY <1>4
  <2> HIDE DEF u, Lens, H
  <2>3. Total(Append(Lens(u), H[o[i]])) = Total(Lens(u)) + H[o[i]]
    BY <1>1, <1>2, <2>1, TotalAppend
  <2>4. Len(CodeBits(u) \o HuffmanTable[o[i]]) = Len(CodeBits(u)) + Len(HuffmanTable[o[i]])
    <3>1. CodeBits(u) \in Seq(Bit) /\ HuffmanTable[o[i]] \in Seq(Bit)
      BY <2>1, CodeTypes, CodeBitsAppend
    <3> QED
      BY <3>1
  <2>5. CodeBits(Append(u, o[i])) = CodeBits(u) \o HuffmanTable[o[i]]
    BY <2>1, CodeBitsAppend
  <2>6. Total(Lens(SubSeq(o, 1, i))) = Len(CodeBits(SubSeq(o, 1, i)))
    BY <1>1, <1>2, <2>1, <2>2, <2>3, <2>4, <2>5
  <2> QED
    BY <2>6
<1>5. Len(o) \in T
  <2>1. Len(o) \in Nat /\ Len(o) \in 0..Len(o)
    OBVIOUS
  <2> HIDE DEF T
  <2> QED
    BY <1>3, <1>4, <2>1, UpTo
<1>6. Total(Lens(o)) = Len(CodeBits(o))
  <2>1. SubSeq(o, 1, Len(o)) = o
    BY WholePrefix
  <2> HIDE DEF Lens
  <2> QED
    BY <1>5, <2>1
<1>7. Lens(o) = [i \in 1..Len(o) |-> Len(HuffmanTable[o[i]])]
  OBVIOUS
<1>8. CodeBits(o) \in Seq(Bit)
  BY CodeBitsAppend
<1> HIDE DEF Lens
<1> QED
  BY <1>6, <1>7, <1>8 DEF EncodedLen

\* The bits of a string of bytes.
InputBits(input) == Concat([i \in 1..Len(input) |-> BitsOf(input[i])])

LEMMA ByteBits ==
    ASSUME NEW b \in Bytes
    PROVE  BitsOf(b) \in Seq(Bit) /\ Len(BitsOf(b)) = 8 /\ ByteOf(BitsOf(b)) = b
<1> DEFINE s == BitsOf(b)
           t == [i \in 1..8 |-> s[i] * 2 ^ (8 - i)]
<1>1. b \in Nat /\ b <= 255
  BY DEF Bytes
<1>2. /\ 2 ^ (8 - 1) = 128 /\ 2 ^ (8 - 2) = 64 /\ 2 ^ (8 - 3) = 32 /\ 2 ^ (8 - 4) = 16
      /\ 2 ^ (8 - 5) = 8 /\ 2 ^ (8 - 6) = 4 /\ 2 ^ (8 - 7) = 2 /\ 2 ^ (8 - 8) = 1
  OBVIOUS
<1>3. \A i \in 1..8 : i = 1 \/ i = 2 \/ i = 3 \/ i = 4 \/ i = 5 \/ i = 6 \/ i = 7 \/ i = 8
  OBVIOUS
<1>4. ASSUME NEW i \in 1..8
      PROVE  (b \div 2 ^ (8 - i)) % 2 \in Bit
  <2>1. 2 ^ (8 - i) \in Nat /\ 2 ^ (8 - i) > 0
    <3>1. 8 - i \in Nat
      OBVIOUS
    <3> QED
      BY <3>1, Doubling
  <2>2. b \div 2 ^ (8 - i) \in Int
    BY <1>1, <2>1
  <2> QED
    BY <2>2 DEF Bit
<1>5. s \in Seq(Bit) /\ Len(s) = 8
  BY <1>4 DEF BitsOf
<1>6. /\ s[1] = (b \div 128) % 2 /\ s[2] = (b \div 64) % 2 /\ s[3] = (b \div 32) % 2
      /\ s[4] = (b \div 16) % 2 /\ s[5] = (b \div 8) % 2 /\ s[6] = (b \div 4) % 2
      /\ s[7] = (b \div 2) % 2 /\ s[8] = (b \div 1) % 2
  BY <1>2 DEF BitsOf
<1> HIDE DEF s
<1>7. \A i \in 1..8 : s[i] \in Nat
  <2>1. ASSUME NEW i \in 1..8
        PROVE  s[i] \in Bit
    <3>1. i \in 1..Len(s)
      BY <1>5
    <3> QED
      BY <1>5, <3>1, ElementOfSeq
  <2> QED
    BY <2>1 DEF Bit
<1>8. t \in Seq(Nat) /\ Len(t) = 8
  <2>1. ASSUME NEW i \in 1..8
        PROVE  s[i] * 2 ^ (8 - i) \in Nat
    <3>1. 8 - i \in Nat
      OBVIOUS
    <3>2. 2 ^ (8 - i) \in Nat
      BY <3>1, Doubling
    <3> QED
      BY <1>7, <3>2
  <2> QED
    BY <2>1
<1>9. /\ t[1] = s[1] * 128 /\ t[2] = s[2] * 64 /\ t[3] = s[3] * 32 /\ t[4] = s[4] * 16
      /\ t[5] = s[5] * 8 /\ t[6] = s[6] * 4 /\ t[7] = s[7] * 2 /\ t[8] = s[8]
  BY <1>2, <1>7
<1>10. ByteOf(s) = Total(t)
  BY DEF ByteOf
<1> HIDE DEF t
<1>11. PICK r : TotalRun(r, t)
  BY <1>8, TotalRuns
<1>12. \A i \in 1..8 : r[i] = r[i - 1] + t[i]
  BY <1>8, <1>11 DEF TotalRun
<1>13. /\ r[0] = 0 /\ Total(t) = r[8]
       /\ r[1] = r[0] + t[1] /\ r[2] = r[1] + t[2] /\ r[3] = r[2] + t[3] /\ r[4] = r[3] + t[4]
       /\ r[5] = r[4] + t[5] /\ r[6] = r[5] + t[6] /\ r[7] = r[6] + t[7] /\ r[8] = r[7] + t[8]
  BY <1>8, <1>11, <1>12 DEF TotalRun
<1>14. Total(t) = b
  BY <1>1, <1>6, <1>9, <1>13
<1> QED
  BY <1>5, <1>10, <1>14 DEF s

BitsAt(c, u) ==
    /\ c \in Seq(Bit) /\ Len(c) = 8 * Len(u)
    /\ \A i \in 1..Len(u) : \A j \in 1..8 : c[8 * (i - 1) + j] = BitsOf(u[i])[j]

LEMMA BitsAtAppend ==
    ASSUME NEW u \in Seq(Bytes), NEW b \in Bytes, NEW c, BitsAt(c, u)
    PROVE  BitsAt(c \o BitsOf(b), Append(u, b))
<1> DEFINE v == Append(u, b)
           d == BitsOf(b)
           k == Len(u)
           e == c \o d
<1>1. v \in Seq(Bytes) /\ Len(v) = k + 1 /\ v[k + 1] = b /\ k \in Nat /\ \A i \in 1..k : v[i] = u[i]
  OBVIOUS
<1>2. d \in Seq(Bit) /\ Len(d) = 8
  BY ByteBits
<1>3. c \in Seq(Bit) /\ Len(c) = 8 * k
  BY DEF BitsAt
<1> HIDE DEF v, d, k
<1>4. /\ e \in Seq(Bit) /\ Len(e) = Len(c) + Len(d) /\ \A i \in 1..Len(c) : e[i] = c[i]
      /\ \A i \in 1..Len(d) : e[Len(c) + i] = d[i]
  <2>1. c \in Seq(Bit) /\ d \in Seq(Bit)
    BY <1>2, <1>3
  <2> QED
    BY <2>1, ConcatAt
<1>5. /\ Len(e) = 8 * (k + 1) /\ \A i \in 1..(8 * k) : e[i] = c[i]
      /\ \A i \in 1..8 : e[8 * k + i] = d[i]
  <2>1. 8 * k + 8 = 8 * (k + 1)
    BY <1>1
  <2> QED
    BY <1>2, <1>3, <1>4, <2>1
<1> HIDE DEF e
<1>6. ASSUME NEW i \in 1..(k + 1), NEW j \in 1..8
      PROVE  e[8 * (i - 1) + j] = BitsOf(v[i])[j]
  <2>1. CASE i = k + 1
    <3>1. 8 * (i - 1) + j = 8 * k + j
      BY <1>1, <2>1
    <3>2. e[8 * k + j] = d[j] /\ v[i] = b
      BY <1>1, <1>5, <2>1
    <3> QED
      BY <3>1, <3>2 DEF d
  <2>2. CASE i # k + 1
    <3>1. i \in 1..k /\ 8 * (i - 1) + j \in 1..(8 * k)
      BY <1>1, <2>2
    <3>2. c[8 * (i - 1) + j] = BitsOf(u[i])[j]
      BY <3>1 DEF BitsAt, k
    <3>3. e[8 * (i - 1) + j] = c[8 * (i - 1) + j] /\ v[i] = u[i]
      BY <1>1, <1>5, <3>1
    <3> QED
      BY <3>2, <3>3
  <2> QED
    BY <2>1, <2>2
<1>7. BitsAt(e, v)
  BY <1>1, <1>4, <1>5, <1>6 DEF BitsAt
<1> QED
  BY <1>7 DEF e, v, d

LEMMA InputBitsAppend ==
    /\ InputBits(<< >>) = << >>
    /\ \A u \in Seq(Bytes) : \A b \in Bytes : InputBits(Append(u, b)) = InputBits(u) \o BitsOf(b)
<1> DEFINE H == [b \in Bytes |-> BitsOf(b)]
           F(u) == [i \in 1..Len(u) |-> H[u[i]]]
<1>1. \A b \in Bytes : H[b] = BitsOf(b) /\ H[b] \in Seq(Bit)
  BY ByteBits
<1>2. ASSUME NEW u \in Seq(Bytes)
      PROVE  InputBits(u) = Concat(F(u))
  <2>1. \A i \in 1..Len(u) : H[u[i]] = BitsOf(u[i])
    BY <1>1
  <2> QED
    BY <2>1 DEF InputBits
<1> HIDE DEF H
<1>3. ASSUME NEW u \in Seq(Bytes), NEW b \in Bytes
      PROVE  F(u) \in Seq(Seq(Bit)) /\ F(Append(u, b)) = Append(F(u), H[b])
  BY <1>1, MapAppend
<1>4. F(<< >>) = << >> /\ << >> \in Seq(Bytes)
  OBVIOUS
<1> HIDE DEF F
<1>5. InputBits(<< >>) = << >>
  BY <1>2, <1>4, ConcatAppend
<1>6. ASSUME NEW u \in Seq(Bytes), NEW b \in Bytes
      PROVE  InputBits(Append(u, b)) = InputBits(u) \o BitsOf(b)
  <2>1. Append(u, b) \in Seq(Bytes)
    OBVIOUS
  <2>2. Concat(Append(F(u), H[b])) = Concat(F(u)) \o H[b]
    BY <1>1, <1>3, ConcatAppend
  <2> QED
    BY <1>1, <1>2, <1>3, <2>1, <2>2
<1> QED
  BY <1>5, <1>6

LEMMA InputBitsAt ==
    ASSUME NEW input \in Seq(Bytes)
    PROVE  BitsAt(InputBits(input), input)
<1> DEFINE u(i) == SubSeq(input, 1, i)
           T == {i \in 0..Len(input) : BitsAt(InputBits(u(i)), u(i))}
<1>1. Len(input) \in Nat /\ u(Len(input)) = input /\ u(0) = << >>
  BY WholePrefix
<1>2. ASSUME NEW i \in 1..Len(input)
      PROVE  u(i - 1) \in Seq(Bytes) /\ input[i] \in Bytes /\ u(i) = Append(u(i - 1), input[i])
  BY PrefixStep
<1> HIDE DEF u
<1>3. BitsAt(<< >>, << >>)
  BY DEF BitsAt
<1>4. 0 \in T
  BY <1>1, <1>3, InputBitsAppend
<1>5. ASSUME NEW i \in 1..Len(input), i - 1 \in T
      PROVE  i \in T
  <2>1. BitsAt(InputBits(u(i - 1)), u(i - 1))
    BY <1>5
  <2>2. BitsAt(InputBits(u(i - 1)) \o BitsOf(input[i]), Append(u(i - 1), input[i]))
    BY <1>2, <2>1, BitsAtAppend
  <2>3. InputBits(u(i)) = InputBits(u(i - 1)) \o BitsOf(input[i])
    BY <1>2, InputBitsAppend
  <2>4. BitsAt(InputBits(u(i)), u(i))
    BY <1>2, <2>2, <2>3
  <2> QED
    BY <2>4
<1>6. Len(input) \in T
  <2> HIDE DEF T
  <2>1. 0..Len(input) \subseteq T
    BY <1>1, <1>4, <1>5, UpTo
  <2> QED
    BY <1>1, <2>1
<1> QED
  BY <1>1, <1>6

\* The walk over the tree.
WalkStates == [path : Seq(Bit), out : Seq(Alphabet), eos : BOOLEAN]
Root == [path |-> << >>, out |-> << >>, eos |-> FALSE]
WalkStep(w, b) == Walk(w, Append(w.path, b))
WalkRun(r, bits) ==
    /\ r \in [0..Len(bits) -> WalkStates] /\ r[0] = Root
    /\ \A i \in 1..Len(bits) : r[i] = WalkStep(r[i - 1], bits[i])

LEMMA SymbolIs ==
    ASSUME NEW a \in Alphabet
    PROVE  Symbol(HuffmanTable[a]) = a
  BY CodeAssumption DEF Symbol

\* One bit: past EOS, to EOS, to the leaf of a symbol, or to an internal node.
LEMMA WalkStepIs ==
    ASSUME NEW w \in WalkStates, NEW b \in Bit
    PROVE  /\ WalkStep(w, b) \in WalkStates
           /\ \/ w.eos /\ WalkStep(w, b).eos
              \/ Append(w.path, b) = Eos /\ WalkStep(w, b).eos
              \/ ~w.eos /\ \E a \in Alphabet :
                    /\ Append(w.path, b) = HuffmanTable[a]
                    /\ WalkStep(w, b) = [path |-> << >>, out |-> Append(w.out, a), eos |-> FALSE]
              \/ /\ ~w.eos /\ Append(w.path, b) \notin CodeWords
                 /\ WalkStep(w, b) = [path |-> Append(w.path, b), out |-> w.out, eos |-> FALSE]
<1> DEFINE p == Append(w.path, b)
           v == Walk(w, p)
<1>1. w.path \in Seq(Bit) /\ w.out \in Seq(Alphabet) /\ w.eos \in BOOLEAN
  BY DEF WalkStates
<1>2. p \in Seq(Bit)
  BY <1>1
<1> HIDE DEF p
<1>3. CASE w.eos
  BY <1>3 DEF Walk, WalkStep, p
<1>4. CASE ~w.eos /\ p = Eos
  <2>1. v = [w EXCEPT !.eos = TRUE]
    BY <1>4 DEF Walk, IsLeaf, CodeWords
  <2>2. v \in WalkStates /\ v.eos
    BY <1>1, <2>1 DEF WalkStates
  <2> QED
    BY <1>4, <2>2 DEF WalkStep, p
<1>5. CASE ~w.eos /\ p # Eos /\ p \in CodeWords
  <2>1. PICK a \in Alphabet : p = HuffmanTable[a]
    BY <1>5 DEF CodeWords
  <2>2. v = [w EXCEPT !.path = << >>, !.out = Append(@, Symbol(p))]
    BY <1>5 DEF Walk, IsLeaf
  <2>3. Symbol(p) = a
    BY <2>1, SymbolIs
  <2>4. v = [path |-> << >>, out |-> Append(w.out, a), eos |-> FALSE]
    BY <1>1, <1>5, <2>2, <2>3 DEF WalkStates
  <2>5. Append(w.out, a) \in Seq(Alphabet) /\ << >> \in Seq(Bit)
    BY <1>1
  <2>6. v \in WalkStates
    BY <2>4, <2>5 DEF WalkStates
  <2> QED
    BY <1>5, <2>1, <2>4, <2>6 DEF WalkStep, p
<1>6. CASE ~w.eos /\ p \notin CodeWords
  <2>1. p # Eos
    BY <1>6 DEF CodeWords
  <2>2. v = [w EXCEPT !.path = p]
    BY <1>6, <2>1 DEF Walk, IsLeaf
  <2>3. v = [path |-> p, out |-> w.out, eos |-> FALSE]
    BY <1>1, <1>6, <2>2 DEF WalkStates
  <2>4. v \in WalkStates
    BY <1>1, <1>2, <2>3 DEF WalkStates
  <2> QED
    BY <1>6, <2>3, <2>4 DEF WalkStep, p
<1> QED
  BY <1>1, <1>3, <1>4, <1>5, <1>6

LEMMA WalkRuns ==
    ASSUME NEW input \in Seq(Bytes)
    PROVE  \E r : /\ WalkRun(r, InputBits(input))
                  /\ HuffmanDecode(input) = WalkEnds(r[Len(InputBits(input))])
<1> DEFINE bits == InputBits(input)
           n == Len(bits)
           walk == CHOOSE s : s = [i \in 0..n |-> IF i = 0 THEN Root ELSE WalkStep(s[i - 1], bits[i])]
           g == [i \in 1..n |-> [x \in WalkStates |-> WalkStep(x, bits[i])]]
<1>1. bits \in Seq(Bit)
  BY InputBitsAt DEF BitsAt
<1>2. HuffmanDecode(input) = WalkEnds(walk[n])
  BY DEF HuffmanDecode, InputBits, WalkStep, Root
<1> HIDE DEF bits
<1>3. n \in Nat /\ \A i \in 1..n : bits[i] \in Bit
  <2>1. n \in Nat
    BY <1>1
  <2> QED
    BY <1>1, <2>1, ElementOfSeq
<1> HIDE DEF n
<1>4. Root \in WalkStates
  <2>1. << >> \in Seq(Bit) /\ << >> \in Seq(Alphabet)
    OBVIOUS
  <2> QED
    BY <2>1 DEF Root, WalkStates
<1>5. \A i \in 1..n : \A x \in WalkStates : WalkStep(x, bits[i]) \in WalkStates
  BY <1>3, WalkStepIs
<1>6. PICK r : IsRun(r, n, WalkStates, Root, g)
  <2>1. Steps(n, WalkStates, Root, g)
    BY <1>3, <1>4, <1>5 DEF Steps
  <2> HIDE DEF g
  <2> QED
    BY <2>1, Iterates
<1>7. /\ r \in [0..n -> WalkStates] /\ r[0] = Root
      /\ \A i \in 1..n : r[i] = WalkStep(r[i - 1], bits[i])
  BY <1>3, <1>6 DEF IsRun
<1>8. r = [i \in 0..n |-> IF i = 0 THEN Root ELSE WalkStep(r[i - 1], bits[i])]
  BY <1>3, <1>7
<1>9. walk = [i \in 0..n |-> IF i = 0 THEN Root ELSE WalkStep(walk[i - 1], bits[i])]
  BY <1>8
<1> HIDE DEF walk
<1>10. walk[n] = r[n]
  <2>1. Alike(walk, r, n)
    BY <1>3, <1>7, <1>9 DEF Alike
  <2>2. \A i \in 0..n : walk[i] = r[i]
    BY <2>1, Agree
  <2> QED
    BY <1>3, <2>2
<1> QED
  BY <1>2, <1>7, <1>10 DEF WalkRun, n, bits

\* What was read so far is spelt by the symbols found and the path since.
Spelt(w, bits) == ~w.eos => bits = CodeBits(w.out) \o w.path

LEMMA WalkSpells ==
    ASSUME NEW w \in WalkStates, NEW b \in Bit, NEW bits \in Seq(Bit), Spelt(w, bits)
    PROVE  Spelt(WalkStep(w, b), Append(bits, b))
<1> DEFINE v == WalkStep(w, b)
           p == Append(w.path, b)
<1>1. w.path \in Seq(Bit) /\ w.out \in Seq(Alphabet) /\ CodeBits(w.out) \in Seq(Bit)
  BY CodeBitsAppend DEF WalkStates
<1>2. ASSUME ~w.eos
      PROVE  Append(bits, b) = CodeBits(w.out) \o p
  <2>1. bits = CodeBits(w.out) \o w.path
    BY <1>2 DEF Spelt
  <2> DEFINE c == CodeBits(w.out)
  <2> HIDE DEF c
  <2>2. c \in Seq(Bit) /\ w.path \in Seq(Bit) /\ b \in Bit
    BY <1>1 DEF c
  <2>3. Append(c \o w.path, b) = c \o Append(w.path, b)
    BY <2>2, BitsAppendConcat
  <2> QED
    BY <2>1, <2>3 DEF c
<1>3. CASE v.eos
  BY <1>3 DEF Spelt
<1>4. CASE ~v.eos
  <2>1. \/ ~w.eos /\ \E a \in Alphabet :
             p = HuffmanTable[a] /\ v = [path |-> << >>, out |-> Append(w.out, a), eos |-> FALSE]
        \/ ~w.eos /\ v = [path |-> p, out |-> w.out, eos |-> FALSE]
    BY <1>4, WalkStepIs
  <2>2. CASE v = [path |-> p, out |-> w.out, eos |-> FALSE]
    <3>1. v.path = p /\ v.out = w.out /\ ~w.eos
      BY <2>1, <2>2
    <3>2. Append(bits, b) = CodeBits(v.out) \o v.path
      BY <1>2, <3>1
    <3> QED
      BY <3>2 DEF Spelt
  <2>3. ASSUME NEW a \in Alphabet, p = HuffmanTable[a],
               v = [path |-> << >>, out |-> Append(w.out, a), eos |-> FALSE]
        PROVE  Spelt(v, Append(bits, b))
    <3>1. v.path = << >> /\ v.out = Append(w.out, a)
      BY <2>3
    <3> HIDE DEF v, p
    <3>2. CodeBits(v.out) = CodeBits(w.out) \o p
      BY <1>1, <2>3, <3>1, CodeBitsAppend
    <3>3. CodeBits(v.out) \in Seq(Bit)
      <4>1. Append(w.out, a) \in Seq(Alphabet)
        BY <1>1
      <4> QED
        BY <3>1, <4>1, CodeBitsAppend
    <3>4. CodeBits(v.out) \o v.path = CodeBits(v.out)
      BY <3>1, <3>3, ConcatEmptySeq
    <3> QED
      BY <1>2, <2>1, <3>2, <3>4 DEF Spelt
  <2> QED
    BY <2>1, <2>2, <2>3
<1> QED
  BY <1>3, <1>4

LEMMA WalkReads ==
    ASSUME NEW bits \in Seq(Bit), NEW r, WalkRun(r, bits)
    PROVE  \A i \in 0..Len(bits) : Spelt(r[i], SubSeq(bits, 1, i))
<1> DEFINE u(i) == SubSeq(bits, 1, i)
           T == {i \in 0..Len(bits) : Spelt(r[i], u(i))}
<1>1. Len(bits) \in Nat /\ u(0) = << >>
  BY WholePrefix
<1>2. ASSUME NEW i \in 1..Len(bits)
      PROVE  u(i - 1) \in Seq(Bit) /\ bits[i] \in Bit /\ u(i) = Append(u(i - 1), bits[i])
  BY PrefixStep
<1> HIDE DEF u
<1>3. 0 \in T
  <2>1. r[0].out = << >> /\ r[0].path = << >>
    BY DEF WalkRun, Root
  <2>2. CodeBits(<< >>) \o << >> = << >>
    BY CodeBitsAppend
  <2>3. Spelt(r[0], u(0))
    BY <1>1, <2>1, <2>2 DEF Spelt
  <2> QED
    BY <1>1, <2>3
<1>4. ASSUME NEW i \in 1..Len(bits), i - 1 \in T
      PROVE  i \in T
  <2>1. r[i - 1] \in WalkStates /\ r[i] = WalkStep(r[i - 1], bits[i])
    BY <1>1 DEF WalkRun
  <2>2. Spelt(r[i - 1], u(i - 1))
    BY <1>4
  <2>3. Spelt(WalkStep(r[i - 1], bits[i]), Append(u(i - 1), bits[i]))
    BY <1>2, <2>1, <2>2, WalkSpells
  <2>4. Spelt(r[i], u(i))
    BY <1>2, <2>1, <2>3
  <2> QED
    BY <2>4
<1>5. 0..Len(bits) \subseteq T
  <2> HIDE DEF T
  <2> QED
    BY <1>1, <1>3, <1>4, UpTo
<1> QED
  BY <1>5 DEF u

\* An internal node on the way to EOS is as deep as its path is long.
LEMMA AllOnes ==
    ASSUME NEW path \in Seq(Bit), PrefixOfEos(path)
    PROVE  AllOnesDepth(path) = Len(path)
<1> DEFINE n == Len(path)
           d == [i \in 0..n |-> i]
           depth == CHOOSE s : s = [i \in 0..n |-> IF i = 0 THEN 0 ELSE IF path[i] = 1 THEN s[i - 1] + 1 ELSE 0]
<1>1. n \in Nat /\ \A i \in 1..n : path[i] = 1
  BY DEF PrefixOfEos
<1>2. AllOnesDepth(path) = depth[n]
  BY DEF AllOnesDepth
<1>3. d = [i \in 0..n |-> IF i = 0 THEN 0 ELSE IF path[i] = 1 THEN d[i - 1] + 1 ELSE 0]
  BY <1>1
<1>4. depth = [i \in 0..n |-> IF i = 0 THEN 0 ELSE IF path[i] = 1 THEN depth[i - 1] + 1 ELSE 0]
  <2> HIDE DEF d
  <2> QED
    BY <1>3
<1> HIDE DEF depth
<1>5. Alike(depth, d, n)
  BY <1>1, <1>4 DEF Alike
<1>6. \A i \in 0..n : depth[i] = d[i]
  <2> HIDE DEF n, d
  <2> QED
    BY <1>5, Agree
<1> QED
  BY <1>1, <1>2, <1>6

HuffmanResults == [error : {"none", "eos_in_stream", "bad_padding"}, out : Seq(Alphabet)]

\* What decode returns: on success, symbols that spell the input but for fewer
\* than eight ones.
LEMMA HuffmanReads ==
    ASSUME NEW input \in Seq(Bytes)
    PROVE  /\ HuffmanDecode(input) \in HuffmanResults
           /\ HuffmanDecode(input).error = "none" =>
                \E m \in 0..7 : InputBits(input) = CodeBits(HuffmanDecode(input).out) \o Ones(m)
<1> DEFINE bits == InputBits(input)
           n == Len(bits)
<1>1. PICK r : WalkRun(r, bits) /\ HuffmanDecode(input) = WalkEnds(r[n])
  BY WalkRuns
<1>2. bits \in Seq(Bit) /\ n \in Nat
  BY InputBitsAt DEF BitsAt
<1> HIDE DEF bits
<1> DEFINE w == r[n]
<1>3. w \in WalkStates /\ Spelt(w, bits)
  <2>1. n \in 0..n /\ SubSeq(bits, 1, n) = bits
    BY <1>2, WholePrefix
  <2>2. Spelt(r[n], SubSeq(bits, 1, n))
    BY <1>1, <1>2, <2>1, WalkReads
  <2> QED
    BY <1>1, <2>1, <2>2 DEF WalkRun
<1> HIDE DEF w
<1>4. w.path \in Seq(Bit) /\ w.out \in Seq(Alphabet) /\ w.eos \in BOOLEAN /\ << >> \in Seq(Alphabet)
  BY <1>3 DEF WalkStates
<1>5. WalkEnds(w) \in HuffmanResults
  BY <1>4 DEF WalkEnds, HuffmanResults
<1>6. ASSUME WalkEnds(w).error = "none"
      PROVE  \E m \in 0..7 : bits = CodeBits(WalkEnds(w).out) \o Ones(m)
  <2>1. ~w.eos /\ GoodPadding(w.path) /\ WalkEnds(w).out = w.out
    BY <1>4, <1>6 DEF WalkEnds
  <2>2. bits = CodeBits(w.out) \o w.path
    BY <1>3, <2>1 DEF Spelt
  <2>3. Len(w.path) \in 0..7 /\ \A i \in 1..Len(w.path) : w.path[i] = 1
    <3>1. CASE w.path = << >>
      BY <3>1
    <3>2. CASE w.path # << >>
      <4>1. AllOnesDepth(w.path) <= 7 /\ PrefixOfEos(w.path)
        BY <2>1, <3>2 DEF GoodPadding
      <4>2. AllOnesDepth(w.path) = Len(w.path)
        BY <1>4, <4>1, AllOnes
      <4>3. Len(w.path) \in Nat
        BY <1>4
      <4>4. Len(w.path) \in 0..7
        <5>1. Len(w.path) <= 7
          BY <4>1, <4>2, Zenon
        <5> DEFINE l == Len(w.path)
        <5> HIDE DEF l
        <5>2. l \in Nat /\ l <= 7
          BY <4>3, <5>1 DEF l
        <5>3. l \in 0..7
          BY <5>2
        <5> QED
          BY <5>3 DEF l
      <4>5. \A i \in 1..Len(w.path) : w.path[i] = 1
        BY <4>1 DEF PrefixOfEos
      <4> QED
        BY <4>4, <4>5
    <3> QED
      BY <3>1, <3>2
  <2>4. w.path = Ones(Len(w.path))
    BY <1>4, <2>3 DEF Ones
  <2> QED
    BY <2>1, <2>2, <2>3, <2>4
<1> QED
  BY <1>1, <1>5, <1>6 DEF w, bits

LEMMA WholeBytes ==
    ASSUME NEW k \in Nat, NEW l \in Nat, NEW m \in 0..7, 8 * k = l + m
    PROVE  (l + 7) \div 8 = k /\ 8 * k - l = m
  OBVIOUS

\* A string of whole bytes is what encode gives for symbols that spell it.
LEMMA EncodeGives ==
    ASSUME NEW input \in Seq(Bytes), NEW o \in Seq(Alphabet), NEW m \in 0..7,
           InputBits(input) = CodeBits(o) \o Ones(m)
    PROVE  HuffmanEncode(o) = input
<1> DEFINE bits == InputBits(input)
           c == CodeBits(o)
           k == Len(input)
<1>1. k \in Nat /\ c \in Seq(Bit) /\ BitsAt(bits, input)
  <2>1. BitsAt(bits, input)
    BY InputBitsAt
  <2>2. c \in Seq(Bit)
    BY CodeBitsAppend
  <2> QED
    BY <2>1, <2>2
<1>2. Ones(m) \in Seq(Bit) /\ Len(Ones(m)) = m
  BY DEF Ones, Bit
<1>3. Len(bits) = Len(c) + m /\ Len(c) \in Nat
  <2>1. c \in Seq(Bit) /\ Ones(m) \in Seq(Bit)
    BY <1>1, <1>2
  <2> HIDE DEF c
  <2>2. Len(c \o Ones(m)) = Len(c) + Len(Ones(m)) /\ Len(c) \in Nat
    BY <2>1, ConcatAt
  <2> QED
    BY <1>2, <2>2 DEF c
<1>4. Len(bits) = 8 * k /\ bits \in Seq(Bit)
  BY <1>1 DEF BitsAt
<1>5. EncodedLen(o) = k
  <2>1. EncodedLen(o) = (Len(c) + 7) \div 8
    BY EncodedLength
  <2> HIDE DEF bits, c, k
  <2> QED
    BY <1>1, <1>3, <1>4, <2>1, WholeBytes
<1>6. 8 * EncodedLen(o) - Len(c) = m
  <2> HIDE DEF bits, c, k
  <2> QED
    BY <1>1, <1>3, <1>4, <1>5, WholeBytes, ZenonT(40)
<1>7. HuffmanEncode(o) = [i \in 1..k |-> ByteOf(SubSeq(bits, 8 * i - 7, 8 * i))]
  <2>1. HuffmanEncode(o) = [i \in 1..EncodedLen(o) |->
            ByteOf(SubSeq(c \o Ones(8 * EncodedLen(o) - Len(c)), 8 * i - 7, 8 * i))]
    BY DEF HuffmanEncode
  <2> HIDE DEF bits, c, k
  <2>2. c \o Ones(m) = bits
    BY DEF bits, c
  <2> QED
    BY <1>5, <1>6, <2>1, <2>2
<1> HIDE DEF bits, c, k
<1>8. ASSUME NEW i \in 1..k
      PROVE  ByteOf(SubSeq(bits, 8 * i - 7, 8 * i)) = input[i]
  <2> DEFINE s == SubSeq(bits, 8 * i - 7, 8 * i)
             t == BitsOf(input[i])
  <2>1. 8 * i - 7 \in 1..Len(bits) /\ 8 * i \in 1..Len(bits) /\ 8 * i - (8 * i - 7) + 1 = 8
    BY <1>1, <1>4
  <2>2. s \in Seq(Bit) /\ Len(s) = 8 /\ \A j \in 1..8 : s[j] = bits[(8 * i - 7) + j - 1]
    BY <1>4, <2>1
  <2>3. input[i] \in Bytes
    BY DEF k
  <2>4. t \in Seq(Bit) /\ Len(t) = 8 /\ ByteOf(t) = input[i]
    BY <2>3, ByteBits
  <2>5. \A j \in 1..8 : (8 * i - 7) + j - 1 = 8 * (i - 1) + j
    BY <1>1
  <2>6. \A j \in 1..8 : bits[8 * (i - 1) + j] = t[j]
    BY <1>1 DEF BitsAt, k
  <2> HIDE DEF s, t
  <2>7. s = t
    <3>1. \A j \in 1..8 : s[j] = t[j]
      BY <2>2, <2>5, <2>6
    <3> QED
      BY <2>2, <2>4, <3>1, SeqEqual
  <2> QED
    BY <2>4, <2>7 DEF s
<1>9. input = [i \in 1..k |-> input[i]]
  BY DEF k
<1> QED
  BY <1>7, <1>8, <1>9

-----------------------------------------------------------------------------
(* Integers.                                                               *)

LEMMA BytesAre ==
    ASSUME NEW buf \in Seq(Bytes)
    PROVE  /\ Len(buf) \in Nat /\ \A i \in 1..Len(buf) : buf[i] \in Bytes /\ buf[i] \in Nat
           /\ \A i \in 1..Len(buf) : buf[i] <= 255 /\ buf[i] % 128 \in 0..127
<1>1. Len(buf) \in Nat /\ \A i \in 1..Len(buf) : buf[i] \in Bytes
  BY ElementOfSeq
<1>2. \A b \in Bytes : b \in Nat /\ b <= 255 /\ b % 128 \in 0..127
  BY DEF Bytes
<1> QED
  BY <1>1, <1>2

\* The place of the group that ends the integer at pos, 0 if there is none.
FinalAt(buf, pos) == SelectInSubSeq(buf, pos + 1, Len(buf), LAMBDA b : b < 128)

LEMMA Least ==
    ASSUME NEW S, S \subseteq Nat, S # {}
    PROVE  Min(S) \in S /\ \A j \in S : Min(S) <= j
<1>1. IsWellFoundedOn(OpToRel(<, Nat), Nat)
  BY NatLessThanWellFounded
<1>2. PICK k \in S : \A j \in S : ~(<<j, k>> \in OpToRel(<, Nat))
  BY <1>1, WFMin
<1>3. \A j \in S : k <= j
  <2>1. ASSUME NEW j \in S
        PROVE  k <= j
    <3>1. j \in Nat /\ k \in Nat
      BY <1>2
    <3>2. ~(j < k)
      BY <1>2, <3>1 DEF OpToRel
    <3> QED
      BY <3>1, <3>2
  <2> QED
    BY <2>1
<1> QED
  BY <1>3 DEF Min

LEMMA FinalIs ==
    ASSUME NEW buf \in Seq(Bytes), NEW pos \in Nat
    PROVE  \/ FinalAt(buf, pos) = 0 /\ \A i \in (pos + 1)..Len(buf) : buf[i] >= 128
           \/ /\ FinalAt(buf, pos) \in (pos + 1)..Len(buf) /\ buf[FinalAt(buf, pos)] < 128
              /\ \A i \in (pos + 1)..(FinalAt(buf, pos) - 1) : buf[i] >= 128
<1> DEFINE I == {i \in (pos + 1)..Len(buf) : buf[i] < 128}
<1>1. Len(buf) \in Nat /\ \A i \in (pos + 1)..Len(buf) : i \in Nat /\ buf[i] \in Nat
  BY BytesAre
<1>2. FinalAt(buf, pos) = IF I # {} THEN Min(I) ELSE 0
  BY DEF FinalAt, SelectInSubSeq
<1>3. CASE I = {}
  BY <1>1, <1>2, <1>3
<1>4. CASE I # {}
  <2> DEFINE m == Min(I)
  <2>1. FinalAt(buf, pos) = m
    BY <1>2, <1>4
  <2>2. I \subseteq Nat
    BY <1>1
  <2>3. m \in I /\ \A j \in I : m <= j
    <3> HIDE DEF I
    <3> QED
      BY <1>4, <2>2, Least
  <2> HIDE DEF m
  <2>4. m \in (pos + 1)..Len(buf) /\ buf[m] < 128
    BY <2>3
  <2>5. ASSUME NEW i \in (pos + 1)..(m - 1)
        PROVE  buf[i] >= 128
    <3>1. i \in (pos + 1)..Len(buf) /\ i < m
      BY <1>1, <2>4
    <3>2. i \notin I
      BY <2>3, <2>4, <3>1
    <3> QED
      BY <1>1, <3>1, <3>2
  <2> QED
    BY <2>1, <2>4, <2>5
<1> QED
  BY <1>3, <1>4

\* One more group.
Totals == [ok : BOOLEAN, v : Nat]
Shifted(b, shift) == ((b % 128) * 2 ^ shift) % 2 ^ Width
Plus(total, b, shift) ==
    IF ~total.ok \/ ShiftRefused(shift) THEN [ok |-> FALSE, v |-> 0]
    ELSE [ok |-> total.v + Shifted(b, shift) < 2 ^ Width, v |-> total.v + Shifted(b, shift)]
Start(full) == [ok |-> TRUE, v |-> full]
ValueRun(r, buf, pos, full) ==
    /\ r \in [0..(Len(buf) - pos) -> Totals] /\ r[0] = Start(full)
    /\ \A k \in 1..(Len(buf) - pos) : r[k] = Plus(r[k - 1], buf[pos + k], 7 * (k - 1))

LEMMA Modulo ==
    ASSUME NEW x \in Nat, NEW m \in Nat, m > 0
    PROVE  /\ x % m \in Nat /\ x % m < m /\ x \div m \in Nat /\ x = m * (x \div m) + (x % m)
           /\ (x < m => x % m = x)
  OBVIOUS

LEMMA PlusIs ==
    ASSUME NEW total \in Totals, NEW b \in Bytes, NEW shift \in Nat
    PROVE  Shifted(b, shift) \in Nat /\ Plus(total, b, shift) \in Totals
<1>1. 2 ^ shift \in Nat /\ 2 ^ Width \in Nat /\ 2 ^ Width > 0
  BY SizesAssumption, Doubling
<1>2. b % 128 \in Nat
  BY DEF Bytes
<1>3. (b % 128) * 2 ^ shift \in Nat
  BY <1>1, <1>2
<1> DEFINE x == (b % 128) * 2 ^ shift
           m == 2 ^ Width
<1>4. x % m \in Nat
  <2> HIDE DEF x, m
  <2>1. x \in Nat /\ m \in Nat /\ m > 0
    BY <1>1, <1>3 DEF x, m
  <2> QED
    BY <2>1, Modulo
<1>5. Shifted(b, shift) \in Nat
  BY <1>4 DEF Shifted
<1> DEFINE t == total.v + Shifted(b, shift)
<1>6. t \in Nat
  BY <1>5 DEF Totals
<1> HIDE DEF t
<1>7. Plus(total, b, shift) = IF ~total.ok \/ ShiftRefused(shift) THEN [ok |-> FALSE, v |-> 0]
                              ELSE [ok |-> t < 2 ^ Width, v |-> t]
  BY DEF Plus, t
<1>8. [ok |-> FALSE, v |-> 0] \in Totals /\ [ok |-> t < 2 ^ Width, v |-> t] \in Totals
  <2>1. (t < 2 ^ Width) \in BOOLEAN
    BY <1>1, <1>6
  <2> QED
    BY <1>6, <2>1 DEF Totals
<1> QED
  BY <1>5, <1>7, <1>8, Zenon

LEMMA ValueRuns ==
    ASSUME NEW buf \in Seq(Bytes), NEW pos \in 1..Len(buf), NEW full \in Nat, NEW final
    PROVE  \E r : /\ ValueRun(r, buf, pos, full)
                  /\ Continued(buf, pos, full, final)
                       = Settled(r[IF final = 0 THEN Len(buf) - pos ELSE final - pos], final, pos)
<1> DEFINE n == Len(buf) - pos
           end == IF final = 0 THEN n ELSE final - pos
           a == Start(full)
           Then(x, k) == Plus(x, buf[pos + k], 7 * (k - 1))
           value == CHOOSE s : s = [k \in 0..n |-> IF k = 0 THEN a ELSE Then(s[k - 1], k)]
           g == [k \in 1..n |-> [x \in Totals |-> Then(x, k)]]
<1>1. n \in Nat /\ \A k \in 1..n : buf[pos + k] \in Bytes /\ 7 * (k - 1) \in Nat
  BY BytesAre
<1>2. Continued(buf, pos, full, final) = Settled(value[end], final, pos)
  BY DEF Continued, Plus, Start, Shifted
<1>3. \A k \in 1..n : \A x \in Totals : Then(x, k) \in Totals
  BY <1>1, PlusIs
<1> HIDE DEF n, Then
<1>4. a \in Totals
  BY DEF Start, Totals
<1> HIDE DEF a
<1>5. PICK r : IsRun(r, n, Totals, a, g)
  <2>1. Steps(n, Totals, a, g)
    BY <1>1, <1>3, <1>4 DEF Steps
  <2> HIDE DEF g
  <2> QED
    BY <2>1, Iterates
<1>6. r \in [0..n -> Totals] /\ r[0] = a /\ \A k \in 1..n : r[k] = Then(r[k - 1], k)
  BY <1>1, <1>5 DEF IsRun
<1>7. r = [k \in 0..n |-> IF k = 0 THEN a ELSE Then(r[k - 1], k)]
  BY <1>1, <1>6
<1>8. value = [k \in 0..n |-> IF k = 0 THEN a ELSE Then(value[k - 1], k)]
  BY <1>7
<1> HIDE DEF value
<1>9. r = value
  <2>1. Alike(value, r, n)
    BY <1>1, <1>6, <1>8 DEF Alike
  <2>2. \A k \in 0..n : value[k] = r[k]
    BY <2>1, Agree
  <2> QED
    BY <1>6, <1>8, <2>2
<1>10. ValueRun(r, buf, pos, full)
  BY <1>6 DEF ValueRun, n, a, Then
<1> QED
  BY <1>2, <1>9, <1>10 DEF n

IntegerResults == [error : {"none", "unexpected_eof", "integer_overflow"}, v : Nat, pos : Nat]

LEMMA PrefixBits ==
    ASSUME NEW n \in Nat, NEW b \in Nat
    PROVE  2 ^ n \in Nat /\ 2 ^ n - 1 \in Nat /\ b % 2 ^ n \in Nat
<1> DEFINE m == 2 ^ n
<1>1. m \in Nat /\ m > 0
  BY Doubling
<1> HIDE DEF m
<1>2. b % m \in Nat /\ m - 1 \in Nat
  BY <1>1, Modulo
<1> QED
  BY <1>1, <1>2 DEF m

\* What a full prefix is followed by.
ContinuedMeans(buf, pos, full) ==
    LET final == FinalAt(buf, pos)
        read == Continued(buf, pos, full, final)
    IN  /\ read \in IntegerResults
        /\ read.error = "none" => final # 0 /\ read.pos = final + 1
        /\ (final # 0 /\ read.error # "none") => read.error = "integer_overflow"
        /\ final # 0 => \E r : /\ ValueRun(r, buf, pos, full)
                               /\ (read.error = "none" <=> r[final - pos].ok)
                               /\ read.error = "none" => read.v = r[final - pos].v

LEMMA ContinuedIs ==
    ASSUME NEW buf \in Seq(Bytes), NEW pos \in 1..Len(buf), NEW full \in Nat
    PROVE  ContinuedMeans(buf, pos, full)
<1> DEFINE final == FinalAt(buf, pos)
           read == Continued(buf, pos, full, final)
           end == IF final = 0 THEN Len(buf) - pos ELSE final - pos
<1>1. PICK r : ValueRun(r, buf, pos, full) /\ read = Settled(r[end], final, pos)
  BY ValueRuns
<1>2. final = 0 \/ final \in (pos + 1)..Len(buf)
  BY FinalIs
<1>3. Len(buf) \in Nat
  BY BytesAre
<1> HIDE DEF final, read
<1>4. end \in 0..(Len(buf) - pos)
  BY <1>2, <1>3
<1> HIDE DEF end
<1>5. r[end] \in Totals
  BY <1>1, <1>4 DEF ValueRun
<1> DEFINE t == r[end]
<1>6. t.ok \in BOOLEAN /\ t.v \in Nat
  BY <1>5 DEF Totals
<1> HIDE DEF t
<1>7. read = Settled(t, final, pos)
  BY <1>1 DEF t
<1>8. CASE ~t.ok
  <2>1. read = [error |-> "integer_overflow", v |-> 0, pos |-> pos]
    BY <1>7, <1>8 DEF Settled, Stuck
  <2>2. pos \in Nat
    BY <1>3
  <2>3. read \in IntegerResults /\ read.error = "integer_overflow" /\ read.error # "none"
    BY <2>1, <2>2 DEF IntegerResults
  <2>4. final # 0 => ~r[final - pos].ok
    BY <1>8 DEF t, end
  <2> QED
    BY <1>1, <2>3, <2>4 DEF final, read, ContinuedMeans
<1>9. CASE t.ok /\ final = 0
  <2>1. read = [error |-> "unexpected_eof", v |-> 0, pos |-> pos]
    BY <1>7, <1>9 DEF Settled, Stuck
  <2>2. pos \in Nat
    BY <1>3
  <2>3. read \in IntegerResults /\ read.error # "none"
    BY <2>1, <2>2 DEF IntegerResults
  <2> QED
    BY <1>9, <2>3 DEF final, read, ContinuedMeans
<1>10. CASE t.ok /\ final # 0
  <2>1. read = [error |-> "none", v |-> t.v, pos |-> final + 1]
    BY <1>7, <1>10 DEF Settled
  <2>2. final + 1 \in Nat
    BY <1>2, <1>3, <1>10
  <2>3. read \in IntegerResults /\ read.error = "none" /\ read.v = t.v /\ read.pos = final + 1
    BY <1>6, <2>1, <2>2 DEF IntegerResults
  <2>4. end = final - pos
    BY <1>10 DEF end
  <2> QED
    BY <1>1, <1>10, <2>3, <2>4 DEF final, read, ContinuedMeans, t
<1> QED
  BY <1>6, <1>8, <1>9, <1>10

LEMMA ReadIntegerIs ==
    ASSUME NEW buf \in Seq(Bytes), NEW pos \in Nat, pos >= 1, NEW n \in Nat
    PROVE  LET read == ReadInteger(buf, pos, n)
           IN  /\ read \in IntegerResults
               /\ read.error = "none" => pos <= Len(buf) /\ read.pos \in (pos + 1)..(Len(buf) + 1)
<1> DEFINE read == ReadInteger(buf, pos, n)
<1>1. Len(buf) \in Nat
  BY BytesAre
<1>2. CASE pos > Len(buf)
  <2>1. read = [error |-> "unexpected_eof", v |-> 0, pos |-> pos]
    BY <1>2 DEF ReadInteger, Stuck
  <2> HIDE DEF read
  <2>2. read \in IntegerResults /\ read.error # "none"
    BY <2>1 DEF IntegerResults
  <2> QED
    BY <2>2 DEF read
<1>3. CASE pos <= Len(buf)
  <2>1. pos \in 1..Len(buf) /\ ~(pos > Len(buf))
    BY <1>1, <1>3
  <2>2. buf[pos] \in Nat
    BY <2>1, BytesAre
  <2>3. 2 ^ n - 1 \in Nat /\ buf[pos] % 2 ^ n \in Nat
    BY <2>2, PrefixBits
  <2>4. CASE buf[pos] % 2 ^ n < 2 ^ n - 1
    <3>1. read = [error |-> "none", v |-> buf[pos] % 2 ^ n, pos |-> pos + 1]
      BY <2>1, <2>4 DEF ReadInteger
    <3> DEFINE v == buf[pos] % 2 ^ n
    <3> HIDE DEF v
    <3>2. read = [error |-> "none", v |-> v, pos |-> pos + 1] /\ v \in Nat
      BY <2>3, <3>1 DEF v
    <3>3. read.pos = pos + 1 /\ pos + 1 \in Nat
      BY <3>2
    <3>4. read \in IntegerResults
      BY <3>2, <3>3 DEF IntegerResults
    <3> QED
      BY <1>1, <1>3, <3>3, <3>4
  <2>5. CASE ~(buf[pos] % 2 ^ n < 2 ^ n - 1)
    <3>1. read = Continued(buf, pos, 2 ^ n - 1, FinalAt(buf, pos))
      BY <2>1, <2>5 DEF ReadInteger, FinalAt
    <3> DEFINE final == FinalAt(buf, pos)
    <3>2. /\ read \in IntegerResults
          /\ read.error = "none" => final # 0 /\ read.pos = final + 1
      BY <2>1, <2>3, <3>1, ContinuedIs DEF ContinuedMeans
    <3>3. final = 0 \/ final \in (pos + 1)..Len(buf)
      BY FinalIs
    <3> HIDE DEF final, read
    <3>4. read.error = "none" => read.pos \in (pos + 1)..(Len(buf) + 1)
      BY <1>1, <3>2, <3>3
    <3> QED
      BY <1>3, <3>2, <3>4 DEF read
  <2> QED
    BY <2>4, <2>5
<1> QED
  BY <1>1, <1>2, <1>3

\* The same bytes, and perhaps more of them.
Extends(long, short) ==
    /\ long \in Seq(Bytes) /\ short \in Seq(Bytes) /\ Len(short) <= Len(long)
    /\ \A i \in 1..Len(short) : long[i] = short[i]

\* An integer that was read stays what it is when bytes follow.
LEMMA IntegerStable ==
    ASSUME NEW long, NEW short, Extends(long, short), NEW pos \in Nat, pos >= 1, NEW n \in Nat,
           ReadInteger(short, pos, n).error = "none"
    PROVE  ReadInteger(long, pos, n) = ReadInteger(short, pos, n)
<1>1. long \in Seq(Bytes) /\ short \in Seq(Bytes) /\ \A i \in 1..Len(short) : long[i] = short[i]
  BY DEF Extends
<1>2. Len(long) \in Nat /\ Len(short) \in Nat /\ Len(short) <= Len(long)
  BY <1>1, BytesAre DEF Extends
<1>3. pos <= Len(short)
  BY <1>1, ReadIntegerIs
<1>4. pos \in 1..Len(short) /\ pos \in 1..Len(long) /\ ~(pos > Len(short)) /\ ~(pos > Len(long))
      /\ long[pos] = short[pos]
  BY <1>1, <1>2, <1>3
<1>5. CASE short[pos] % 2 ^ n < 2 ^ n - 1
  BY <1>4, <1>5 DEF ReadInteger
<1>6. CASE ~(short[pos] % 2 ^ n < 2 ^ n - 1)
  <2> DEFINE full == 2 ^ n - 1
             f == FinalAt(short, pos)
             g == FinalAt(long, pos)
  <2>1. /\ ReadInteger(short, pos, n) = Continued(short, pos, full, f)
        /\ ReadInteger(long, pos, n) = Continued(long, pos, full, g)
    BY <1>4, <1>6 DEF ReadInteger, FinalAt
  <2>2. full \in Nat
    BY PrefixBits
  <2> HIDE DEF full
  <2>3. f # 0
    BY <1>1, <1>4, <2>1, <2>2, ContinuedIs DEF ContinuedMeans
  <2>4. f \in (pos + 1)..Len(short) /\ short[f] < 128 /\ \A i \in (pos + 1)..(f - 1) : short[i] >= 128
    BY <1>1, <2>3, FinalIs
  <2>5. \/ g = 0 /\ \A i \in (pos + 1)..Len(long) : long[i] >= 128
        \/ /\ g \in (pos + 1)..Len(long) /\ long[g] < 128
           /\ \A i \in (pos + 1)..(g - 1) : long[i] >= 128
    BY <1>1, FinalIs
  <2> HIDE DEF f, g
  <2>6. f \in (pos + 1)..Len(long) /\ f \in 1..Len(short) /\ long[f] = short[f] /\ short[f] \in Nat
    BY <1>1, <1>2, <2>4, BytesAre
  <2>7. g # 0
    BY <2>4, <2>5, <2>6
  <2>8. ~(g > f)
    BY <1>2, <2>4, <2>5, <2>6, <2>7
  <2>9. ~(g < f)
    <3> SUFFICES ASSUME g < f
                 PROVE  FALSE
      OBVIOUS
    <3>1. g \in (pos + 1)..(f - 1) /\ g \in 1..Len(short)
      BY <1>2, <2>4, <2>5, <2>7
    <3>2. short[g] >= 128 /\ long[g] = short[g] /\ long[g] < 128 /\ short[g] \in Nat
      BY <1>1, <2>4, <2>5, <2>7, <3>1, BytesAre
    <3> QED
      BY <3>2
  <2>10. g = f
    BY <1>2, <2>4, <2>5, <2>7, <2>8, <2>9
  <2>11. PICK r : ValueRun(r, short, pos, full)
                  /\ Continued(short, pos, full, f) = Settled(r[f - pos], f, pos)
    BY <1>1, <1>4, <2>2, <2>3, ValueRuns
  <2>12. PICK q : ValueRun(q, long, pos, full)
                  /\ Continued(long, pos, full, f) = Settled(q[f - pos], f, pos)
    BY <1>1, <1>4, <2>2, <2>3, ValueRuns
  <2>13. Alike(q, r, f - pos)
    <3>1. f - pos \in Nat
      BY <1>2, <2>4
    <3>2. ASSUME NEW k \in 1..(f - pos), q[k - 1] = r[k - 1]
          PROVE  q[k] = r[k]
      <4>1. /\ k \in 1..(Len(short) - pos) /\ k \in 1..(Len(long) - pos)
            /\ pos + k \in 1..Len(short)
        BY <1>2, <2>4
      <4>2. long[pos + k] = short[pos + k]
        BY <1>1, <4>1
      <4>3. q[k] = Plus(q[k - 1], long[pos + k], 7 * (k - 1))
            /\ r[k] = Plus(r[k - 1], short[pos + k], 7 * (k - 1))
        BY <2>11, <2>12, <4>1 DEF ValueRun
      <4> QED
        BY <3>2, <4>2, <4>3
    <3>3. q[0] = r[0]
      BY <2>11, <2>12 DEF ValueRun
    <3> QED
      BY <3>1, <3>2, <3>3 DEF Alike
  <2>14. q[f - pos] = r[f - pos]
    <3>1. \A k \in 0..(f - pos) : q[k] = r[k]
      BY <2>13, Agree
    <3>2. f - pos \in 0..(f - pos)
      BY <1>2, <2>4
    <3> QED
      BY <3>1, <3>2
  <2> QED
    BY <2>1, <2>10, <2>11, <2>12, <2>14 DEF f, g
<1> QED
  BY <1>5, <1>6

\* What the groups of an integer add up to.
Sums(D, buf, pos, full, K) ==
    /\ D \in [0..K -> Nat] /\ D[0] = full
    /\ \A k \in 1..K : D[k] = D[k - 1] + (buf[pos + k] % 128) * 2 ^ (7 * (k - 1))

LEMMA ModUnique ==
    ASSUME NEW m \in Nat, NEW q \in Int, NEW v \in Nat, v < m
    PROVE  (m * q + v) % m = v
  OBVIOUS

LEMMA ModAdd ==
    ASSUME NEW m \in Nat, m > 0, NEW d \in Nat, NEW x \in Nat, (d % m) + (x % m) < m
    PROVE  (d + x) % m = (d % m) + (x % m)
<1> DEFINE v == (d % m) + (x % m)
           q == (d \div m) + (x \div m)
<1>1. d = m * (d \div m) + (d % m) /\ d \div m \in Nat /\ d % m \in Nat
  BY Modulo
<1>2. x = m * (x \div m) + (x % m) /\ x \div m \in Nat /\ x % m \in Nat
  BY Modulo
<1>3. m * (d \div m) + m * (x \div m) = m * q
  BY <1>1, <1>2
<1>4. v \in Nat /\ v < m /\ q \in Int
  BY <1>1, <1>2
<1>5. d + x = m * q + v
  <2> DEFINE a == m * (d \div m)
             b == m * (x \div m)
  <2>1. a \in Int /\ b \in Int
    BY <1>1, <1>2
  <2> HIDE DEF a, b
  <2>2. d = a + (d % m) /\ x = b + (x % m) /\ a + b = m * q
    BY <1>1, <1>2, <1>3 DEF a, b
  <2> HIDE DEF q
  <2> QED
    BY <1>1, <1>2, <2>1, <2>2
<1> HIDE DEF v, q
<1>6. (m * q + v) % m = v
  BY <1>4, ModUnique
<1> QED
  BY <1>5, <1>6 DEF v

Adds(r, D, k, x, m) ==
    /\ D[k - 1] \in Nat /\ D[k] = D[k - 1] + x
    /\ r[k].ok <=> (r[k - 1].ok /\ 7 * (k - 1) < Width /\ r[k - 1].v + (x % m) < m)
    /\ r[k].ok => r[k].v = r[k - 1].v + (x % m)

LEMMA SumStep ==
    ASSUME NEW D, NEW buf \in Seq(Bytes), NEW pos \in 1..Len(buf), NEW full \in Nat,
           NEW K \in 0..(Len(buf) - pos), Sums(D, buf, pos, full, K),
           NEW r, ValueRun(r, buf, pos, full), NEW k \in 1..K
    PROVE  \E x \in Nat : Adds(r, D, k, x, 2 ^ Width)
<1> DEFINE b == buf[pos + k]
           x == (b % 128) * 2 ^ (7 * (k - 1))
<1>1. /\ Len(buf) \in Nat /\ k - 1 \in 0..K /\ k \in 1..(Len(buf) - pos) /\ 7 * (k - 1) \in Nat
      /\ k - 1 \in 0..(Len(buf) - pos) /\ pos + k \in 1..Len(buf)
  BY BytesAre
<1>2. b \in Nat /\ b % 128 \in Nat /\ 2 ^ (7 * (k - 1)) \in Nat
  BY <1>1, BytesAre, Doubling
<1>3. x \in Nat
  BY <1>2
<1>4. 2 ^ Width \in Nat /\ 2 ^ Width > 0
  BY Doubling, SizesAssumption
<1>5. D[k - 1] \in Nat /\ D[k] = D[k - 1] + x
  BY <1>1 DEF Sums
<1>6. r[k - 1] \in Totals /\ r[k] = Plus(r[k - 1], b, 7 * (k - 1))
  BY <1>1 DEF ValueRun
<1>7. Shifted(b, 7 * (k - 1)) = x % 2 ^ Width
  BY DEF Shifted
<1> HIDE DEF b, x
<1> DEFINE t == r[k - 1].v + (x % 2 ^ Width)
<1>8. r[k] = IF ~r[k - 1].ok \/ 7 * (k - 1) >= Width THEN [ok |-> FALSE, v |-> 0]
             ELSE [ok |-> t < 2 ^ Width, v |-> t]
  BY <1>6, <1>7 DEF Plus, ShiftRefused
<1> HIDE DEF t
<1>9. 7 * (k - 1) < Width <=> ~(7 * (k - 1) >= Width)
  BY <1>1, SizesAssumption
<1>10. r[k - 1].ok \in BOOLEAN
  BY <1>6 DEF Totals
<1>11. (r[k].ok <=> (r[k - 1].ok /\ 7 * (k - 1) < Width /\ t < 2 ^ Width)) /\ (r[k].ok => r[k].v = t)
  <2>1. CASE ~r[k - 1].ok \/ 7 * (k - 1) >= Width
    <3>1. r[k] = [ok |-> FALSE, v |-> 0]
      BY <1>8, <2>1
    <3> QED
      BY <1>9, <2>1, <3>1
  <2>2. CASE ~(~r[k - 1].ok \/ 7 * (k - 1) >= Width)
    <3>1. r[k] = [ok |-> t < 2 ^ Width, v |-> t]
      BY <1>8, <2>2
    <3> DEFINE c == t < 2 ^ Width
    <3>2. r[k].ok = c /\ r[k].v = t
      <4> HIDE DEF c
      <4>1. r[k] = [ok |-> c, v |-> t]
        BY <3>1 DEF c
      <4> QED
        BY <4>1
    <3> QED
      BY <1>9, <2>2, <3>2
  <2> QED
    BY <2>1, <2>2
<1> QED
  BY <1>3, <1>5, <1>11 DEF Adds, t

\* What is read is the sum but for bits above the width.
LEMMA ReadModulo ==
    ASSUME NEW D, NEW buf \in Seq(Bytes), NEW pos \in 1..Len(buf), NEW full \in Nat,
           full < 2 ^ Width,
           NEW K \in 0..(Len(buf) - pos), Sums(D, buf, pos, full, K),
           NEW r, ValueRun(r, buf, pos, full), r[K].ok
    PROVE  r[K].v = D[K] % 2 ^ Width
<1> DEFINE m == 2 ^ Width
           T == {k \in 0..K : r[k].ok => r[k].v = D[k] % m}
<1>1. m \in Nat /\ m > 0 /\ K \in Nat
  BY Doubling, SizesAssumption, BytesAre
<1>2. 0 \in T
  <2>1. r[0].v = full /\ D[0] = full
    BY DEF ValueRun, Start, Sums
  <2>2. full % m = full
    <3> HIDE DEF m
    <3>1. full < m
      BY DEF m
    <3> QED
      BY <1>1, <3>1, Modulo
  <2> HIDE DEF m
  <2> QED
    BY <1>1, <2>1, <2>2
<1>3. ASSUME NEW k \in 1..K, k - 1 \in T
      PROVE  k \in T
  <2>1. PICK x \in Nat : Adds(r, D, k, x, m)
    BY SumStep
  <2> HIDE DEF m
  <2>2. ASSUME r[k].ok
        PROVE  r[k].v = D[k] % m
    <3>1. r[k - 1].ok /\ r[k - 1].v + (x % m) < m /\ r[k].v = r[k - 1].v + (x % m)
      BY <2>1, <2>2 DEF Adds
    <3>2. r[k - 1].v = D[k - 1] % m
      BY <1>3, <3>1
    <3>3. (D[k - 1] + x) % m = (D[k - 1] % m) + (x % m)
      BY <1>1, <2>1, <3>1, <3>2, ModAdd, ZenonT(40) DEF Adds
    <3> QED
      BY <2>1, <3>1, <3>2, <3>3 DEF Adds
  <2> QED
    BY <2>2
<1>4. K \in T
  <2> HIDE DEF T
  <2>1. 0..K \subseteq T
    BY <1>1, <1>2, <1>3, UpTo
  <2> QED
    BY <1>1, <2>1
<1> QED
  BY <1>4

\* A sum within the width, and read as it is.
InWidth(D, K) == D[K] < 2 ^ Width /\ 7 * (K - 1) < Width
ReadsAs(r, D, K) == r[K].ok /\ r[K].v = D[K]

LEMMA ReadExactly ==
    ASSUME NEW D, NEW buf \in Seq(Bytes), NEW pos \in 1..Len(buf), NEW full \in Nat,
           NEW K \in 0..(Len(buf) - pos), Sums(D, buf, pos, full, K),
           NEW r, ValueRun(r, buf, pos, full), InWidth(D, K)
    PROVE  ReadsAs(r, D, K)
<1> USE DEF InWidth
<1> DEFINE m == 2 ^ Width
           T == {k \in 0..K : D[k] < m => r[k].ok /\ r[k].v = D[k]}
<1>1. m \in Nat /\ m > 0 /\ K \in Nat /\ Width \in Nat
  BY Doubling, SizesAssumption, BytesAre
<1>2. 0 \in T
  BY <1>1 DEF ValueRun, Start, Sums
<1>3. ASSUME NEW k \in 1..K, k - 1 \in T
      PROVE  k \in T
  <2>1. PICK x \in Nat : Adds(r, D, k, x, m)
    BY SumStep
  <2> HIDE DEF m
  <2>2. ~(7 * (k - 1) >= Width)
    BY <1>1
  <2>3. ASSUME D[k] < m
        PROVE  r[k].ok /\ r[k].v = D[k]
    <3>1. D[k - 1] < m /\ x < m
      BY <1>1, <2>1, <2>3, SMTT(40) DEF Adds
    <3>2. r[k - 1].ok /\ r[k - 1].v = D[k - 1]
      BY <1>3, <3>1
    <3>3. x % m = x
      BY <1>1, <3>1, Modulo
    <3>4. 7 * (k - 1) < Width
      BY <1>1, <2>2
    <3> QED
      BY <2>1, <2>3, <3>2, <3>3, <3>4 DEF Adds
  <2> QED
    BY <2>3
<1>4. K \in T
  <2> HIDE DEF T
  <2>1. 0..K \subseteq T
    BY <1>1, <1>2, <1>3, UpTo
  <2> QED
    BY <1>1, <2>1
<1> QED
  BY <1>4 DEF ReadsAs

\* The place of the last group of a whole integer is its last byte.
LEMMA WholeFinal ==
    ASSUME NEW bytes \in Seq(Bytes), Len(bytes) > 1, bytes[Len(bytes)] < 128,
           \A i \in 2..(Len(bytes) - 1) : bytes[i] >= 128
    PROVE  FinalAt(bytes, 1) = Len(bytes)
<1> DEFINE f == FinalAt(bytes, 1)
<1>1. Len(bytes) \in Nat /\ \A i \in 1..Len(bytes) : bytes[i] \in Nat
  BY BytesAre
<1>2. \/ f = 0 /\ \A i \in 2..Len(bytes) : bytes[i] >= 128
      \/ f \in 2..Len(bytes) /\ bytes[f] < 128
  BY FinalIs
<1> HIDE DEF f
<1>3. Len(bytes) \in 2..Len(bytes) /\ Len(bytes) \in 1..Len(bytes)
  BY <1>1
<1>4. f # 0
  BY <1>1, <1>2, <1>3
<1>5. f \notin 2..(Len(bytes) - 1)
  <2> SUFFICES ASSUME f \in 2..(Len(bytes) - 1)
               PROVE  FALSE
    OBVIOUS
  <2>1. f \in 1..Len(bytes) /\ bytes[f] >= 128 /\ bytes[f] < 128
    BY <1>1, <1>2, <1>4
  <2> QED
    BY <1>1, <2>1
<1> QED
  BY <1>1, <1>2, <1>4, <1>5 DEF f

\* A reading of a whole integer, as IntegerExact has it.
Exactly(bytes, read) ==
    LET value == Denoted(bytes)
        short == 7 * (Len(bytes) - 2) < Width
    IN  /\ (short /\ value < 2 ^ Width) => read.error = "none" /\ read.v = value
        /\ read.error = "none" => read.v = value % 2 ^ Width
        /\ read.error \in {"none", "integer_overflow"}

LEMMA WholeIntegers ==
    ASSUME NEW bytes, IsWholeInteger(bytes)
    PROVE  Exactly(bytes, ReadInteger(bytes, 1, 7))
<1> DEFINE read == ReadInteger(bytes, 1, 7)
           m == 2 ^ Width
<1>1. bytes \in Seq(Bytes) /\ bytes # << >> /\ Len(bytes) \in Nat
  BY DEF IsWholeInteger
<1>2. 1 \in 1..Len(bytes) /\ ~(1 > Len(bytes)) /\ Len(bytes) \in 1..Len(bytes)
  BY <1>1
<1>3. bytes[1] \in Nat /\ bytes[1] % 128 \in 0..127 /\ 2 ^ 7 = 128
  BY <1>1, <1>2, BytesAre
<1>4. m \in Nat /\ m > 127
  <2>1. 2 ^ 8 <= m /\ m \in Nat
    BY SizesAssumption, Grows, Doubling
  <2>2. 2 ^ 8 = 256
    OBVIOUS
  <2> QED
    BY <2>1, <2>2
<1>5. CASE bytes[1] % 128 < 127
  <2> DEFINE v == bytes[1] % 128
  <2>1. read = [error |-> "none", v |-> v, pos |-> 2]
    BY <1>2, <1>3, <1>5 DEF ReadInteger
  <2>2. Denoted(bytes) = v
    BY <1>5 DEF Denoted
  <2>3. v \in Nat /\ v < m
    BY <1>3, <1>4, <1>5
  <2> HIDE DEF v, m, read
  <2>4. v % m = v
    BY <1>4, <2>3, Modulo
  <2>5. read.error = "none" /\ read.v = v
    BY <2>1
  <2> QED
    BY <2>2, <2>4, <2>5 DEF Exactly, read, m
<1>6. CASE ~(bytes[1] % 128 < 127)
  <2> DEFINE K == Len(bytes) - 1
             f == [i \in 1..K |-> (bytes[i + 1] % 128) * 2 ^ (7 * (i - 1))]
  <2>1. Len(bytes) > 1 /\ Last(bytes) < 128 /\ \A i \in 2..(Len(bytes) - 1) : bytes[i] >= 128
    BY <1>6 DEF IsWholeInteger
  <2>2. FinalAt(bytes, 1) = Len(bytes)
    BY <1>1, <2>1, WholeFinal DEF Last
  <2>3. read = Continued(bytes, 1, 127, Len(bytes))
    <3>1. read = Continued(bytes, 1, 2 ^ 7 - 1, FinalAt(bytes, 1)) /\ 2 ^ 7 - 1 = 127
      BY <1>2, <1>3, <1>6 DEF ReadInteger, FinalAt
    <3> QED
      BY <2>2, <3>1
  <2>4. Denoted(bytes) = 127 + Total(f)
    BY <1>6 DEF Denoted
  <2>5. K \in Nat /\ K \in 0..(Len(bytes) - 1) /\ K >= 1
    BY <1>1, <2>1
  <2>6. ASSUME NEW i \in 1..K
        PROVE  (bytes[i + 1] % 128) * 2 ^ (7 * (i - 1)) \in Nat
    <3>1. i + 1 \in 1..Len(bytes) /\ 7 * (i - 1) \in Nat
      BY <1>1
    <3>2. bytes[i + 1] % 128 \in Nat /\ 2 ^ (7 * (i - 1)) \in Nat
      BY <1>1, <3>1, BytesAre, Doubling
    <3> QED
      BY <3>2
  <2>7. f \in Seq(Nat) /\ Len(f) = K
    BY <2>5, <2>6
  <2>8. \A i \in 1..K : f[i] = (bytes[i + 1] % 128) * 2 ^ (7 * (i - 1))
    OBVIOUS
  <2> HIDE DEF f
  <2>9. PICK t : TotalRun(t, f)
    BY <2>7, TotalRuns
  <2>10. /\ t \in [0..K -> Nat] /\ t[0] = 0 /\ Total(f) = t[K]
         /\ \A i \in 1..K : t[i] = t[i - 1] + f[i]
    BY <2>7, <2>9 DEF TotalRun
  <2> DEFINE D == [k \in 0..K |-> 127 + t[k]]
  <2>11. Sums(D, bytes, 1, 127, K)
    <3>1. D \in [0..K -> Nat] /\ D[0] = 127
      BY <2>5, <2>10
    <3>2. ASSUME NEW k \in 1..K
          PROVE  D[k] = D[k - 1] + (bytes[1 + k] % 128) * 2 ^ (7 * (k - 1))
      <4> DEFINE x == (bytes[1 + k] % 128) * 2 ^ (7 * (k - 1))
      <4>1. k - 1 \in 0..K /\ k \in 0..K /\ t[k] = t[k - 1] + f[k] /\ k + 1 = 1 + k
        BY <2>5, <2>10
      <4>2. f[k] = x /\ x \in Nat
        BY <2>6, <2>8, <4>1
      <4>3. D[k] = 127 + t[k] /\ D[k - 1] = 127 + t[k - 1] /\ t[k - 1] \in Nat
        BY <2>10, <4>1
      <4> HIDE DEF x, D
      <4>4. D[k] = D[k - 1] + x
        BY <4>1, <4>2, <4>3
      <4> QED
        BY <4>4 DEF x
    <3> HIDE DEF D
    <3> QED
      BY <3>1, <3>2 DEF Sums
  <2>12. D[K] = Denoted(bytes) /\ D[K] \in Nat
    <3>1. K \in 0..K
      BY <2>5
    <3>2. D[K] = 127 + t[K] /\ t[K] \in Nat
      BY <2>10, <3>1
    <3> HIDE DEF D, K
    <3> QED
      BY <2>4, <2>10, <3>2
  <2> HIDE DEF D
  <2>13. /\ read \in IntegerResults
         /\ read.error # "none" => read.error = "integer_overflow"
         /\ \E r : /\ ValueRun(r, bytes, 1, 127)
                   /\ (read.error = "none" <=> r[K].ok)
                   /\ read.error = "none" => read.v = r[K].v
    <3> DEFINE final == FinalAt(bytes, 1)
               c == Continued(bytes, 1, 127, final)
    <3>1. Len(bytes) # 0 /\ 127 \in Nat
      BY <1>1, <2>1
    <3>2. /\ c \in IntegerResults
          /\ (final # 0 /\ c.error # "none") => c.error = "integer_overflow"
          /\ final # 0 => \E r : /\ ValueRun(r, bytes, 1, 127)
                                 /\ (c.error = "none" <=> r[final - 1].ok)
                                 /\ c.error = "none" => c.v = r[final - 1].v
      <4>1. ContinuedMeans(bytes, 1, 127)
        BY <1>1, <1>2, <3>1, ContinuedIs
      <4> QED
        BY <4>1 DEF ContinuedMeans
    <3>3. c = read /\ final = Len(bytes) /\ final # 0
      BY <2>2, <2>3, <3>1
    <3> HIDE DEF c, final, read
    <3> QED
      BY <3>2, <3>3
  <2>14. PICK r : /\ ValueRun(r, bytes, 1, 127)
                  /\ (read.error = "none" <=> r[K].ok)
                  /\ read.error = "none" => read.v = r[K].v
    BY <2>13
  <2> HIDE DEF read
  <2>15. r[K].ok => r[K].v = D[K] % m
    <3>1. 127 < 2 ^ Width /\ 127 \in Nat
      BY <1>4
    <3> QED
      BY <1>1, <1>2, <2>5, <2>11, <2>14, <3>1, ReadModulo
  <2>16. (7 * (K - 1) < Width /\ D[K] < m) => r[K].ok /\ r[K].v = D[K]
    <3> HIDE DEF K
    <3> SUFFICES ASSUME 7 * (K - 1) < Width, D[K] < 2 ^ Width
                 PROVE  r[K].ok /\ r[K].v = D[K]
      OBVIOUS
    <3>1. 127 \in Nat /\ ValueRun(r, bytes, 1, 127)
      BY <2>14
    <3>2. bytes \in Seq(Bytes) /\ 1 \in 1..Len(bytes)
      BY <1>1, <1>2
    <3>3. K \in 0..(Len(bytes) - 1)
      BY <2>5
    <3> DEFINE full == 127
               pos == 1
    <3>4. full \in Nat /\ pos \in 1..Len(bytes) /\ K \in 0..(Len(bytes) - pos)
      BY <3>1, <3>2, <3>3
    <3>5. ValueRun(r, bytes, pos, full) /\ Sums(D, bytes, pos, full, K)
      BY <2>11, <3>1
    <3>6. InWidth(D, K)
      BY DEF InWidth
    <3> HIDE DEF full, pos
    <3>7. ReadsAs(r, D, K)
      BY <3>2, <3>4, <3>5, <3>6, ReadExactly
    <3> QED
      BY <3>7 DEF ReadsAs
  <2>17. 7 * (K - 1) = 7 * (Len(bytes) - 2)
    BY <1>1
  <2>18. read.error \in {"none", "integer_overflow"}
    BY <2>13
  <2> QED
    BY <2>12, <2>14, <2>15, <2>16, <2>17, <2>18 DEF Exactly, read
<1> QED
  BY <1>5, <1>6

-----------------------------------------------------------------------------
(* The table of the decoder.                                               *)

LEMMA SizeIs ==
    /\ \A e \in Entries : EntrySize(e) \in Nat
    /\ \A t \in Seq(Entries) : TableSize(t) \in Nat
    /\ TableSize(<< >>) = 0
    /\ \A t \in Seq(Entries) : \A e \in Entries :
         TableSize(Append(t, e)) = TableSize(t) + EntrySize(e)
<1> DEFINE H == [e \in Entries |-> EntrySize(e)]
           Sizes(t) == [i \in 1..Len(t) |-> H[t[i]]]
<1>1. ASSUME NEW e \in Entries
      PROVE  EntrySize(e) \in Nat
  <2>1. e.name \in Seq(Bytes) /\ e.value \in Seq(Bytes)
    BY DEF Entries
  <2> DEFINE a == Len(e.name)
             b == Len(e.value)
  <2>2. a \in Nat /\ b \in Nat
    BY <2>1
  <2>3. EntrySize(e) = a + b + Overhead
    BY DEF EntrySize
  <2> HIDE DEF a, b
  <2> QED
    BY <2>2, <2>3, SizesAssumption
<1>2. \A e \in Entries : H[e] \in Nat /\ H[e] = EntrySize(e)
  BY <1>1
<1>3. ASSUME NEW t \in Seq(Entries)
      PROVE  Sizes(t) = [i \in 1..Len(t) |-> EntrySize(t[i])]
  OBVIOUS
<1>4. Sizes(<< >>) = << >>
  OBVIOUS
<1>5. ASSUME NEW t \in Seq(Entries)
      PROVE  TableSize(t) = Total(Sizes(t)) /\ Sizes(t) \in Seq(Nat)
  <2>1. Sizes(t) \in Seq(Nat)
    <3>1. Len(t) \in Nat /\ \A i \in 1..Len(t) : t[i] \in Entries
      OBVIOUS
    <3>2. \A i \in 1..Len(t) : H[t[i]] \in Nat
      BY <1>2, <3>1
    <3> HIDE DEF H
    <3> QED
      BY <3>1, <3>2
  <2> HIDE DEF Sizes
  <2> QED
    BY <1>3, <2>1 DEF TableSize
<1>6. ASSUME NEW t \in Seq(Entries), NEW e \in Entries
      PROVE  Sizes(Append(t, e)) = Append(Sizes(t), H[e])
  <2> HIDE DEF H
  <2> QED
    BY <1>2, MapAppend
<1> HIDE DEF Sizes, H
<1>7. ASSUME NEW t \in Seq(Entries), NEW e \in Entries
      PROVE  TableSize(Append(t, e)) = TableSize(t) + EntrySize(e)
  <2>1. Append(t, e) \in Seq(Entries)
    OBVIOUS
  <2>2. Total(Append(Sizes(t), H[e])) = Total(Sizes(t)) + H[e]
    BY <1>2, <1>5, TotalAppend
  <2> QED
    BY <1>2, <1>5, <1>6, <2>1, <2>2
<1>8. << >> \in Seq(Entries)
  OBVIOUS
<1>9. TableSize(<< >>) = 0
  BY <1>4, <1>5, <1>8, TotalAppend
<1>10. \A t \in Seq(Entries) : TableSize(t) \in Nat
  BY <1>5, TotalAppend
<1> QED
  BY <1>1, <1>7, <1>9, <1>10

\* The size of the most recent i entries.
LEMMA SizeStep ==
    ASSUME NEW t \in Seq(Entries), NEW i \in 1..Len(t)
    PROVE  /\ t[i] \in Entries /\ SubSeq(t, 1, i - 1) \in Seq(Entries) /\ SubSeq(t, 1, i) \in Seq(Entries)
           /\ TableSize(SubSeq(t, 1, i)) = TableSize(SubSeq(t, 1, i - 1)) + EntrySize(t[i])
<1>1. /\ SubSeq(t, 1, i - 1) \in Seq(Entries) /\ t[i] \in Entries
      /\ SubSeq(t, 1, i) = Append(SubSeq(t, 1, i - 1), t[i])
  BY PrefixStep
<1> DEFINE u == SubSeq(t, 1, i - 1)
<1> HIDE DEF u
<1>2. u \in Seq(Entries) /\ t[i] \in Entries /\ SubSeq(t, 1, i) = Append(u, t[i])
  BY <1>1 DEF u
<1>3. Append(u, t[i]) \in Seq(Entries) /\ TableSize(Append(u, t[i])) = TableSize(u) + EntrySize(t[i])
  BY <1>2, SizeIs
<1> QED
  BY <1>2, <1>3 DEF u

LEMMA BeginningIs ==
    ASSUME NEW S, NEW t \in Seq(S), NEW i \in 0..Len(t)
    PROVE  SubSeq(t, 1, i) \in Seq(S) /\ Len(SubSeq(t, 1, i)) = i /\ \A j \in 1..i : SubSeq(t, 1, i)[j] = t[j]
  OBVIOUS

LEMMA SizeGrows ==
    ASSUME NEW t \in Seq(Entries), NEW i \in 0..Len(t), NEW j \in i..Len(t)
    PROVE  TableSize(SubSeq(t, 1, i)) <= TableSize(SubSeq(t, 1, j))
<1> DEFINE size(k) == TableSize(SubSeq(t, 1, k))
           T == {k \in Nat : i + k <= Len(t) => size(i) <= size(i + k)}
<1>1. Len(t) \in Nat /\ i \in Nat /\ j \in Nat
  OBVIOUS
<1>2. \A k \in 0..Len(t) : size(k) \in Nat
  BY BeginningIs, SizeIs
<1>3. ASSUME NEW k \in 1..Len(t)
      PROVE  size(k - 1) <= size(k)
  <2>1. size(k) = size(k - 1) + EntrySize(t[k]) /\ t[k] \in Entries
    BY SizeStep
  <2>2. EntrySize(t[k]) \in Nat /\ k - 1 \in 0..Len(t)
    BY <1>1, <2>1, SizeIs
  <2>3. size(k - 1) \in Nat
    BY <1>2, <2>2
  <2> HIDE DEF size
  <2> QED
    BY <2>1, <2>2, <2>3
<1> HIDE DEF size
<1>4. 0 \in T
  BY <1>1, <1>2
<1>5. ASSUME NEW k \in 1..(j - i), k - 1 \in T
      PROVE  k \in T
  <2> SUFFICES ASSUME i + k <= Len(t)
               PROVE  size(i) <= size(i + k)
    BY <1>1
  <2>1. i + k \in 1..Len(t) /\ i + (k - 1) <= Len(t) /\ (i + k) - 1 = i + (k - 1) /\ i + (k - 1) \in 0..Len(t)
    BY <1>1
  <2>2. size(i) <= size(i + (k - 1)) /\ size(i + (k - 1)) <= size(i + k)
    BY <1>3, <1>5, <2>1
  <2>3. size(i) \in Nat /\ size(i + (k - 1)) \in Nat /\ size(i + k) \in Nat
    BY <1>1, <1>2, <2>1
  <2> QED
    BY <2>2, <2>3
<1>6. j - i \in T
  <2> HIDE DEF T
  <2>1. j - i \in Nat /\ j - i \in 0..(j - i)
    BY <1>1
  <2> QED
    BY <1>4, <1>5, <2>1, UpTo
<1>7. i + (j - i) = j /\ j <= Len(t)
  BY <1>1
<1> QED
  BY <1>6, <1>7 DEF size

\* The k most recent entries fit, and no more of them do.
Fits(t, max, k) ==
    /\ TableSize(SubSeq(t, 1, k)) <= max
    /\ \A j \in (k + 1)..Len(t) : TableSize(SubSeq(t, 1, j)) > max

LEMMA FittingIs ==
    ASSUME NEW t \in Seq(Entries), NEW max \in Nat, NEW k \in 0..Len(t), Fits(t, max, k)
    PROVE  Fitting(t, max) = SubSeq(t, 1, k)
<1> DEFINE P == {SubSeq(t, 1, j) : j \in 0..Len(t)}
           Best(p) == /\ TableSize(p) <= max
                      /\ \A j \in (Len(p) + 1)..Len(t) : TableSize(SubSeq(t, 1, j)) > max
           u == SubSeq(t, 1, k)
<1>1. u \in P /\ Len(u) = k /\ Best(u)
  BY BeginningIs DEF Fits
<1>2. ASSUME NEW p \in P, Best(p)
      PROVE  p = u
  <2>1. PICK j \in 0..Len(t) : p = SubSeq(t, 1, j)
    OBVIOUS
  <2>2. Len(p) = j /\ Len(t) \in Nat
    BY <2>1, BeginningIs
  <2>3. TableSize(SubSeq(t, 1, j)) \in Nat /\ TableSize(SubSeq(t, 1, k)) \in Nat
    BY BeginningIs, SizeIs
  <2>4. ~(j < k)
    <3> SUFFICES ASSUME j < k
                 PROVE  FALSE
      OBVIOUS
    <3>1. k \in (Len(p) + 1)..Len(t)
      BY <2>2
    <3>2. TableSize(SubSeq(t, 1, k)) > max
      BY <1>2, <3>1
    <3> QED
      BY <2>3, <3>2 DEF Fits
  <2>5. ~(k < j)
    <3> SUFFICES ASSUME k < j
                 PROVE  FALSE
      OBVIOUS
    <3>1. j \in (k + 1)..Len(t)
      BY <2>2
    <3>2. TableSize(SubSeq(t, 1, j)) > max
      BY <3>1 DEF Fits
    <3>3. TableSize(SubSeq(t, 1, j)) <= max
      BY <1>2, <2>1
    <3> QED
      BY <2>3, <3>2, <3>3
  <2>6. j = k
    BY <2>2, <2>4, <2>5
  <2> QED
    BY <2>1, <2>6
<1>3. Fitting(t, max) = CHOOSE p \in P : Best(p)
  BY DEF Fitting
<1> HIDE DEF P, Best, u
<1>4. (CHOOSE p \in P : Best(p)) = u
  BY <1>1, <1>2
<1> QED
  BY <1>3, <1>4 DEF u

LEMMA SomeFit ==
    ASSUME NEW t \in Seq(Entries), NEW max \in Nat
    PROVE  \E k \in 0..Len(t) : Fits(t, max, k)
<1> DEFINE n == Len(t)
           size(k) == TableSize(SubSeq(t, 1, k))
           W == {p \in 0..n : size(n - p) <= max}
<1>1. n \in Nat
  OBVIOUS
<1>2. \A k \in 0..n : size(k) \in Nat
  BY BeginningIs, SizeIs
<1>3. size(0) = 0
  BY WholePrefix, SizeIs
<1> HIDE DEF size, n
<1>4. n \in W /\ W \subseteq Nat
  <2>1. n - n = 0
    BY <1>1
  <2> QED
    BY <1>1, <1>3, <2>1
<1> DEFINE m == Min(W)
<1>5. m \in W /\ \A j \in W : m <= j
  <2> HIDE DEF W
  <2>1. W # {} /\ W \subseteq Nat
    BY <1>4
  <2> QED
    BY <2>1, Least
<1> HIDE DEF m
<1>6. m \in 0..n /\ size(n - m) <= max
  BY <1>5
<1>7. ASSUME NEW j \in ((n - m) + 1)..n
      PROVE  size(j) > max
  <2>1. n - j \in 0..n /\ n - j < m /\ n - (n - j) = j /\ j \in 0..n
    BY <1>1, <1>6
  <2>2. n - j \notin W
    BY <1>5, <1>6, <2>1
  <2>3. ~(size(j) <= max)
    BY <2>1, <2>2
  <2>4. size(j) \in Nat
    BY <1>2, <2>1
  <2> QED
    BY <2>3, <2>4
<1>8. n - m \in 0..n
  BY <1>1, <1>6
<1>9. Fits(t, max, n - m)
  BY <1>6, <1>7 DEF Fits, size, n
<1> QED
  BY <1>8, <1>9 DEF n

LEMMA FittingTypes ==
    ASSUME NEW t \in Seq(Entries), NEW max \in Nat
    PROVE  /\ Fitting(t, max) \in Seq(Entries) /\ TableSize(Fitting(t, max)) \in Nat
           /\ TableSize(Fitting(t, max)) <= max
<1>1. PICK k \in 0..Len(t) : Fits(t, max, k)
  BY SomeFit
<1>2. Fitting(t, max) = SubSeq(t, 1, k)
  BY <1>1, FittingIs
<1>3. SubSeq(t, 1, k) \in Seq(Entries)
  BY BeginningIs
<1>4. TableSize(SubSeq(t, 1, k)) <= max
  BY <1>1 DEF Fits
<1> QED
  BY <1>2, <1>3, <1>4, SizeIs

\* A decoder whose books are the size of its table.
Decoders == [table : Seq(Entries), size : Nat, max : Nat]
Kept(d) == d \in Decoders /\ d.size = TableSize(d.table)
Having(t, max) == [table |-> t, size |-> TableSize(t), max |-> max]

LEMMA KeptIs ==
    ASSUME NEW d, Kept(d)
    PROVE  d.table \in Seq(Entries) /\ d.size \in Nat /\ d.max \in Nat /\ d = Having(d.table, d.max)
  BY DEF Kept, Decoders, Having

LEMMA HavingIs ==
    ASSUME NEW t \in Seq(Entries), NEW max \in Nat
    PROVE  Kept(Having(t, max)) /\ Having(t, max).table = t /\ Having(t, max).max = max
           /\ Having(t, max).size = TableSize(t)
  BY SizeIs DEF Kept, Decoders, Having

\* evict pops the entries that do not fit, and keeps the books.
LEMMA EvictIs ==
    ASSUME NEW t \in Seq(Entries), NEW max \in Nat, NEW room \in Nat
    PROVE  Evict(Having(t, max), room) = Having(Fitting(t, room), max)
<1> DEFINE n == Len(t)
           d == Having(t, max)
           start == TableSize(t)
           Then(x, k) == x - EntrySize(t[n - k + 1])
           size == CHOOSE s : s = [k \in 0..n |-> IF k = 0 THEN start ELSE Then(s[k - 1], k)]
           f == [k \in 0..n |-> TableSize(SubSeq(t, 1, n - k))]
           Enough(k) == (k = n \/ size[k] <= room) /\ \A j \in 0..(k - 1) : size[j] > room
           pops == CHOOSE k \in 0..n : Enough(k)
<1>1. d.table = t /\ d.size = start /\ d.max = max /\ n \in Nat
  BY DEF Having
<1>2. Evict(d, room) = [d EXCEPT !.table = SubSeq(t, 1, n - pops), !.size = size[pops]]
  BY <1>1 DEF Evict
<1>3. \A k \in 0..n : f[k] = TableSize(SubSeq(t, 1, n - k)) /\ n - k \in 0..n
  BY <1>1
<1>4. ASSUME NEW k \in 1..n
      PROVE  f[k] = Then(f[k - 1], k)
  <2> DEFINE i == n - k + 1
  <2>1. i \in 1..n /\ i - 1 = n - k /\ n - (k - 1) = i /\ k \in 0..n /\ k - 1 \in 0..n
    BY <1>1
  <2>2. t[i] \in Entries /\ TableSize(SubSeq(t, 1, i)) = TableSize(SubSeq(t, 1, i - 1)) + EntrySize(t[i])
    BY <2>1, SizeStep
  <2>3. f[k] = TableSize(SubSeq(t, 1, i - 1)) /\ f[k - 1] = TableSize(SubSeq(t, 1, i))
    BY <1>3, <2>1
  <2>4. EntrySize(t[i]) \in Nat
    BY <2>2, SizeIs
  <2>5. TableSize(SubSeq(t, 1, i - 1)) \in Nat
    <3>1. i - 1 \in 0..Len(t)
      BY <1>1, <2>1
    <3> QED
      BY <3>1, BeginningIs, SizeIs
  <2>6. f[k] = f[k - 1] - EntrySize(t[i])
    <3> HIDE DEF f, i
    <3> QED
      BY <2>2, <2>3, <2>4, <2>5
  <2> QED
    BY <2>6
<1>5. f[0] = start
  <2>1. n - 0 = Len(t) /\ 0 \in 0..n
    BY <1>1
  <2>2. SubSeq(t, 1, Len(t)) = t
    BY WholePrefix
  <2> QED
    BY <1>3, <2>1, <2>2
<1> HIDE DEF Then, start
<1>6. f = [k \in 0..n |-> IF k = 0 THEN start ELSE Then(f[k - 1], k)]
  <2> DEFINE g == [k \in 0..n |-> IF k = 0 THEN start ELSE Then(f[k - 1], k)]
  <2>1. \A k \in 0..n : f[k] = g[k]
    <3> HIDE DEF f, n
    <3> QED
      BY <1>1, <1>4, <1>5
  <2>2. f = [k \in 0..n |-> f[k]] /\ g = [k \in 0..n |-> g[k]]
    OBVIOUS
  <2> HIDE DEF f, g
  <2>3. f = g
    BY <2>1, <2>2
  <2> QED
    BY <2>3 DEF g
<1> HIDE DEF f, n
<1>7. size = [k \in 0..n |-> IF k = 0 THEN start ELSE Then(size[k - 1], k)]
  BY <1>6
<1> HIDE DEF size
<1>8. \A k \in 0..n : size[k] = f[k]
  <2>1. Alike(size, f, n)
    BY <1>1, <1>4, <1>5, <1>7 DEF Alike
  <2> QED
    BY <2>1, Agree
<1>9. \A k \in 0..n : size[k] = TableSize(SubSeq(t, 1, n - k)) /\ n - k \in 0..n
  BY <1>3, <1>8
<1>10. ASSUME NEW k \in 0..n, Enough(k)
       PROVE  Fits(t, room, n - k)
  <2>1. TableSize(SubSeq(t, 1, n - k)) <= room
    <3>1. CASE k = n
      <4>1. n - k = 0 /\ SubSeq(t, 1, 0) = << >>
        BY <1>1, <3>1, WholePrefix
      <4>2. TableSize(SubSeq(t, 1, n - k)) = 0
        BY <4>1, SizeIs
      <4> QED
        BY <4>2
    <3>2. CASE size[k] <= room
      BY <1>9, <3>2
    <3> QED
      BY <1>10, <3>1, <3>2
  <2>2. ASSUME NEW j \in ((n - k) + 1)..n
        PROVE  TableSize(SubSeq(t, 1, j)) > room
    <3>1. n - j \in 0..(k - 1) /\ n - j \in 0..n /\ n - (n - j) = j
      BY <1>1
    <3>2. size[n - j] > room
      BY <1>10, <3>1
    <3> QED
      BY <1>9, <3>1, <3>2
  <2> QED
    BY <2>1, <2>2 DEF Fits, n
<1>11. \E k \in 0..n : Enough(k)
  <2>1. PICK i \in 0..n : Fits(t, room, i)
    BY SomeFit DEF n
  <2>2. n - i \in 0..n /\ n - (n - i) = i
    BY <1>1
  <2>3. size[n - i] <= room
    BY <1>9, <2>1, <2>2 DEF Fits
  <2>4. ASSUME NEW j \in 0..((n - i) - 1)
        PROVE  size[j] > room
    <3>1. j \in 0..n /\ n - j \in (i + 1)..Len(t)
      BY <1>1 DEF n
    <3>2. TableSize(SubSeq(t, 1, n - j)) > room
      BY <2>1, <3>1 DEF Fits
    <3> QED
      BY <1>9, <3>1, <3>2
  <2>5. Enough(n - i)
    BY <2>3, <2>4
  <2> HIDE DEF Enough
  <2> QED
    BY <2>2, <2>5
<1>12. pops \in 0..n /\ Enough(pops)
  <2> HIDE DEF Enough
  <2> QED
    BY <1>11
<1> HIDE DEF Enough, pops
<1>13. n - pops \in 0..n /\ Fits(t, room, n - pops) /\ size[pops] = TableSize(SubSeq(t, 1, n - pops))
  BY <1>9, <1>10, <1>12
<1>14. Fitting(t, room) = SubSeq(t, 1, n - pops)
  BY <1>13, FittingIs DEF n
<1> QED
  BY <1>2, <1>13, <1>14 DEF Having

LEMMA FrontIs ==
    ASSUME NEW e \in Entries, NEW t \in Seq(Entries)
    PROVE  /\ <<e>> \o t \in Seq(Entries) /\ Len(<<e>> \o t) = Len(t) + 1 /\ Len(t) \in Nat
           /\ (<<e>> \o t)[1] = e /\ \A i \in 1..Len(t) : (<<e>> \o t)[i + 1] = t[i]
<1>1. <<e>> \in Seq(Entries) /\ Len(<<e>>) = 1 /\ <<e>>[1] = e
  OBVIOUS
<1> DEFINE a == <<e>>
<1> HIDE DEF a
<1>2. a \in Seq(Entries) /\ Len(a) = 1 /\ a[1] = e
  BY <1>1 DEF a
<1>3. /\ a \o t \in Seq(Entries) /\ Len(a \o t) = Len(a) + Len(t) /\ Len(t) \in Nat
      /\ \A i \in 1..Len(a) : (a \o t)[i] = a[i]
      /\ \A i \in 1..Len(t) : (a \o t)[Len(a) + i] = t[i]
  BY <1>2, ConcatAt
<1>4. Len(a \o t) = Len(t) + 1 /\ (a \o t)[1] = e
  BY <1>2, <1>3
<1>5. \A i \in 1..Len(t) : (a \o t)[i + 1] = t[i]
  BY <1>2, <1>3
<1> QED
  BY <1>3, <1>4, <1>5 DEF a

LEMMA FrontBeginning ==
    ASSUME NEW e \in Entries, NEW t \in Seq(Entries), NEW k \in 0..Len(t)
    PROVE  SubSeq(<<e>> \o t, 1, k + 1) = <<e>> \o SubSeq(t, 1, k)
<1> DEFINE u == SubSeq(t, 1, k)
           a == <<e>> \o t
           b == <<e>> \o u
           c == SubSeq(a, 1, k + 1)
<1>1. u \in Seq(Entries) /\ Len(u) = k /\ \A j \in 1..k : u[j] = t[j]
  BY BeginningIs
<1>2. /\ a \in Seq(Entries) /\ Len(a) = Len(t) + 1 /\ Len(t) \in Nat
      /\ a[1] = e /\ \A i \in 1..Len(t) : a[i + 1] = t[i]
  BY FrontIs
<1> HIDE DEF u, a
<1>3. b \in Seq(Entries) /\ Len(b) = k + 1 /\ b[1] = e /\ \A i \in 1..k : b[i + 1] = u[i]
  BY <1>1, FrontIs
<1>4. k + 1 \in 0..Len(a)
  BY <1>2
<1>5. c \in Seq(Entries) /\ Len(c) = k + 1 /\ \A j \in 1..(k + 1) : c[j] = a[j]
  BY <1>2, <1>4, BeginningIs
<1> HIDE DEF b, c
<1>6. ASSUME NEW j \in 1..(k + 1)
      PROVE  c[j] = b[j]
  <2>1. CASE j = 1
    BY <1>2, <1>3, <1>5, <2>1
  <2>2. CASE j # 1
    <3>1. j - 1 \in 1..k /\ j - 1 \in 1..Len(t) /\ (j - 1) + 1 = j
      BY <1>2, <2>2
    <3>2. b[(j - 1) + 1] = u[j - 1] /\ a[(j - 1) + 1] = t[j - 1] /\ u[j - 1] = t[j - 1]
      BY <1>1, <1>2, <1>3, <3>1
    <3> QED
      BY <1>5, <3>1, <3>2
  <2> QED
    BY <2>1, <2>2
<1>7. c = b
  BY <1>3, <1>5, <1>6, SeqEqual
<1> QED
  BY <1>7 DEF a, b, c, u

LEMMA SizeFront ==
    ASSUME NEW e \in Entries, NEW t \in Seq(Entries)
    PROVE  \A k \in 0..Len(t) :
              TableSize(SubSeq(<<e>> \o t, 1, k + 1)) = EntrySize(e) + TableSize(SubSeq(t, 1, k))
<1> DEFINE a == <<e>> \o t
           n == Len(t)
           T == {k \in 0..n : TableSize(SubSeq(a, 1, k + 1)) = EntrySize(e) + TableSize(SubSeq(t, 1, k))}
<1>1. /\ a \in Seq(Entries) /\ Len(a) = n + 1 /\ n \in Nat
      /\ a[1] = e /\ \A i \in 1..n : a[i + 1] = t[i]
  BY FrontIs
<1> HIDE DEF a, n
<1>2. 0 \in T
  <2>1. 1 \in 1..Len(a) /\ 1 - 1 = 0 /\ 0 + 1 = 1
    BY <1>1
  <2>2. TableSize(SubSeq(a, 1, 1)) = TableSize(SubSeq(a, 1, 1 - 1)) + EntrySize(a[1])
    BY <1>1, <2>1, SizeStep
  <2>3. TableSize(SubSeq(a, 1, 0)) = 0 /\ TableSize(SubSeq(t, 1, 0)) = 0
    BY <1>1, WholePrefix, SizeIs
  <2>4. EntrySize(e) \in Nat
    BY SizeIs
  <2>5. TableSize(SubSeq(a, 1, 0 + 1)) = EntrySize(e) + TableSize(SubSeq(t, 1, 0))
    BY <1>1, <2>1, <2>2, <2>3, <2>4
  <2> QED
    BY <1>1, <2>5
<1>3. ASSUME NEW k \in 1..n, k - 1 \in T
      PROVE  k \in T
  <2>1. k + 1 \in 1..Len(a) /\ (k + 1) - 1 = k /\ (k - 1) + 1 = k /\ k \in 1..Len(t) /\ k \in 0..n
    BY <1>1 DEF n
  <2>2. TableSize(SubSeq(a, 1, k + 1)) = TableSize(SubSeq(a, 1, k)) + EntrySize(a[k + 1])
    BY <1>1, <2>1, SizeStep
  <2>3. TableSize(SubSeq(t, 1, k)) = TableSize(SubSeq(t, 1, k - 1)) + EntrySize(t[k]) /\ t[k] \in Entries
    BY <2>1, SizeStep
  <2>4. TableSize(SubSeq(a, 1, k)) = EntrySize(e) + TableSize(SubSeq(t, 1, k - 1))
    BY <1>3, <2>1
  <2>5. a[k + 1] = t[k]
    BY <1>1
  <2>6. EntrySize(e) \in Nat /\ EntrySize(t[k]) \in Nat /\ TableSize(SubSeq(t, 1, k - 1)) \in Nat
    <3>1. k - 1 \in 0..Len(t)
      BY <1>1 DEF n
    <3> QED
      BY <2>3, <3>1, BeginningIs, SizeIs
  <2>7. TableSize(SubSeq(a, 1, k + 1)) = EntrySize(e) + TableSize(SubSeq(t, 1, k))
    BY <2>2, <2>3, <2>4, <2>5, <2>6
  <2> QED
    BY <2>1, <2>7
<1>4. 0..n \subseteq T
  <2> HIDE DEF T
  <2> QED
    BY <1>1, <1>2, <1>3, UpTo
<1> QED
  BY <1>4 DEF a, n

\* add_to_dynamic_table keeps what of the new table fits.
LEMMA AddIs ==
    ASSUME NEW t \in Seq(Entries), NEW max \in Nat, NEW e \in Entries
    PROVE  Add(Having(t, max), e) = Having(Fitting(<<e>> \o t, max), max)
<1> DEFINE a == <<e>> \o t
           d == Having(t, max)
           s == EntrySize(e)
<1>1. s \in Nat
  BY SizeIs
<1>2. a \in Seq(Entries) /\ Len(a) = Len(t) + 1 /\ Len(t) \in Nat
  BY FrontIs
<1>3. \A k \in 0..Len(t) : /\ TableSize(SubSeq(a, 1, k + 1)) = s + TableSize(SubSeq(t, 1, k))
                           /\ TableSize(SubSeq(t, 1, k)) \in Nat
  BY SizeFront, BeginningIs, SizeIs
<1>4. d.table = t /\ d.max = max
  BY DEF Having
<1> HIDE DEF a, s
<1>5. CASE s > max
  <2>1. 0 \in 0..Len(a) /\ SubSeq(a, 1, 0) = << >> /\ TableSize(<< >>) = 0
    BY <1>2, WholePrefix, SizeIs
  <2>2. ASSUME NEW j \in (0 + 1)..Len(a)
        PROVE  TableSize(SubSeq(a, 1, j)) > max
    <3>1. j - 1 \in 0..Len(t) /\ (j - 1) + 1 = j
      BY <1>2
    <3>2. TableSize(SubSeq(a, 1, j)) = s + TableSize(SubSeq(t, 1, j - 1)) /\ TableSize(SubSeq(t, 1, j - 1)) \in Nat
      BY <1>3, <3>1
    <3> QED
      BY <1>1, <1>5, <3>2
  <2>3. Fits(a, max, 0)
    <3>0. TableSize(SubSeq(a, 1, 0)) = 0
      BY <2>1
    <3>1. TableSize(SubSeq(a, 1, 0)) <= max
      BY <3>0
    <3> QED
      BY <2>2, <3>1 DEF Fits
  <2>4. Fitting(a, max) = << >>
    BY <1>2, <2>1, <2>3, FittingIs
  <2>5. Add(d, e) = [d EXCEPT !.table = << >>, !.size = 0]
    BY <1>4, <1>5 DEF Add, s
  <2>6. Having(<< >>, max) = [table |-> << >>, size |-> 0, max |-> max]
    BY <2>1 DEF Having
  <2>7. Add(d, e) = Having(<< >>, max)
    BY <2>5, <2>6 DEF Having
  <2> QED
    BY <2>4, <2>7 DEF a
<1>6. CASE ~(s > max)
  <2>1. max - s \in Nat
    BY <1>1, <1>6
  <2>2. PICK k \in 0..Len(t) : Fits(t, max - s, k)
    BY <2>1, SomeFit
  <2> DEFINE u == SubSeq(t, 1, k)
  <2>3. Fitting(t, max - s) = u /\ u \in Seq(Entries)
    BY <2>1, <2>2, FittingIs, BeginningIs
  <2>4. Evict(d, max - s) = Having(u, max)
    BY <2>1, <2>3, EvictIs
  <2>5. k + 1 \in 0..Len(a)
    BY <1>2
  <2>6. SubSeq(a, 1, k + 1) = <<e>> \o u /\ TableSize(SubSeq(a, 1, k + 1)) = s + TableSize(u)
        /\ TableSize(u) \in Nat
    BY <1>3, FrontBeginning DEF a
  <2>7. Fits(a, max, k + 1)
    <3>1. TableSize(u) <= max - s
      BY <2>2 DEF Fits
    <3>2. TableSize(SubSeq(a, 1, k + 1)) <= max
      <4> DEFINE z == TableSize(u)
      <4> HIDE DEF z, u
      <4>1. z \in Nat /\ z <= max - s /\ TableSize(SubSeq(a, 1, k + 1)) = s + z
        BY <2>6, <3>1 DEF z
      <4> QED
        BY <1>1, <4>1
    <3>3. ASSUME NEW j \in ((k + 1) + 1)..Len(a)
          PROVE  TableSize(SubSeq(a, 1, j)) > max
      <4>1. j - 1 \in (k + 1)..Len(t) /\ j - 1 \in 0..Len(t) /\ (j - 1) + 1 = j
        BY <1>2
      <4>2. TableSize(SubSeq(a, 1, j)) = s + TableSize(SubSeq(t, 1, j - 1))
            /\ TableSize(SubSeq(t, 1, j - 1)) \in Nat
        BY <1>3, <4>1
      <4>3. TableSize(SubSeq(t, 1, j - 1)) > max - s
        BY <2>2, <4>1 DEF Fits
      <4> QED
        BY <1>1, <4>2, <4>3
    <3> QED
      BY <3>2, <3>3 DEF Fits
  <2>8. Fitting(a, max) = <<e>> \o u
    BY <1>2, <2>5, <2>6, <2>7, FittingIs
  <2> HIDE DEF u
  <2>9. Add(d, e) = [Having(u, max) EXCEPT !.table = <<e>> \o @, !.size = @ + s]
    BY <1>4, <1>6, <2>4 DEF Add, s
  <2>10. TableSize(<<e>> \o u) = TableSize(u) + s
    <3> DEFINE z == TableSize(u)
               w == <<e>> \o u
    <3>1. TableSize(w) = s + z /\ z \in Nat
      BY <2>6
    <3> HIDE DEF z, w
    <3>2. TableSize(w) = z + s
      BY <1>1, <3>1
    <3> QED
      BY <3>2 DEF z, w
  <2>11. Add(d, e) = Having(<<e>> \o u, max)
    BY <2>9, <2>10 DEF Having
  <2> QED
    BY <2>8, <2>11 DEF a
<1> QED
  BY <1>5, <1>6

LEMMA ResizeIs ==
    ASSUME NEW t \in Seq(Entries), NEW max \in Nat, NEW new \in Nat
    PROVE  Resize(Having(t, max), new) = Having(Fitting(t, new), new)
<1>1. [Having(t, max) EXCEPT !.max = new] = Having(t, new)
  BY DEF Having
<1>2. Resize(Having(t, max), new) = Evict(Having(t, new), new)
  BY <1>1 DEF Resize
<1> QED
  BY <1>2, EvictIs

-----------------------------------------------------------------------------
(* Reading whatever comes.                                                 *)

Errors == {"none", "unexpected_eof", "integer_overflow", "eos_in_stream", "bad_padding",
           "invalid_index", "table_size_too_large"}

LEMMA AlphabetStrings ==
    ASSUME NEW s \in Seq(Alphabet)
    PROVE  s \in Seq(Bytes)
<1>1. Len(s) \in Nat /\ s = [i \in 1..Len(s) |-> s[i]] /\ \A i \in 1..Len(s) : s[i] \in Alphabet
  OBVIOUS
<1>2. \A i \in 1..Len(s) : s[i] \in Bytes
  BY <1>1, CodeAssumption
<1>3. [i \in 1..Len(s) |-> s[i]] \in Seq(Bytes)
  BY <1>1, <1>2
<1> QED
  BY <1>1, <1>3

LEMMA ContentsAre ==
    ASSUME NEW bytes \in Seq(Bytes), NEW huffman \in BOOLEAN
    PROVE  Contents(bytes, huffman).error \in Errors /\ Contents(bytes, huffman).out \in Seq(Bytes)
<1>1. CASE huffman
  <2> DEFINE read == HuffmanDecode(bytes)
  <2>1. Contents(bytes, huffman) = read /\ read \in HuffmanResults
    BY <1>1, HuffmanReads DEF Contents
  <2> HIDE DEF read
  <2>2. read.error \in Errors /\ read.out \in Seq(Alphabet)
    BY <2>1 DEF HuffmanResults, Errors
  <2> QED
    BY <2>1, <2>2, AlphabetStrings
<1>2. CASE ~huffman
  BY <1>2 DEF Contents, Errors
<1> QED
  BY <1>1, <1>2

\* What read_string comes to after the length.
LEMMA StringCases ==
    ASSUME NEW buf \in Seq(Bytes), NEW pos \in Nat, pos >= 1
    PROVE  LET length == ReadInteger(buf, pos, 7)
               huffman == pos <= Len(buf) /\ buf[pos] >= 128
               read == ReadString(buf, pos)
               end == length.pos + length.v
           IN  /\ huffman \in BOOLEAN
               /\ \/ length.error # "none" /\ read = length
                  \/ length.error = "none" /\ end - 1 > Len(buf)
                       /\ read = [error |-> "unexpected_eof", v |-> 0, pos |-> length.pos]
                  \/ /\ length.error = "none" /\ end - 1 <= Len(buf)
                     /\ length.pos \in (pos + 1)..(Len(buf) + 1) /\ length.v \in Nat /\ pos <= Len(buf)
                     /\ read = [error |-> Contents(SubSeq(buf, length.pos, end - 1), huffman).error,
                                v |-> Contents(SubSeq(buf, length.pos, end - 1), huffman).out,
                                pos |-> end]
<1> DEFINE length == ReadInteger(buf, pos, 7)
           huffman == pos <= Len(buf) /\ buf[pos] >= 128
           read == ReadString(buf, pos)
           end == length.pos + length.v
<1>1. /\ length \in IntegerResults
      /\ length.error = "none" => pos <= Len(buf) /\ length.pos \in (pos + 1)..(Len(buf) + 1)
  <2>1. 7 \in Nat
    OBVIOUS
  <2> QED
    BY <2>1, ReadIntegerIs
<1>2. read = StringAfter(buf, huffman, length)
  BY DEF ReadString
<1>3. huffman \in BOOLEAN /\ Len(buf) \in Nat
  BY BytesAre
<1> HIDE DEF length, huffman, read
<1>4. length.v \in Nat /\ length.pos \in Nat
  BY <1>1 DEF IntegerResults
<1>0. length.pos + length.v - 1 = end - 1
  BY <1>4
<1>5. CASE length.error # "none"
  <2>1. read = length
    BY <1>2, <1>5 DEF StringAfter
  <2> QED
    BY <1>3, <1>5, <2>1 DEF length, huffman, read
<1>6. CASE length.error = "none" /\ end - 1 > Len(buf)
  <2>1. read = [error |-> "unexpected_eof", v |-> 0, pos |-> length.pos]
    BY <1>0, <1>2, <1>6 DEF StringAfter, Stuck
  <2> QED
    BY <1>3, <1>6, <2>1 DEF length, huffman, read
<1>7. CASE length.error = "none" /\ ~(end - 1 > Len(buf))
  <2> DEFINE c == Contents(SubSeq(buf, length.pos, end - 1), huffman)
  <2>1. read = [error |-> c.error, v |-> c.out, pos |-> end]
    BY <1>0, <1>2, <1>7 DEF StringAfter, StringOf
  <2>2. end - 1 <= Len(buf)
    BY <1>3, <1>4, <1>7
  <2> QED
    BY <1>1, <1>3, <1>4, <1>7, <2>1, <2>2 DEF length, huffman, read
<1> QED
  BY <1>5, <1>6, <1>7

LEMMA MiddleIs ==
    ASSUME NEW S, NEW buf \in Seq(S), NEW i \in Nat, i >= 1, NEW j \in Nat, j <= Len(buf), i - 1 <= j
    PROVE  /\ SubSeq(buf, i, j) \in Seq(S) /\ Len(SubSeq(buf, i, j)) = j - i + 1
           /\ \A k \in 1..(j - i + 1) : SubSeq(buf, i, j)[k] = buf[i + k - 1]
<1>1. CASE i <= j
  BY <1>1
<1>2. CASE i > j
  <2>1. SubSeq(buf, i, j) = << >> /\ j - i + 1 = 0
    BY <1>2
  <2> QED
    BY <2>1
<1> QED
  BY <1>1, <1>2

LEMMA ReadStringIs ==
    ASSUME NEW buf \in Seq(Bytes), NEW pos \in Nat, pos >= 1
    PROVE  LET read == ReadString(buf, pos)
           IN  /\ read.error \in Errors
               /\ read.error = "none" => /\ read.v \in Seq(Bytes) /\ pos <= Len(buf)
                                         /\ read.pos \in (pos + 1)..(Len(buf) + 1)
<1> DEFINE length == ReadInteger(buf, pos, 7)
           huffman == pos <= Len(buf) /\ buf[pos] >= 128
           read == ReadString(buf, pos)
           end == length.pos + length.v
           bytes == SubSeq(buf, length.pos, end - 1)
           c == Contents(bytes, huffman)
<1>1. /\ huffman \in BOOLEAN
      /\ \/ length.error # "none" /\ read = length
         \/ length.error = "none" /\ end - 1 > Len(buf)
              /\ read = [error |-> "unexpected_eof", v |-> 0, pos |-> length.pos]
         \/ /\ length.error = "none" /\ end - 1 <= Len(buf)
            /\ length.pos \in (pos + 1)..(Len(buf) + 1) /\ length.v \in Nat /\ pos <= Len(buf)
            /\ read = [error |-> c.error, v |-> c.out, pos |-> end]
  BY StringCases
<1>2. length \in IntegerResults /\ Len(buf) \in Nat
  <2>1. 7 \in Nat
    OBVIOUS
  <2> QED
    BY <2>1, ReadIntegerIs, BytesAre
<1> HIDE DEF length, huffman, read
<1>3. CASE length.error # "none" /\ read = length
  BY <1>2, <1>3 DEF IntegerResults, Errors, read
<1>4. CASE read = [error |-> "unexpected_eof", v |-> 0, pos |-> length.pos]
  <2>1. read.error = "unexpected_eof"
    BY <1>4
  <2> QED
    BY <2>1 DEF Errors, read
<1>5. CASE /\ length.error = "none" /\ end - 1 <= Len(buf)
           /\ length.pos \in (pos + 1)..(Len(buf) + 1) /\ length.v \in Nat /\ pos <= Len(buf)
           /\ read = [error |-> c.error, v |-> c.out, pos |-> end]
  <2>1. length.pos \in Nat /\ length.pos >= 1 /\ end - 1 \in Nat /\ length.pos - 1 <= end - 1
        /\ end \in (pos + 1)..(Len(buf) + 1)
    BY <1>2, <1>5
  <2>2. bytes \in Seq(Bytes)
    <3> HIDE DEF end
    <3> QED
      BY <1>5, <2>1, MiddleIs
  <2>3. c.error \in Errors /\ c.out \in Seq(Bytes)
    BY <1>1, <2>2, ContentsAre
  <2> HIDE DEF c, end
  <2>4. read.error = c.error /\ read.v = c.out /\ read.pos = end
    BY <1>5
  <2> QED
    BY <1>5, <2>1, <2>3, <2>4 DEF read
<1> QED
  BY <1>1, <1>3, <1>4, <1>5

LEMMA SameMiddle ==
    ASSUME NEW long, NEW short, Extends(long, short), NEW i \in Nat, i >= 1, NEW j \in Nat,
           j <= Len(short), i - 1 <= j
    PROVE  SubSeq(long, i, j) = SubSeq(short, i, j)
<1> DEFINE u == SubSeq(long, i, j)
           v == SubSeq(short, i, j)
<1>1. long \in Seq(Bytes) /\ short \in Seq(Bytes) /\ \A k \in 1..Len(short) : long[k] = short[k]
  BY DEF Extends
<1>2. Len(long) \in Nat /\ Len(short) \in Nat /\ Len(short) <= Len(long) /\ j <= Len(long)
  BY <1>1, BytesAre DEF Extends
<1>3. u \in Seq(Bytes) /\ Len(u) = j - i + 1 /\ \A k \in 1..(j - i + 1) : u[k] = long[i + k - 1]
  BY <1>1, <1>2, MiddleIs
<1>4. v \in Seq(Bytes) /\ Len(v) = j - i + 1 /\ \A k \in 1..(j - i + 1) : v[k] = short[i + k - 1]
  BY <1>1, <1>2, MiddleIs
<1>5. \A k \in 1..(j - i + 1) : i + k - 1 \in 1..Len(short)
  BY <1>2
<1> HIDE DEF u, v
<1>6. \A k \in 1..Len(u) : u[k] = v[k]
  BY <1>1, <1>3, <1>4, <1>5
<1> QED
  BY <1>3, <1>4, <1>6, SeqEqual DEF u, v

\* A string that was read stays what it is when bytes follow.
LEMMA StringStable ==
    ASSUME NEW long, NEW short, Extends(long, short), NEW pos \in Nat, pos >= 1,
           ReadString(short, pos).error = "none"
    PROVE  ReadString(long, pos) = ReadString(short, pos)
<1> DEFINE length == ReadInteger(short, pos, 7)
           read == ReadString(short, pos)
           end == length.pos + length.v
           h == pos <= Len(short) /\ short[pos] >= 128
           c == Contents(SubSeq(short, length.pos, end - 1), h)
<1>1. long \in Seq(Bytes) /\ short \in Seq(Bytes) /\ \A k \in 1..Len(short) : long[k] = short[k]
  BY DEF Extends
<1>2. Len(long) \in Nat /\ Len(short) \in Nat /\ Len(short) <= Len(long) /\ 7 \in Nat
  BY <1>1, BytesAre DEF Extends
<1>3. /\ \/ length.error # "none" /\ read = length
         \/ length.error = "none" /\ end - 1 > Len(short)
              /\ read = [error |-> "unexpected_eof", v |-> 0, pos |-> length.pos]
         \/ /\ length.error = "none" /\ end - 1 <= Len(short)
            /\ length.pos \in (pos + 1)..(Len(short) + 1) /\ length.v \in Nat /\ pos <= Len(short)
            /\ read = [error |-> c.error, v |-> c.out, pos |-> end]
  BY <1>1, StringCases
<1>4. length.error = "none" /\ end - 1 <= Len(short) /\ length.pos \in (pos + 1)..(Len(short) + 1)
      /\ length.v \in Nat /\ pos <= Len(short)
  <2>1. read.error = "none"
    OBVIOUS
  <2> HIDE DEF length, read, c
  <2>2. ~(length.error # "none" /\ read = length)
    BY <2>1
  <2>3. read # [error |-> "unexpected_eof", v |-> 0, pos |-> length.pos]
    BY <2>1
  <2> QED
    BY <1>3, <2>2, <2>3
<1>5. ReadInteger(long, pos, 7) = length
  BY <1>2, <1>4, IntegerStable
<1>6. long[pos] = short[pos] /\ pos <= Len(long)
  BY <1>1, <1>2, <1>4
<1>7. SubSeq(long, length.pos, end - 1) = SubSeq(short, length.pos, end - 1)
  <2>1. length.pos \in Nat /\ length.pos >= 1 /\ end - 1 \in Nat /\ length.pos - 1 <= end - 1
    BY <1>2, <1>4
  <2> HIDE DEF end, length
  <2> QED
    BY <1>4, <2>1, SameMiddle, ZenonT(40)
<1> HIDE DEF length
<1>8. ~(end - 1 > Len(short)) /\ ~(end - 1 > Len(long))
  BY <1>2, <1>4
<1>9. (pos <= Len(long) /\ long[pos] >= 128) = h
  BY <1>4, <1>6
<1> HIDE DEF h
<1>10. ReadString(long, pos) = StringAfter(long, h, length)
  BY <1>5, <1>9 DEF ReadString
<1>11. ReadString(short, pos) = StringAfter(short, h, length)
  BY DEF ReadString, length, h
<1>12. length.pos + length.v - 1 = end - 1
  BY <1>4
<1> QED
  BY <1>4, <1>7, <1>8, <1>10, <1>11, <1>12 DEF StringAfter

-----------------------------------------------------------------------------
(* The rounds of decode_headers.                                           *)

\* The books are kept, and within a limit that is within the announced one.
Bounded(d) == Kept(d) /\ d.size <= d.max /\ d.max <= Announced
LoopStates(block) ==
    {s \in [d : Decoders, pos : Nat, out : Seq(Entries), error : Errors] :
        Bounded(s.d) /\ s.pos \in 1..(Len(block) + 1)}

Advanced(s, pos, e) == [s EXCEPT !.pos = pos, !.out = Append(@, e)]

LEMMA StatesAre ==
    ASSUME NEW block \in Seq(Bytes), NEW s \in LoopStates(block)
    PROVE  /\ Bounded(s.d) /\ s.d \in Decoders /\ s.pos \in 1..(Len(block) + 1) /\ s.pos \in Nat
           /\ s.pos >= 1 /\ s.out \in Seq(Entries) /\ s.error \in Errors
           /\ s = [d |-> s.d, pos |-> s.pos, out |-> s.out, error |-> s.error]
           /\ Len(block) \in Nat
<1>1. Len(block) \in Nat
  BY BytesAre
<1> QED
  BY <1>1 DEF LoopStates

LEMMA StateIs ==
    ASSUME NEW block \in Seq(Bytes), NEW d, Bounded(d), NEW pos \in 1..(Len(block) + 1),
           NEW out \in Seq(Entries), NEW e \in Errors
    PROVE  [d |-> d, pos |-> pos, out |-> out, error |-> e] \in LoopStates(block)
<1>1. Len(block) \in Nat /\ pos \in Nat /\ d \in Decoders
  BY BytesAre DEF Bounded, Kept
<1> QED
  BY <1>1 DEF LoopStates

LEMMA FailedIs ==
    ASSUME NEW block \in Seq(Bytes), NEW s \in LoopStates(block), NEW e \in Errors
    PROVE  Failed(s, e) \in LoopStates(block) /\ Failed(s, e).error = e
<1>1. Failed(s, e) = [d |-> s.d, pos |-> s.pos, out |-> s.out, error |-> e]
  BY StatesAre DEF Failed
<1>2. [d |-> s.d, pos |-> s.pos, out |-> s.out, error |-> e] \in LoopStates(block)
  BY StatesAre, StateIs
<1> QED
  BY <1>1, <1>2

LEMMA AdvancedIs ==
    ASSUME NEW block \in Seq(Bytes), NEW s \in LoopStates(block),
           NEW pos \in 1..(Len(block) + 1), NEW e \in Entries
    PROVE  /\ Advanced(s, pos, e) \in LoopStates(block)
           /\ Advanced(s, pos, e)
                = [d |-> s.d, pos |-> pos, out |-> Append(s.out, e), error |-> s.error]
<1>1. Advanced(s, pos, e) = [d |-> s.d, pos |-> pos, out |-> Append(s.out, e), error |-> s.error]
  <2>1. s = [d |-> s.d, pos |-> s.pos, out |-> s.out, error |-> s.error]
    BY StatesAre
  <2> DEFINE o == Append(s.out, e)
  <2> HIDE DEF o
  <2>2. Advanced(s, pos, e) = [s EXCEPT !.pos = pos, !.out = o]
    BY <2>1 DEF Advanced, o
  <2>3. [s EXCEPT !.pos = pos, !.out = o] = [d |-> s.d, pos |-> pos, out |-> o, error |-> s.error]
    <3>1. PICK d1, p1, o1, e1 : s = [d |-> d1, pos |-> p1, out |-> o1, error |-> e1]
      BY <2>1
    <3> DEFINE r == [s EXCEPT !.pos = pos]
    <3>2. r = [d |-> d1, pos |-> pos, out |-> o1, error |-> e1]
      BY <3>1
    <3>3. s.d = d1 /\ s.error = e1
      BY <3>1
    <3> HIDE DEF r
    <3>4. [r EXCEPT !.out = o] = [d |-> d1, pos |-> pos, out |-> o, error |-> e1]
      BY <3>2
    <3> QED
      BY <3>3, <3>4 DEF r
  <2> QED
    BY <2>2, <2>3 DEF o
<1>2. s.out \in Seq(Entries) /\ Bounded(s.d) /\ s.error \in Errors
  BY StatesAre
<1>3. Append(s.out, e) \in Seq(Entries)
  BY <1>2
<1>4. [d |-> s.d, pos |-> pos, out |-> Append(s.out, e), error |-> s.error] \in LoopStates(block)
  BY <1>2, <1>3, StateIs
<1> QED
  BY <1>1, <1>4

LEMMA LookupIs ==
    ASSUME NEW d \in Decoders, NEW index \in Nat
    PROVE  Lookup(d, index).error \in Errors /\ Lookup(d, index).entry \in Entries
<1>1. d.table \in Seq(Entries) /\ StaticTable \in Seq(Entries)
  BY StaticAssumption DEF Decoders
<1>2. Len(StaticTable) \in Nat /\ \A i \in 1..Len(StaticTable) : StaticTable[i] \in Entries
  BY <1>1
<1>3. Len(d.table) \in Nat /\ \A i \in 1..Len(d.table) : d.table[i] \in Entries
  BY <1>1
<1>4. [name |-> << >>, value |-> << >>] \in Entries
  BY DEF Entries
<1>5. CASE index \in 1..Len(StaticTable)
  <2>1. Lookup(d, index) = [error |-> "none", entry |-> StaticTable[index]]
    BY <1>5 DEF Lookup
  <2> QED
    BY <1>2, <1>5, <2>1 DEF Errors
<1>6. CASE index \notin 1..Len(StaticTable) /\ index - Len(StaticTable) \in 1..Len(d.table)
  <2>1. Lookup(d, index) = [error |-> "none", entry |-> d.table[index - Len(StaticTable)]]
    BY <1>6 DEF Lookup
  <2> QED
    BY <1>3, <1>6, <2>1 DEF Errors
<1>7. CASE index \notin 1..Len(StaticTable) /\ index - Len(StaticTable) \notin 1..Len(d.table)
  <2>1. Lookup(d, index) = [error |-> "invalid_index", entry |-> [name |-> << >>, value |-> << >>]]
    BY <1>7 DEF Lookup
  <2> QED
    BY <1>4, <2>1 DEF Errors
<1> QED
  BY <1>5, <1>6, <1>7

\* Where the name of a literal comes from.
NameOfLiteral(s, block, index) ==
    IF index.v = 0 THEN ReadString(block, index.pos) ELSE NameAt(Lookup(s.d, index.v), index.pos)

LEMMA NameIs ==
    ASSUME NEW block \in Seq(Bytes), NEW s \in LoopStates(block), NEW index,
           index.v \in Nat, index.pos \in 1..(Len(block) + 1)
    PROVE  LET name == NameOfLiteral(s, block, index)
           IN  /\ name.error \in Errors
               /\ name.error = "none" => name.v \in Seq(Bytes) /\ name.pos \in index.pos..(Len(block) + 1)
<1>1. Len(block) \in Nat /\ index.pos \in Nat /\ index.pos >= 1 /\ s.d \in Decoders
  BY StatesAre
<1>2. CASE index.v = 0
  <2> DEFINE read == ReadString(block, index.pos)
  <2>1. NameOfLiteral(s, block, index) = read
    BY <1>2 DEF NameOfLiteral
  <2>2. /\ read.error \in Errors
        /\ read.error = "none" => read.v \in Seq(Bytes) /\ read.pos \in (index.pos + 1)..(Len(block) + 1)
    BY <1>1, ReadStringIs
  <2> HIDE DEF read
  <2>3. read.error = "none" => read.pos \in index.pos..(Len(block) + 1)
    BY <1>1, <2>2
  <2> QED
    BY <2>1, <2>2, <2>3
<1>3. CASE index.v # 0
  <2> DEFINE looked == Lookup(s.d, index.v)
  <2>1. looked.error \in Errors /\ looked.entry \in Entries
    BY <1>1, LookupIs
  <2> HIDE DEF looked
  <2>2. NameOfLiteral(s, block, index) = [error |-> looked.error, v |-> looked.entry.name, pos |-> index.pos]
    BY <1>3 DEF NameOfLiteral, NameAt, looked
  <2>3. looked.entry.name \in Seq(Bytes)
    BY <2>1 DEF Entries
  <2>4. index.pos \in index.pos..(Len(block) + 1)
    BY <1>1
  <2> QED
    BY <2>1, <2>2, <2>3, <2>4
<1> QED
  BY <1>2, <1>3

\* A literal fails and leaves the state as it was, or takes bytes and gives a header.
LiteralEnds(s, block, lit) ==
    \/ \E e \in Errors : e # "none" /\ lit = Failed(s, e)
    \/ \E pos \in (s.pos + 1)..(Len(block) + 1) : \E h \in Entries : lit = Advanced(s, pos, h)

LEMMA LiteralIs ==
    ASSUME NEW block \in Seq(Bytes), NEW s \in LoopStates(block), NEW n \in Nat
    PROVE  LiteralEnds(s, block, Literal(s, block, n))
<1> DEFINE index == ReadInteger(block, s.pos, n)
           name == NameOfLiteral(s, block, index)
           value == ReadString(block, name.pos)
           lit == Literal(s, block, n)
<1>1. s.pos \in Nat /\ s.pos >= 1 /\ Len(block) \in Nat
  BY StatesAre
<1>2. /\ index \in IntegerResults
      /\ index.error = "none" => s.pos <= Len(block) /\ index.pos \in (s.pos + 1)..(Len(block) + 1)
  BY <1>1, ReadIntegerIs
<1>3. index.error = "none" => /\ name.error \in Errors
                              /\ name.error = "none" => /\ name.v \in Seq(Bytes)
                                                        /\ name.pos \in index.pos..(Len(block) + 1)
  <2> SUFFICES ASSUME index.error = "none"
               PROVE  /\ name.error \in Errors
                      /\ name.error = "none" => /\ name.v \in Seq(Bytes)
                                                /\ name.pos \in index.pos..(Len(block) + 1)
    OBVIOUS
  <2> HIDE DEF index
  <2>1. index.v \in Nat /\ index.pos \in 1..(Len(block) + 1)
    BY <1>1, <1>2 DEF IntegerResults
  <2> QED
    BY <2>1, NameIs
<1>4. (name.pos \in Nat /\ name.pos >= 1) =>
        /\ value.error \in Errors
        /\ value.error = "none" => value.v \in Seq(Bytes) /\ value.pos \in (name.pos + 1)..(Len(block) + 1)
  <2> HIDE DEF name
  <2> QED
    BY ReadStringIs
<1>5. lit = WithIndex(s, block, index)
  BY DEF Literal
<1> HIDE DEF value, lit
<1>6. CASE index.error # "none"
  <2>1. lit = Failed(s, index.error)
    BY <1>5, <1>6 DEF WithIndex
  <2>2. index.error \in Errors
    <3> HIDE DEF index
    <3> QED
      BY <1>2 DEF IntegerResults, Errors
  <2> QED
    BY <1>6, <2>1, <2>2 DEF LiteralEnds, lit
<1> HIDE DEF index
<1>7. CASE index.error = "none" /\ name.error # "none"
  <2>1. lit = WithName(s, block, name)
    BY <1>5, <1>7 DEF WithIndex, NameOfLiteral
  <2> HIDE DEF name
  <2>2. lit = Failed(s, name.error) /\ name.error \in Errors
    BY <1>3, <1>7, <2>1 DEF WithName
  <2> QED
    BY <1>7, <2>2 DEF LiteralEnds, lit, index
<1>8. CASE index.error = "none" /\ name.error = "none"
  <2>1. lit = WithName(s, block, name)
    BY <1>5, <1>8 DEF WithIndex, NameOfLiteral
  <2> HIDE DEF name
  <2>2. lit = WithValue(s, name, value)
    BY <1>8, <2>1 DEF WithName, value
  <2>3. name.v \in Seq(Bytes) /\ name.pos \in (s.pos + 1)..(Len(block) + 1) /\ name.pos \in Nat /\ name.pos >= 1
    BY <1>1, <1>2, <1>3, <1>8
  <2>4. CASE value.error # "none"
    <3>1. lit = Failed(s, value.error) /\ value.error \in Errors
      BY <1>4, <2>2, <2>3, <2>4 DEF WithValue
    <3> QED
      BY <2>4, <3>1 DEF LiteralEnds, lit, index
  <2>5. CASE value.error = "none"
    <3>1. value.v \in Seq(Bytes) /\ value.pos \in (s.pos + 1)..(Len(block) + 1)
      BY <1>1, <1>4, <2>3, <2>5
    <3> DEFINE h == [name |-> name.v, value |-> value.v]
    <3>2. h \in Entries
      BY <2>3, <3>1 DEF Entries
    <3>3. lit = Advanced(s, value.pos, h)
      BY <2>2, <2>5 DEF WithValue, Advanced
    <3> HIDE DEF h
    <3> QED
      BY <3>1, <3>2, <3>3 DEF LiteralEnds, lit, index
  <2> QED
    BY <2>4, <2>5
<1> QED
  BY <1>6, <1>7, <1>8

LEMMA IndexedIs ==
    ASSUME NEW block \in Seq(Bytes), NEW s \in LoopStates(block)
    PROVE  LiteralEnds(s, block, Indexed(s, block))
<1> DEFINE index == ReadInteger(block, s.pos, 7)
           looked == Lookup(s.d, index.v)
           f == Indexed(s, block)
<1>1. s.pos \in Nat /\ s.pos >= 1 /\ Len(block) \in Nat /\ 7 \in Nat /\ s.d \in Decoders
  BY StatesAre
<1>2. /\ index \in IntegerResults
      /\ index.error = "none" => index.pos \in (s.pos + 1)..(Len(block) + 1)
  BY <1>1, ReadIntegerIs
<1>3. f = Referred(s, index, looked)
  BY DEF Indexed, ReferredTo
<1> HIDE DEF f, index
<1>4. index.v \in Nat /\ index.error \in Errors
  BY <1>2 DEF IntegerResults, Errors
<1>5. looked.error \in Errors /\ looked.entry \in Entries
  BY <1>1, <1>4, LookupIs
<1> HIDE DEF looked
<1>6. CASE index.error # "none"
  <2>1. f = Failed(s, index.error)
    BY <1>3, <1>6 DEF Referred
  <2> QED
    BY <1>4, <1>6, <2>1 DEF LiteralEnds, f
<1>7. CASE index.error = "none" /\ looked.error # "none"
  <2>1. f = Failed(s, looked.error)
    BY <1>3, <1>7 DEF Referred
  <2> QED
    BY <1>5, <1>7, <2>1 DEF LiteralEnds, f
<1>8. CASE index.error = "none" /\ looked.error = "none"
  <2>1. f = Advanced(s, index.pos, looked.entry)
    BY <1>3, <1>8 DEF Referred, Advanced
  <2> QED
    BY <1>2, <1>5, <1>8, <2>1 DEF LiteralEnds, f
<1> QED
  BY <1>6, <1>7, <1>8

\* A round that fails, or takes bytes.
RoundEnds(s, block, f) == f \in LoopStates(block) /\ (f.error # "none" \/ f.pos > s.pos)

LEMMA EndsAre ==
    ASSUME NEW block \in Seq(Bytes), NEW s \in LoopStates(block), NEW f, LiteralEnds(s, block, f)
    PROVE  RoundEnds(s, block, f)
<1>1. s.pos \in Nat /\ s.pos >= 1 /\ Len(block) \in Nat
  BY StatesAre
<1>2. ASSUME NEW e \in Errors, e # "none", f = Failed(s, e)
      PROVE  RoundEnds(s, block, f)
  BY <1>2, FailedIs DEF RoundEnds
<1>3. ASSUME NEW pos \in (s.pos + 1)..(Len(block) + 1), NEW h \in Entries, f = Advanced(s, pos, h)
      PROVE  RoundEnds(s, block, f)
  <2>1. pos \in 1..(Len(block) + 1) /\ pos > s.pos
    BY <1>1
  <2>2. f \in LoopStates(block)
        /\ f = [d |-> s.d, pos |-> pos, out |-> Append(s.out, h), error |-> s.error]
    BY <1>3, <2>1, AdvancedIs
  <2>3. f.pos = pos
    BY <2>2
  <2> QED
    BY <2>1, <2>2, <2>3 DEF RoundEnds
<1> QED
  BY <1>2, <1>3 DEF LiteralEnds

LEMMA BoundedIs ==
    ASSUME NEW t \in Seq(Entries), NEW max \in Nat, max <= Announced
    PROVE  Bounded(Having(Fitting(t, max), max))
<1> DEFINE u == Fitting(t, max)
<1>1. u \in Seq(Entries) /\ TableSize(u) <= max
  BY FittingTypes
<1> HIDE DEF u
<1>2. Kept(Having(u, max)) /\ Having(u, max).size = TableSize(u) /\ Having(u, max).max = max
  BY <1>1, HavingIs
<1>3. Bounded(Having(u, max))
  BY <1>1, <1>2 DEF Bounded
<1> QED
  BY <1>3 DEF u

LEMMA LastAppended ==
    ASSUME NEW S, NEW o \in Seq(S), NEW e \in S
    PROVE  Last(Append(o, e)) = e
<1> DEFINE u == Append(o, e)
<1>1. Len(u) = Len(o) + 1 /\ u[Len(o) + 1] = e
  OBVIOUS
<1> HIDE DEF u
<1>2. Last(u) = e
  BY <1>1 DEF Last
<1> QED
  BY <1>2 DEF u

LEMMA RememberedIs ==
    ASSUME NEW block \in Seq(Bytes), NEW s \in LoopStates(block), s.error = "none",
           NEW pos \in 1..(Len(block) + 1), NEW h \in Entries
    PROVE  /\ Remembered(Advanced(s, pos, h))
                = [d |-> Having(Fitting(<<h>> \o s.d.table, s.d.max), s.d.max), pos |-> pos,
                   out |-> Append(s.out, h), error |-> "none"]
           /\ Remembered(Advanced(s, pos, h)) \in LoopStates(block)
<1> DEFINE a == Advanced(s, pos, h)
           t == s.d.table
           max == s.d.max
           d == Having(Fitting(<<h>> \o t, max), max)
           o == Append(s.out, h)
<1>1. a = [d |-> s.d, pos |-> pos, out |-> o, error |-> "none"]
  BY AdvancedIs
<1>2. Bounded(s.d) /\ s.out \in Seq(Entries)
  BY StatesAre
<1>3. t \in Seq(Entries) /\ max \in Nat /\ s.d = Having(t, max) /\ max <= Announced
  BY <1>2, KeptIs DEF Bounded
<1>4. o \in Seq(Entries) /\ Last(o) = h
  BY <1>2, LastAppended
<1>5. Add(s.d, h) = d
  <2> HIDE DEF t, max
  <2> QED
    BY <1>3, AddIs
<1>6. Bounded(d)
  <2>1. <<h>> \o t \in Seq(Entries)
    BY <1>3, FrontIs
  <2> HIDE DEF t, max
  <2> QED
    BY <1>3, <2>1, BoundedIs
<1> HIDE DEF a, o, d
<1>7. a.error = "none" /\ a.out = o /\ a.d = s.d
  BY <1>1
<1>8. Remembered(a) = [a EXCEPT !.d = d]
  BY <1>4, <1>5, <1>7 DEF Remembered
<1>9. [a EXCEPT !.d = d] = [d |-> d, pos |-> pos, out |-> o, error |-> "none"]
  BY <1>1
<1>10. "none" \in Errors
  BY DEF Errors
<1>11. [d |-> d, pos |-> pos, out |-> o, error |-> "none"] \in LoopStates(block)
  BY <1>4, <1>6, <1>10, StateIs
<1> QED
  BY <1>8, <1>9, <1>11 DEF a, o, d

LEMMA UpdateIs ==
    ASSUME NEW block \in Seq(Bytes), NEW s \in LoopStates(block), s.error = "none",
           NEW size, size.error = "none", size.v \in Nat, size.v <= s.d.max,
           size.pos \in 1..(Len(block) + 1)
    PROVE  /\ Resized(s, size) = [d |-> Having(Fitting(s.d.table, size.v), size.v), pos |-> size.pos,
                                  out |-> s.out, error |-> "none"]
           /\ Resized(s, size) \in LoopStates(block)
<1> DEFINE t == s.d.table
           d == Having(Fitting(t, size.v), size.v)
<1>1. Bounded(s.d) /\ s.out \in Seq(Entries)
      /\ s = [d |-> s.d, pos |-> s.pos, out |-> s.out, error |-> s.error]
  BY StatesAre
<1>2. t \in Seq(Entries) /\ s.d.max \in Nat /\ s.d = Having(t, s.d.max) /\ s.d.max <= Announced
  BY <1>1, KeptIs DEF Bounded
<1>3. Resize(s.d, size.v) = d
  <2>1. Resize(Having(t, s.d.max), size.v) = d
    <3> HIDE DEF t
    <3> QED
      BY <1>2, ResizeIs
  <2> QED
    BY <1>2, <2>1
<1>4. Bounded(d)
  <2>1. size.v <= Announced /\ Announced \in Nat
    BY <1>2, SizesAssumption
  <2> HIDE DEF t
  <2> QED
    BY <1>2, <2>1, BoundedIs
<1> HIDE DEF d
<1>5. Resized(s, size) = [s EXCEPT !.pos = size.pos, !.d = d]
  <2>1. ~(size.v > s.d.max)
    BY <1>2
  <2> QED
    BY <1>3, <2>1 DEF Resized
<1>6. [s EXCEPT !.pos = size.pos, !.d = d] = [d |-> d, pos |-> size.pos, out |-> s.out, error |-> "none"]
  <2>1. PICK d1, p1, o1, e1 : s = [d |-> d1, pos |-> p1, out |-> o1, error |-> e1]
    BY <1>1
  <2> DEFINE r == [s EXCEPT !.pos = size.pos]
  <2>2. r = [d |-> d1, pos |-> size.pos, out |-> o1, error |-> e1]
    BY <2>1
  <2>3. s.out = o1 /\ s.error = e1
    BY <2>1
  <2> HIDE DEF r
  <2>4. [r EXCEPT !.d = d] = [d |-> d, pos |-> size.pos, out |-> o1, error |-> e1]
    BY <2>2
  <2> QED
    BY <2>3, <2>4 DEF r
<1>7. "none" \in Errors
  BY DEF Errors
<1>8. [d |-> d, pos |-> size.pos, out |-> s.out, error |-> "none"] \in LoopStates(block)
  BY <1>1, <1>4, <1>7, StateIs
<1> QED
  BY <1>5, <1>6, <1>8 DEF d

\* The four representations.
LEMMA FieldCases ==
    ASSUME NEW block \in Seq(Bytes), NEW s \in LoopStates(block), ~Over(s, block)
    PROVE  /\ s.error = "none" /\ s.pos \in 1..Len(block) /\ block[s.pos] \in 0..255
           /\ block[s.pos] >= 128 => Field(s, block) = Indexed(s, block)
           /\ block[s.pos] \in 64..127 => Field(s, block) = Remembered(Literal(s, block, 6))
           /\ block[s.pos] \in 32..63 => Field(s, block) = SizeUpdate(s, block)
           /\ block[s.pos] < 32 => Field(s, block) = Literal(s, block, 4)
<1>1. s.pos \in Nat /\ s.pos >= 1 /\ Len(block) \in Nat
  BY StatesAre
<1>2. s.error = "none" /\ s.pos \in 1..Len(block)
  BY <1>1 DEF Over
<1>3. block[s.pos] \in 0..255
  BY <1>2, BytesAre DEF Bytes
<1> DEFINE b == block[s.pos]
<1> HIDE DEF b
<1>4. b \in 0..255
  BY <1>3 DEF b
<1>5. Field(s, block) = CASE b >= 128 -> Indexed(s, block)
                          [] b \in 64..127 -> Remembered(Literal(s, block, 6))
                          [] b \in 32..63 -> SizeUpdate(s, block)
                          [] b < 32 -> Literal(s, block, 4)
  BY DEF Field, b
<1>6. b >= 128 => Field(s, block) = Indexed(s, block)
  <2>1. b >= 128 => ~(b \in 64..127) /\ ~(b \in 32..63) /\ ~(b < 32)
    BY <1>4
  <2> QED
    BY <1>5, <2>1, Zenon
<1>7. b \in 64..127 => Field(s, block) = Remembered(Literal(s, block, 6))
  <2>1. b \in 64..127 => ~(b >= 128) /\ ~(b \in 32..63) /\ ~(b < 32)
    BY <1>4
  <2> QED
    BY <1>5, <2>1, Zenon
<1>8. b \in 32..63 => Field(s, block) = SizeUpdate(s, block)
  <2>1. b \in 32..63 => ~(b >= 128) /\ ~(b \in 64..127) /\ ~(b < 32)
    BY <1>4
  <2> QED
    BY <1>5, <2>1, Zenon
<1>9. b < 32 => Field(s, block) = Literal(s, block, 4)
  <2>1. b < 32 => ~(b >= 128) /\ ~(b \in 64..127) /\ ~(b \in 32..63)
    BY <1>4
  <2> QED
    BY <1>5, <2>1, Zenon
<1> QED
  BY <1>2, <1>3, <1>6, <1>7, <1>8, <1>9 DEF b

LEMMA RememberedEnds ==
    ASSUME NEW block \in Seq(Bytes), NEW s \in LoopStates(block), s.error = "none",
           NEW lit, LiteralEnds(s, block, lit)
    PROVE  RoundEnds(s, block, Remembered(lit))
<1>1. s.pos \in Nat /\ s.pos >= 1 /\ Len(block) \in Nat
  BY StatesAre
<1>2. ASSUME NEW e \in Errors, e # "none", lit = Failed(s, e)
      PROVE  RoundEnds(s, block, Remembered(lit))
  <2>1. lit \in LoopStates(block) /\ lit.error # "none"
    BY <1>2, FailedIs
  <2>2. Remembered(lit) = lit
    BY <2>1 DEF Remembered
  <2> QED
    BY <2>1, <2>2 DEF RoundEnds
<1>3. ASSUME NEW pos \in (s.pos + 1)..(Len(block) + 1), NEW h \in Entries, lit = Advanced(s, pos, h)
      PROVE  RoundEnds(s, block, Remembered(lit))
  <2> DEFINE f == Remembered(lit)
  <2>1. pos \in 1..(Len(block) + 1) /\ pos > s.pos
    BY <1>1
  <2>2. /\ f = [d |-> Having(Fitting(<<h>> \o s.d.table, s.d.max), s.d.max), pos |-> pos,
                out |-> Append(s.out, h), error |-> "none"]
        /\ f \in LoopStates(block)
    BY <1>3, <2>1, RememberedIs
  <2> HIDE DEF f
  <2>3. f.pos = pos
    BY <2>2
  <2> QED
    BY <2>1, <2>2, <2>3 DEF RoundEnds, f
<1> QED
  BY <1>2, <1>3 DEF LiteralEnds

LEMMA SizeUpdateEnds ==
    ASSUME NEW block \in Seq(Bytes), NEW s \in LoopStates(block), s.error = "none"
    PROVE  RoundEnds(s, block, SizeUpdate(s, block))
<1> DEFINE size == ReadInteger(block, s.pos, 5)
           f == SizeUpdate(s, block)
<1>1. s.pos \in Nat /\ s.pos >= 1 /\ Len(block) \in Nat /\ 5 \in Nat /\ Bounded(s.d)
  BY StatesAre
<1>2. /\ size \in IntegerResults
      /\ size.error = "none" => size.pos \in (s.pos + 1)..(Len(block) + 1)
  BY <1>1, ReadIntegerIs
<1>3. f = Resized(s, size)
  BY DEF SizeUpdate
<1> HIDE DEF size, f
<1>4. size.v \in Nat /\ size.error \in Errors /\ s.d.max \in Nat
  BY <1>1, <1>2, KeptIs DEF IntegerResults, Errors, Bounded
<1>5. CASE size.error # "none"
  <2>1. f = Failed(s, size.error)
    BY <1>3, <1>5 DEF Resized
  <2> QED
    BY <1>4, <1>5, <2>1, FailedIs DEF RoundEnds, f
<1>6. CASE size.error = "none" /\ size.v > s.d.max
  <2>1. f = Failed(s, "table_size_too_large")
    BY <1>3, <1>6 DEF Resized
  <2>2. "table_size_too_large" \in Errors /\ "table_size_too_large" # "none"
    BY DEF Errors
  <2>3. f \in LoopStates(block) /\ f.error # "none"
    BY <2>1, <2>2, FailedIs
  <2> QED
    BY <2>3 DEF RoundEnds, f
<1>7. CASE size.error = "none" /\ ~(size.v > s.d.max)
  <2>1. size.pos \in 1..(Len(block) + 1) /\ size.pos > s.pos /\ size.v <= s.d.max
    BY <1>1, <1>2, <1>4, <1>7
  <2>2. f = [d |-> Having(Fitting(s.d.table, size.v), size.v), pos |-> size.pos,
             out |-> s.out, error |-> "none"]
        /\ f \in LoopStates(block)
    BY <1>3, <1>4, <1>7, <2>1, UpdateIs
  <2>3. f.pos = size.pos
    BY <2>2
  <2> QED
    BY <2>1, <2>2, <2>3 DEF RoundEnds, f
<1> QED
  BY <1>5, <1>6, <1>7

LEMMA FieldIs ==
    ASSUME NEW block \in Seq(Bytes), NEW s \in LoopStates(block), ~Over(s, block)
    PROVE  RoundEnds(s, block, Field(s, block))
<1> DEFINE b == block[s.pos]
<1>1. /\ s.error = "none" /\ b \in 0..255
      /\ b >= 128 => Field(s, block) = Indexed(s, block)
      /\ b \in 64..127 => Field(s, block) = Remembered(Literal(s, block, 6))
      /\ b \in 32..63 => Field(s, block) = SizeUpdate(s, block)
      /\ b < 32 => Field(s, block) = Literal(s, block, 4)
  BY FieldCases
<1>2. 6 \in Nat /\ 4 \in Nat
  OBVIOUS
<1>3. LiteralEnds(s, block, Literal(s, block, 6)) /\ LiteralEnds(s, block, Literal(s, block, 4))
  BY <1>2, LiteralIs
<1> HIDE DEF b
<1>4. CASE b >= 128
  BY <1>1, <1>4, IndexedIs, EndsAre
<1>5. CASE b \in 64..127
  BY <1>1, <1>3, <1>5, RememberedEnds
<1>6. CASE b \in 32..63
  BY <1>1, <1>6, SizeUpdateEnds
<1>7. CASE b < 32
  BY <1>1, <1>3, <1>7, EndsAre
<1> QED
  BY <1>1, <1>4, <1>5, <1>6, <1>7

LEMMA LiteralStable ==
    ASSUME NEW long, NEW short, Extends(long, short), NEW s \in LoopStates(short), NEW n \in Nat,
           s.error = "none", Literal(s, short, n).error = "none"
    PROVE  Literal(s, long, n) = Literal(s, short, n)
<1> DEFINE index == ReadInteger(short, s.pos, n)
           name == NameOfLiteral(s, short, index)
           value == ReadString(short, name.pos)
           lit == Literal(s, short, n)
<1>0. long \in Seq(Bytes) /\ short \in Seq(Bytes)
  BY DEF Extends
<1>1. s.pos \in Nat /\ s.pos >= 1 /\ Len(short) \in Nat
  BY <1>0, StatesAre
<1>2. /\ index \in IntegerResults
      /\ index.error = "none" => index.pos \in (s.pos + 1)..(Len(short) + 1)
  BY <1>0, <1>1, ReadIntegerIs
<1>3. lit = WithIndex(s, short, index) /\ lit.error = "none"
  BY DEF Literal
<1>4. ASSUME NEW e, e # "none"
      PROVE  lit # Failed(s, e)
  <2>1. s = [d |-> s.d, pos |-> s.pos, out |-> s.out, error |-> s.error]
    BY <1>0, StatesAre
  <2>2. Failed(s, e).error = e
    BY <2>1 DEF Failed
  <2> HIDE DEF lit
  <2> QED
    BY <1>3, <1>4, <2>2
<1> HIDE DEF lit, value
<1>5. index.error = "none"
  BY <1>3, <1>4 DEF WithIndex
<1>6. index.pos \in Nat /\ index.pos >= 1 /\ index.pos \in 1..(Len(short) + 1) /\ index.v \in Nat
  <2> HIDE DEF index
  <2> QED
    BY <1>1, <1>2, <1>5 DEF IntegerResults
<1>7. ReadInteger(long, s.pos, n) = index
  BY <1>1, <1>5, IntegerStable
<1> HIDE DEF index
<1>8. lit = WithName(s, short, name)
  BY <1>3, <1>5 DEF WithIndex, NameOfLiteral
<1>9. name.error = "none"
  <2> HIDE DEF name
  <2> QED
    BY <1>4, <1>8 DEF WithName
<1>10. NameOfLiteral(s, long, index) = name
  <2>1. CASE index.v = 0
    <3>1. name = ReadString(short, index.pos) /\ NameOfLiteral(s, long, index) = ReadString(long, index.pos)
      BY <2>1 DEF NameOfLiteral
    <3>2. ReadString(short, index.pos).error = "none"
      BY <1>9, <3>1
    <3> QED
      BY <1>6, <3>1, <3>2, StringStable
  <2>2. CASE index.v # 0
    BY <2>2 DEF NameOfLiteral
  <2> QED
    BY <2>1, <2>2
<1>11. name.pos \in Nat /\ name.pos >= 1
  <2>1. name.pos \in index.pos..(Len(short) + 1)
    BY <1>0, <1>6, <1>9, NameIs
  <2> HIDE DEF name
  <2> QED
    BY <1>1, <1>6, <2>1
<1> HIDE DEF name
<1>12. lit = WithValue(s, name, value)
  BY <1>8, <1>9 DEF WithName, value
<1>13. value.error = "none"
  BY <1>4, <1>12 DEF WithValue
<1>14. ReadString(long, name.pos) = value
  BY <1>11, <1>13, StringStable DEF value
<1>15. Literal(s, long, n) = WithName(s, long, name)
  BY <1>5, <1>7, <1>10 DEF Literal, WithIndex, NameOfLiteral
<1>16. WithName(s, long, name) = WithValue(s, name, value)
  BY <1>9, <1>14 DEF WithName
<1> QED
  BY <1>12, <1>15, <1>16 DEF lit, index

\* A field that was read stays what it is when bytes follow.
LEMMA FieldStable ==
    ASSUME NEW long, NEW short, Extends(long, short), NEW s \in LoopStates(short), ~Over(s, short),
           Field(s, short).error = "none"
    PROVE  s \in LoopStates(long) /\ ~Over(s, long) /\ Field(s, long) = Field(s, short)
<1> DEFINE b == short[s.pos]
<1>1. long \in Seq(Bytes) /\ short \in Seq(Bytes) /\ \A k \in 1..Len(short) : long[k] = short[k]
  BY DEF Extends
<1>2. Len(long) \in Nat /\ Len(short) \in Nat /\ Len(short) <= Len(long)
  BY <1>1, BytesAre DEF Extends
<1>3. /\ s.error = "none" /\ s.pos \in 1..Len(short) /\ b \in 0..255
      /\ b >= 128 => Field(s, short) = Indexed(s, short)
      /\ b \in 64..127 => Field(s, short) = Remembered(Literal(s, short, 6))
      /\ b \in 32..63 => Field(s, short) = SizeUpdate(s, short)
      /\ b < 32 => Field(s, short) = Literal(s, short, 4)
  BY <1>1, FieldCases
<1>4. s.pos \in 1..Len(long) /\ long[s.pos] = b /\ s.pos \in Nat /\ s.pos >= 1
  <2>1. s.pos \in 1..Len(short)
    BY <1>3
  <2> QED
    BY <1>1, <1>2, <2>1
<1>5. s \in LoopStates(long) /\ ~Over(s, long)
  <2>1. s.pos \in 1..(Len(long) + 1) /\ ~(s.pos > Len(long))
    BY <1>2, <1>4
  <2> QED
    BY <1>3, <2>1 DEF LoopStates, Over
<1>6. /\ long[s.pos] >= 128 => Field(s, long) = Indexed(s, long)
      /\ long[s.pos] \in 64..127 => Field(s, long) = Remembered(Literal(s, long, 6))
      /\ long[s.pos] \in 32..63 => Field(s, long) = SizeUpdate(s, long)
      /\ long[s.pos] < 32 => Field(s, long) = Literal(s, long, 4)
  BY <1>1, <1>5, FieldCases
<1>7. s = [d |-> s.d, pos |-> s.pos, out |-> s.out, error |-> s.error]
  BY <1>1, StatesAre
<1>8. \A e : Failed(s, e).error = e
  BY <1>7 DEF Failed
<1> HIDE DEF b
<1>9. CASE b >= 128
  <2> DEFINE index == ReadInteger(short, s.pos, 7)
  <2>1. Field(s, short) = ReferredTo(s, index)
    BY <1>3, <1>9 DEF Indexed
  <2> HIDE DEF index
  <2>2. index.error = "none"
    <3> SUFFICES ASSUME index.error # "none"
                 PROVE  FALSE
      OBVIOUS
    <3>1. Field(s, short) = Failed(s, index.error)
      BY <2>1 DEF ReferredTo, Referred
    <3> QED
      BY <1>8, <3>1
  <2>3. ReadInteger(long, s.pos, 7) = index
    <3>1. 7 \in Nat
      OBVIOUS
    <3> QED
      BY <1>4, <2>2, <3>1, IntegerStable DEF index
  <2> QED
    BY <1>4, <1>5, <1>6, <1>9, <2>1, <2>3 DEF Indexed
<1>10. CASE b \in 64..127
  <2>1. Field(s, short) = Remembered(Literal(s, short, 6)) /\ 6 \in Nat
    BY <1>3, <1>10
  <2>2. Literal(s, short, 6).error = "none"
    <3> SUFFICES ASSUME Literal(s, short, 6).error # "none"
                 PROVE  FALSE
      OBVIOUS
    <3>1. Field(s, short) = Literal(s, short, 6)
      BY <2>1 DEF Remembered
    <3> QED
      BY <3>1
  <2>3. Literal(s, long, 6) = Literal(s, short, 6)
    BY <1>3, <2>1, <2>2, LiteralStable
  <2> QED
    BY <1>4, <1>5, <1>6, <1>10, <2>1, <2>3
<1>11. CASE b \in 32..63
  <2> DEFINE size == ReadInteger(short, s.pos, 5)
  <2>1. Field(s, short) = Resized(s, size)
    BY <1>3, <1>11 DEF SizeUpdate
  <2> HIDE DEF size
  <2>2. size.error = "none"
    <3> SUFFICES ASSUME size.error # "none"
                 PROVE  FALSE
      OBVIOUS
    <3>1. Field(s, short) = Failed(s, size.error)
      BY <2>1 DEF Resized
    <3> QED
      BY <1>8, <3>1
  <2>3. ReadInteger(long, s.pos, 5) = size
    <3>1. 5 \in Nat
      OBVIOUS
    <3> QED
      BY <1>4, <2>2, <3>1, IntegerStable DEF size
  <2> QED
    BY <1>4, <1>5, <1>6, <1>11, <2>1, <2>3 DEF SizeUpdate
<1>12. CASE b < 32
  <2>1. Field(s, short) = Literal(s, short, 4) /\ 4 \in Nat
    BY <1>3, <1>12
  <2>2. Literal(s, short, 4).error = "none"
    BY <2>1
  <2>3. Literal(s, long, 4) = Literal(s, short, 4)
    BY <1>3, <2>1, <2>2, LiteralStable
  <2> QED
    BY <1>4, <1>5, <1>6, <1>12, <2>1, <2>3
<1> QED
  BY <1>3, <1>9, <1>10, <1>11, <1>12

Begun(d) == [d |-> d, pos |-> 1, out |-> << >>, error |-> "none"]
LoopRun(r, d, block) ==
    /\ r \in [0..Len(block) -> LoopStates(block)] /\ r[0] = Begun(d)
    /\ \A k \in 1..Len(block) : r[k] = Round(r[k - 1], block)

LEMMA OverStays ==
    ASSUME NEW block \in Seq(Bytes), NEW d, NEW r, LoopRun(r, d, block),
           NEW i \in 0..Len(block), Over(r[i], block), NEW j \in i..Len(block)
    PROVE  r[j] = r[i]
<1> DEFINE T == {k \in Nat : i + k <= Len(block) => r[i + k] = r[i]}
<1>1. Len(block) \in Nat /\ i \in Nat /\ j \in Nat
  BY BytesAre
<1>2. 0 \in T
  BY <1>1
<1>3. ASSUME NEW k \in 1..(j - i), k - 1 \in T
      PROVE  k \in T
  <2> SUFFICES ASSUME i + k <= Len(block)
               PROVE  r[i + k] = r[i]
    BY <1>1
  <2>1. i + k \in 1..Len(block) /\ (i + k) - 1 = i + (k - 1) /\ i + (k - 1) <= Len(block)
    BY <1>1
  <2>2. r[i + (k - 1)] = r[i]
    BY <1>3, <2>1
  <2>3. r[i + k] = Round(r[i + (k - 1)], block)
    BY <2>1 DEF LoopRun
  <2> QED
    BY <2>2, <2>3 DEF Round
<1>4. j - i \in T
  <2> HIDE DEF T
  <2>1. j - i \in Nat /\ j - i \in 0..(j - i)
    BY <1>1
  <2> QED
    BY <1>2, <1>3, <2>1, UpTo
<1>5. i + (j - i) = j /\ j <= Len(block)
  BY <1>1
<1> QED
  BY <1>4, <1>5

\* There is a run of the loop; it is over after as many rounds as the block has
\* bytes, and decode_headers returns what it came to.
LEMMA DecodeRuns ==
    ASSUME NEW block \in Seq(Bytes), NEW d, Bounded(d)
    PROVE  \E r : /\ LoopRun(r, d, block)
                  /\ DecodeHeaders(d, block) = r[Len(block)] /\ Over(r[Len(block)], block)
<1> DEFINE n == Len(block)
           S == LoopStates(block)
           a == Begun(d)
           Then(x, k) == Round(x, block)
           after == CHOOSE s : s = [k \in 0..n |-> IF k = 0 THEN a ELSE Then(s[k - 1], k)]
           g == [k \in 1..n |-> [x \in S |-> Then(x, k)]]
           end == CHOOSE k \in 0..n : Over(after[k], block)
<1>1. n \in Nat
  BY BytesAre
<1>2. DecodeHeaders(d, block) = after[end]
  BY DEF DecodeHeaders, Begun
<1>3. a \in S
  <2>1. 1 \in 1..(Len(block) + 1) /\ << >> \in Seq(Entries) /\ "none" \in Errors
    BY <1>1 DEF Errors
  <2> QED
    BY <2>1, StateIs DEF Begun
<1>4. \A k \in 1..n : \A x \in S : Then(x, k) \in S
  BY FieldIs DEF Round, RoundEnds
<1> HIDE DEF n, Then, a, S
<1>5. PICK r : IsRun(r, n, S, a, g)
  <2>1. Steps(n, S, a, g)
    BY <1>1, <1>3, <1>4 DEF Steps
  <2> HIDE DEF g
  <2> QED
    BY <2>1, Iterates
<1>6. r \in [0..n -> S] /\ r[0] = a /\ \A k \in 1..n : r[k] = Then(r[k - 1], k)
  BY <1>1, <1>5 DEF IsRun
<1>7. r = [k \in 0..n |-> IF k = 0 THEN a ELSE Then(r[k - 1], k)]
  BY <1>1, <1>6
<1>8. after = [k \in 0..n |-> IF k = 0 THEN a ELSE Then(after[k - 1], k)]
  BY <1>7
<1> HIDE DEF after
<1>9. r = after
  <2>1. Alike(after, r, n)
    BY <1>1, <1>6, <1>8 DEF Alike
  <2>2. \A k \in 0..n : after[k] = r[k]
    BY <2>1, Agree
  <2> QED
    BY <1>6, <1>8, <2>2
<1>10. LoopRun(r, d, block)
  BY <1>6 DEF LoopRun, n, a, Then, S
<1>11. Over(r[n], block)
  <2> DEFINE T == {k \in 0..n : Over(r[k], block) \/ r[k].pos >= k + 1}
  <2>1. 0 \in T
    <3>1. r[0].pos = 1
      BY <1>6 DEF a, Begun
    <3> QED
      BY <1>1, <3>1
  <2>2. ASSUME NEW k \in 1..n, k - 1 \in T
        PROVE  k \in T
    <3>1. r[k] = Round(r[k - 1], block) /\ k - 1 \in 0..n /\ r[k - 1] \in LoopStates(block)
          /\ r[k] \in LoopStates(block)
      BY <1>1, <1>6 DEF Then, S
    <3>2. CASE Over(r[k - 1], block)
      BY <3>1, <3>2 DEF Round
    <3>3. CASE ~Over(r[k - 1], block)
      <4>1. r[k] = Field(r[k - 1], block) /\ r[k - 1].pos >= (k - 1) + 1
        BY <2>2, <3>1, <3>3 DEF Round
      <4>2. r[k].error # "none" \/ r[k].pos > r[k - 1].pos
        BY <3>1, <3>3, <4>1, FieldIs DEF RoundEnds
      <4>3. r[k].pos \in Nat /\ r[k - 1].pos \in Nat
        BY <3>1, StatesAre
      <4>4. CASE r[k].error # "none"
        BY <4>4 DEF Over
      <4>5. CASE r[k].pos > r[k - 1].pos
        <5>1. r[k].pos >= k + 1
          BY <4>1, <4>3, <4>5
        <5> QED
          BY <5>1
      <4> QED
        BY <4>2, <4>4, <4>5
    <3> QED
      BY <3>2, <3>3
  <2>3. n \in T
    <3> HIDE DEF T
    <3>1. 0..n \subseteq T
      BY <1>1, <2>1, <2>2, UpTo
    <3> QED
      BY <1>1, <3>1
  <2>4. CASE r[n].pos >= n + 1
    <3>1. r[n] \in LoopStates(block)
      BY <1>1, <1>6 DEF S
    <3>2. r[n].pos \in Nat
      BY <3>1, StatesAre
    <3> QED
      BY <1>1, <2>4, <3>2 DEF Over, n
  <2> QED
    BY <2>3, <2>4
<1>12. end \in 0..n /\ Over(after[end], block)
  <2>1. n \in 0..n /\ Over(after[n], block)
    BY <1>1, <1>9, <1>11
  <2> QED
    BY <2>1
<1> HIDE DEF end
<1>13. r[n] = r[end]
  <2>1. end \in 0..Len(block) /\ Over(r[end], block) /\ Len(block) \in end..Len(block)
    BY <1>1, <1>9, <1>12 DEF n
  <2> QED
    BY <1>10, <2>1, OverStays DEF n
<1> QED
  BY <1>2, <1>9, <1>10, <1>11, <1>13 DEF n

-----------------------------------------------------------------------------
(* Integers, written and read.                                             *)

LEMMA Beyond ==
    ASSUME NEW n \in Nat
    PROVE  2 ^ n > n
<1> DEFINE T == {k \in Nat : 2 ^ k > k}
<1>1. 0 \in T
  BY Doubling
<1>2. ASSUME NEW k \in 1..n, k - 1 \in T
      PROVE  k \in T
  <2>1. k - 1 \in Nat /\ (k - 1) + 1 = k /\ k \in Nat /\ 2 ^ (k - 1) > k - 1
    BY <1>2
  <2>2. 2 ^ (k - 1) \in Nat /\ 2 ^ k = 2 * 2 ^ (k - 1)
    BY <2>1, Doubling
  <2>3. 2 ^ k > k
    BY <2>1, <2>2
  <2> QED
    BY <2>1, <2>3
<1>3. n \in T
  <2> HIDE DEF T
  <2>1. 0..n \subseteq T
    BY <1>1, <1>2, UpTo
  <2> QED
    BY <2>1
<1> QED
  BY <1>3

LEMMA DivUnique ==
    ASSUME NEW m \in Nat, NEW q \in Nat, NEW v \in Nat, v < m
    PROVE  (m * q + v) \div m = q
  OBVIOUS

\* Seven bits more.
LEMMA DivAgain ==
    ASSUME NEW r \in Nat, NEW P \in Nat, P > 0
    PROVE  (r \div P) \div 128 = r \div (128 * P)
<1> DEFINE q == r \div P
           s == r % P
           a == q \div 128
           t == q % 128
           m == 128 * P
           v == t * P + s
<1>1. q \in Nat /\ s \in Nat /\ s < P /\ r = P * q + s
  BY Modulo
<1> HIDE DEF q, s
<1>2. a \in Nat /\ t \in Nat /\ t <= 127 /\ q = 128 * a + t
  BY <1>1
<1> HIDE DEF a, t
<1>3. P * q = m * a + t * P
  <2>1. P * (128 * a + t) = P * (128 * a) + P * t
    BY <1>2
  <2>2. P * (128 * a) = (128 * P) * a /\ P * t = t * P
    BY <1>2
  <2> QED
    BY <1>2, <2>1, <2>2
<1>4. t * P \in Nat /\ t * P <= 127 * P
  BY <1>2
<1>5. m \in Nat /\ v \in Nat /\ v < m
  BY <1>1, <1>4
<1>6. m * a \in Nat
  BY <1>2, <1>5
<1>7. r = m * a + v
  <2> DEFINE x == m * a
             y == t * P
             z == P * q
  <2>1. r = z + s /\ z = x + y /\ v = y + s
    BY <1>1, <1>3
  <2>2. x \in Nat /\ y \in Nat
    BY <1>4, <1>6
  <2> HIDE DEF x, y, z, v
  <2>3. r = x + v
    BY <1>1, <2>1, <2>2
  <2> QED
    BY <2>3 DEF x
<1> HIDE DEF m, v
<1>8. r \div m = a
  BY <1>2, <1>5, <1>7, DivUnique
<1> QED
  BY <1>8 DEF a, q, m

LEMMA RemainingIs ==
    ASSUME NEW r \in Nat, NEW i \in Nat
    PROVE  /\ Remaining(r, i) \in Nat /\ 2 ^ (7 * i) \in Nat /\ 2 ^ (7 * i) > 0
           /\ Remaining(r, i) * 2 ^ (7 * i) <= r /\ Remaining(r, i) * 2 ^ (7 * i) \in Nat
           /\ 2 ^ (7 * (i + 1)) = 128 * 2 ^ (7 * i)
           /\ Remaining(r, i + 1) = Remaining(r, i) \div 128
           /\ Remaining(r, 0) = r
<1> DEFINE P == 2 ^ (7 * i)
<1>1. 7 * i \in Nat /\ 7 * (i + 1) = 7 * i + 7
  OBVIOUS
<1>2. P \in Nat /\ P > 0 /\ 2 ^ (7 * (i + 1)) = 128 * P
  BY <1>1, Doubling, TimesSeven
<1>3. Remaining(r, i) = r \div P /\ Remaining(r, i + 1) = r \div (128 * P)
  BY <1>2 DEF Remaining
<1> HIDE DEF P
<1>4. r \div P \in Nat /\ r % P \in Nat /\ r = P * (r \div P) + (r % P)
  BY <1>2, Modulo
<1>5. (r \div P) * P <= r /\ (r \div P) * P \in Nat
  <2> DEFINE q == r \div P
             x == P * q
  <2>1. x \in Nat /\ q * P = x
    BY <1>2, <1>4
  <2> HIDE DEF x, q
  <2>2. r = x + (r % P)
    BY <1>4 DEF x, q
  <2> QED
    BY <1>4, <2>1, <2>2 DEF q
<1>6. Remaining(r, i + 1) = Remaining(r, i) \div 128
  BY <1>2, <1>3, DivAgain
<1>7. Remaining(r, 0) = r
  <2>1. 2 ^ (7 * 0) = 1
    OBVIOUS
  <2> QED
    BY <2>1 DEF Remaining
<1> QED
  BY <1>2, <1>3, <1>4, <1>5, <1>6, <1>7 DEF P

LEMMA FlaggedIs ==
    ASSUME NEW r \in Nat
    PROVE  /\ Flagged(r) \in 0..r /\ Remaining(r, Flagged(r)) < 128
           /\ \A j \in 0..(Flagged(r) - 1) : Remaining(r, j) >= 128
<1> DEFINE W == {k \in Nat : Remaining(r, k) < 128}
           Enough(k) == Remaining(r, k) < 128 /\ \A j \in 0..(k - 1) : Remaining(r, j) >= 128
           m == Min(W)
<1>1. r \in W
  <2>1. r < 2 ^ r /\ 2 ^ r <= 2 ^ (7 * r) /\ 2 ^ r \in Nat /\ 2 ^ (7 * r) \in Nat
    <3>1. 7 * r \in Nat /\ r <= 7 * r
      OBVIOUS
    <3> QED
      BY <3>1, Beyond, Grows, Doubling
  <2> DEFINE P == 2 ^ (7 * r)
  <2>2. P \in Nat /\ r < P
    BY <2>1
  <2>3. Remaining(r, r) = r \div P
    BY DEF Remaining
  <2> HIDE DEF P
  <2>4. r \div P = 0
    BY <2>2
  <2> QED
    BY <2>3, <2>4
<1>2. m \in W /\ \A j \in W : m <= j
  <2>1. W # {} /\ W \subseteq Nat
    BY <1>1
  <2> HIDE DEF W
  <2> QED
    BY <2>1, Least
<1> HIDE DEF m
<1>3. m \in 0..r
  BY <1>1, <1>2
<1>4. ASSUME NEW j \in 0..(m - 1)
      PROVE  Remaining(r, j) >= 128
  <2>1. j \in Nat /\ j < m
    BY <1>3
  <2>2. Remaining(r, j) \in Nat
    BY <2>1, RemainingIs
  <2>3. j \notin W
    BY <1>2, <1>3, <2>1
  <2> QED
    BY <2>1, <2>2, <2>3
<1>5. Enough(m)
  BY <1>2, <1>4
<1>6. Flagged(r) = CHOOSE k \in 0..r : Enough(k)
  BY DEF Flagged
<1> HIDE DEF Enough
<1>7. Flagged(r) \in 0..r /\ Enough(Flagged(r))
  BY <1>3, <1>5, <1>6
<1> QED
  BY <1>7 DEF Enough

LEMMA GroupsAre ==
    ASSUME NEW r \in Nat
    PROVE  LET g == Groups(r)
               F == Flagged(r)
           IN  /\ F \in Nat /\ g \in Seq(Bytes) /\ Len(g) = F + 1
               /\ \A i \in 1..F : g[i] = 128 + (Remaining(r, i - 1) % 128) /\ g[i] >= 128
                                  /\ g[i] % 128 = Remaining(r, i - 1) % 128
               /\ g[F + 1] = Remaining(r, F) /\ g[F + 1] < 128 /\ g[F + 1] % 128 = g[F + 1]
<1> DEFINE F == Flagged(r)
           a == [i \in 1..F |-> 128 + (Remaining(r, i - 1) % 128)]
           l == Remaining(r, F)
           b == <<l>>
<1>1. F \in Nat /\ l < 128 /\ l \in Nat
  BY FlaggedIs, RemainingIs
<1>2. ASSUME NEW i \in 1..F
      PROVE  /\ Remaining(r, i - 1) \in Nat /\ 128 + (Remaining(r, i - 1) % 128) \in 128..255
             /\ (128 + (Remaining(r, i - 1) % 128)) % 128 = Remaining(r, i - 1) % 128
  <2>1. i - 1 \in Nat
    BY <1>1
  <2>2. Remaining(r, i - 1) \in Nat
    BY <2>1, RemainingIs
  <2> QED
    BY <2>2
<1>3. Groups(r) = a \o b
  BY DEF Groups
<1> HIDE DEF F, l
<1>4. a \in Seq(Bytes) /\ Len(a) = F /\ \A i \in 1..F : a[i] = 128 + (Remaining(r, i - 1) % 128)
  <2>1. \A i \in 1..F : 128 + (Remaining(r, i - 1) % 128) \in Bytes
    BY <1>2 DEF Bytes
  <2> QED
    BY <1>1, <2>1
<1>5. b \in Seq(Bytes) /\ Len(b) = 1 /\ b[1] = l
  BY <1>1 DEF Bytes
<1> HIDE DEF a, b
<1>6. /\ a \o b \in Seq(Bytes) /\ Len(a \o b) = F + 1
      /\ \A i \in 1..F : (a \o b)[i] = a[i]
      /\ (a \o b)[F + 1] = l
  <2>1. a \in Seq(Bytes) /\ b \in Seq(Bytes)
    BY <1>4, <1>5
  <2>2. /\ a \o b \in Seq(Bytes) /\ Len(a \o b) = Len(a) + Len(b)
        /\ \A i \in 1..Len(a) : (a \o b)[i] = a[i]
        /\ \A i \in 1..Len(b) : (a \o b)[Len(a) + i] = b[i]
    BY <2>1, ConcatAt
  <2>3. 1 \in 1..Len(b)
    BY <1>5
  <2> QED
    BY <1>1, <1>4, <1>5, <2>2, <2>3
<1>7. l % 128 = l
  BY <1>1
<1> DEFINE g == a \o b
<1> HIDE DEF g
<1>8. g \in Seq(Bytes) /\ Len(g) = F + 1 /\ g[F + 1] = l /\ \A i \in 1..F : g[i] = 128 + (Remaining(r, i - 1) % 128)
  BY <1>4, <1>6, <1>7 DEF g
<1>9. \A i \in 1..F : g[i] >= 128 /\ g[i] % 128 = Remaining(r, i - 1) % 128
  BY <1>2, <1>8
<1> QED
  BY <1>1, <1>3, <1>7, <1>8, <1>9, SMTT(40) DEF F, l, g

\* The prefixes in use: bits for the number, and what stands before them.
IsPattern(n, pattern) ==
    <<n, pattern>> \in {<<7, 128>>, <<7, 0>>, <<6, 64>>, <<5, 32>>, <<4, 0>>, <<4, 16>>}

LEMMA PatternIs ==
    ASSUME NEW n, NEW pattern, IsPattern(n, pattern)
    PROVE  /\ n \in Nat /\ pattern \in Nat /\ 2 ^ n \in Nat /\ 2 ^ n - 1 \in 15..127
           /\ pattern + (2 ^ n - 1) <= 255
           /\ \A v \in 0..(2 ^ n - 1) : (pattern + v) % 2 ^ n = v
<1>1. 2 ^ 7 = 128 /\ 2 ^ 6 = 64 /\ 2 ^ 5 = 32 /\ 2 ^ 4 = 16
  OBVIOUS
<1>2. CASE n = 7 /\ pattern = 128
  BY <1>1, <1>2
<1>3. CASE n = 7 /\ pattern = 0
  BY <1>1, <1>3
<1>4. CASE n = 6 /\ pattern = 64
  BY <1>1, <1>4
<1>5. CASE n = 5 /\ pattern = 32
  BY <1>1, <1>5
<1>6. CASE n = 4 /\ pattern = 0
  BY <1>1, <1>6
<1>7. CASE n = 4 /\ pattern = 16
  BY <1>1, <1>7
<1> QED
  BY <1>2, <1>3, <1>4, <1>5, <1>6, <1>7 DEF IsPattern

\* An integer written: one byte, or a full prefix and the groups.
LEMMA ShortIs ==
    ASSUME NEW n, NEW pattern, IsPattern(n, pattern), NEW value \in Nat, value < 2 ^ n - 1, NEW bloat
    PROVE  /\ WriteInteger(value, n, pattern, bloat) = <<pattern + value>>
           /\ WriteInteger(value, n, pattern, bloat) \in Seq(Bytes)
<1>1. WriteInteger(value, n, pattern, bloat) = <<pattern + value>>
  BY DEF WriteInteger
<1>2. 2 ^ n - 1 \in 15..127 /\ pattern \in Nat /\ pattern + (2 ^ n - 1) <= 255
  BY PatternIs
<1>3. pattern + value \in Bytes
  <2> DEFINE full == 2 ^ n - 1
  <2>1. value < full
    OBVIOUS
  <2> HIDE DEF full
  <2> QED
    BY <1>2, <2>1 DEF Bytes, full
<1> QED
  BY <1>1, <1>3

\* The groups of r with b bytes of filler in front of the last.
Filler(b) == [i \in 1..b |-> 128]
Filled(r, b) == (Front(Groups(r)) \o Filler(b)) \o <<Last(Groups(r))>>

AreGroups(w, r, b) ==
    LET F == Flagged(r)
    IN  /\ F \in Nat /\ w \in Seq(Bytes) /\ Len(w) = F + b + 1
        /\ \A i \in 1..F : w[i] >= 128 /\ w[i] % 128 = Remaining(r, i - 1) % 128
        /\ \A i \in (F + 1)..(F + b) : w[i] = 128
        /\ w[F + b + 1] = Remaining(r, F) /\ w[F + b + 1] < 128
        /\ w[F + b + 1] % 128 = w[F + b + 1]

LEMMA FilledIs ==
    ASSUME NEW r \in Nat, NEW b \in Nat
    PROVE  AreGroups(Filled(r, b), r, b)
<1> DEFINE F == Flagged(r)
           R(k) == Remaining(r, k)
           g == Groups(r)
           f == SubSeq(g, 1, F)
           m == Filler(b)
           l == g[F + 1]
           fm == f \o m
           w == fm \o <<l>>
<1>1. /\ F \in Nat /\ g \in Seq(Bytes) /\ Len(g) = F + 1
      /\ \A i \in 1..F : g[i] >= 128 /\ g[i] % 128 = R(i - 1) % 128
      /\ l = R(F) /\ l < 128 /\ l % 128 = l
  BY GroupsAre
<1> HIDE DEF F, g, R
<1>2. f \in Seq(Bytes) /\ Len(f) = F /\ \A i \in 1..F : f[i] = g[i]
  BY <1>1
<1>3. Front(g) = f /\ Last(g) = l /\ l \in Bytes
  <2>1. (F + 1) - 1 = F /\ F + 1 \in 1..Len(g)
    BY <1>1
  <2> QED
    BY <1>1, <2>1 DEF Front, Last
<1>4. m \in Seq(Bytes) /\ Len(m) = b /\ \A i \in 1..b : m[i] = 128
  BY DEF Filler, Bytes
<1>5. Filled(r, b) = w
  BY <1>3 DEF Filled, g
<1> HIDE DEF f, l, m
<1>6. <<l>> \in Seq(Bytes) /\ Len(<<l>>) = 1 /\ <<l>>[1] = l /\ 1 \in 1..1
  BY <1>3
<1>7. /\ fm \in Seq(Bytes) /\ Len(fm) = F + b
      /\ \A i \in 1..F : fm[i] = g[i]
      /\ \A i \in 1..b : fm[F + i] = 128
  <2>1. f \in Seq(Bytes) /\ m \in Seq(Bytes)
    BY <1>2, <1>4
  <2>2. /\ fm \in Seq(Bytes) /\ Len(fm) = Len(f) + Len(m)
        /\ \A i \in 1..Len(f) : fm[i] = f[i]
        /\ \A i \in 1..Len(m) : fm[Len(f) + i] = m[i]
    BY <2>1, ConcatAt, SMTT(40)
  <2> QED
    BY <1>2, <1>4, <2>2
<1> HIDE DEF fm
<1>8. /\ w \in Seq(Bytes) /\ Len(w) = F + b + 1
      /\ \A i \in 1..(F + b) : w[i] = fm[i]
      /\ w[F + b + 1] = l
  <2>1. /\ w \in Seq(Bytes) /\ Len(w) = Len(fm) + Len(<<l>>)
        /\ \A i \in 1..Len(fm) : w[i] = fm[i]
        /\ \A i \in 1..Len(<<l>>) : w[Len(fm) + i] = <<l>>[i]
    BY <1>6, <1>7, ConcatAt
  <2> QED
    BY <1>6, <1>7, <2>1
<1> HIDE DEF w
<1>9. ASSUME NEW i \in 1..F
      PROVE  w[i] >= 128 /\ w[i] % 128 = R(i - 1) % 128
  <2>1. i \in 1..(F + b)
    BY <1>1
  <2>2. w[i] = g[i]
    BY <1>7, <1>8, <2>1
  <2> QED
    BY <1>1, <2>2
<1>10. ASSUME NEW i \in (F + 1)..(F + b)
       PROVE  w[i] = 128
  <2>1. i \in 1..(F + b) /\ i - F \in 1..b /\ F + (i - F) = i
    BY <1>1
  <2> QED
    BY <1>7, <1>8, <2>1
<1> QED
  BY <1>1, <1>5, <1>8, <1>9, <1>10 DEF F, R, AreGroups

LEMMA LongIs ==
    ASSUME NEW n, NEW pattern, IsPattern(n, pattern), NEW value \in Nat, ~(value < 2 ^ n - 1), NEW bloat \in Nat
    PROVE  /\ WriteInteger(value, n, pattern, bloat) \in Seq(Bytes)
           /\ WriteInteger(value, n, pattern, bloat)
                = <<pattern + (2 ^ n - 1)>> \o Filled(value - (2 ^ n - 1), bloat)
<1> DEFINE full == 2 ^ n - 1
           g == Groups(value - full)
           f == Front(g)
           m == Filler(bloat)
           l == <<Last(g)>>
           head == <<pattern + full>>
<1>1. full \in 15..127 /\ pattern \in Nat /\ pattern + full <= 255
  BY PatternIs
<1>2. WriteInteger(value, n, pattern, bloat) = ((head \o f) \o m) \o l
  <2>1. pattern + full = pattern + (2 ^ n - 1)
    OBVIOUS
  <2> QED
    BY DEF WriteInteger, Filler
<1>3. value - full \in Nat
  <2>1. ~(value < full)
    OBVIOUS
  <2> HIDE DEF full
  <2> QED
    BY <1>1, <2>1
<1>4. f \in Seq(Bytes) /\ l \in Seq(Bytes)
  <2> DEFINE r == value - full
             F == Flagged(r)
  <2>1. r \in Nat
    BY <1>3
  <2> HIDE DEF r
  <2>2. F \in Nat /\ Groups(r) \in Seq(Bytes) /\ Len(Groups(r)) = F + 1
    BY <2>1, GroupsAre
  <2>3. g = Groups(r)
    BY DEF r
  <2> HIDE DEF F, g
  <2>4. Front(g) \in Seq(Bytes) /\ Last(g) \in Bytes
    BY <2>2, <2>3 DEF Front, Last
  <2> QED
    BY <2>4
<1>5. head \in Seq(Bytes) /\ m \in Seq(Bytes)
  <2> HIDE DEF full
  <2>1. pattern + full \in Bytes /\ 128 \in Bytes
    BY <1>1 DEF Bytes
  <2> QED
    BY <2>1 DEF Filler
<1>6. Filled(value - full, bloat) = (f \o m) \o l
  BY DEF Filled
<1> HIDE DEF f, m, l, head
<1>7. f \o m \in Seq(Bytes) /\ head \o f \in Seq(Bytes)
  BY <1>4, <1>5, ConcatAt
<1>8. (head \o f) \o m \in Seq(Bytes)
  BY <1>5, <1>7, ConcatAt
<1>9. ((head \o f) \o m) \o l \in Seq(Bytes)
  BY <1>4, <1>8, ConcatAt
<1>10. ((head \o f) \o m) \o l = head \o ((f \o m) \o l)
  <2>1. (head \o f) \o m = head \o (f \o m)
    BY <1>4, <1>5, ConcatAssociative, SMTT(40)
  <2>2. (head \o (f \o m)) \o l = head \o ((f \o m) \o l)
    BY <1>4, <1>5, <1>7, ConcatAssociative, SMTT(40)
  <2> QED
    BY <2>1, <2>2
<1> QED
  BY <1>2, <1>6, <1>9, <1>10 DEF head

\* These bytes stand at pos.
At(buf, pos, s) ==
    /\ s \in Seq(Bytes) /\ pos + Len(s) <= Len(buf) + 1
    /\ \A i \in 1..Len(s) : buf[pos + (i - 1)] = s[i]

LEMMA AtParts ==
    ASSUME NEW buf \in Seq(Bytes), NEW pos \in Nat, NEW a \in Seq(Bytes), NEW b \in Seq(Bytes),
           At(buf, pos, a \o b)
    PROVE  At(buf, pos, a) /\ At(buf, pos + Len(a), b) /\ Len(a \o b) = Len(a) + Len(b)
<1> DEFINE c == a \o b
<1>1. /\ c \in Seq(Bytes) /\ Len(c) = Len(a) + Len(b) /\ Len(a) \in Nat /\ Len(b) \in Nat
      /\ \A i \in 1..Len(a) : c[i] = a[i]
      /\ \A i \in 1..Len(b) : c[Len(a) + i] = b[i]
  BY ConcatAt
<1>2. At(buf, pos, c) /\ Len(buf) \in Nat
  BY BytesAre
<1> HIDE DEF c
<1>3. /\ pos + Len(c) <= Len(buf) + 1
      /\ \A i \in 1..Len(c) : buf[pos + (i - 1)] = c[i]
  BY <1>2 DEF At
<1>4. At(buf, pos, a)
  <2>1. pos + Len(a) <= Len(buf) + 1
    BY <1>1, <1>2, <1>3
  <2>2. ASSUME NEW i \in 1..Len(a)
        PROVE  buf[pos + (i - 1)] = a[i]
    <3>1. i \in 1..Len(c)
      BY <1>1
    <3> QED
      BY <1>1, <1>3, <3>1
  <2> QED
    BY <2>1, <2>2 DEF At
<1>5. At(buf, pos + Len(a), b)
  <2>1. (pos + Len(a)) + Len(b) <= Len(buf) + 1
    BY <1>1, <1>2, <1>3
  <2>2. ASSUME NEW i \in 1..Len(b)
        PROVE  buf[(pos + Len(a)) + (i - 1)] = b[i]
    <3>1. Len(a) + i \in 1..Len(c) /\ pos + ((Len(a) + i) - 1) = (pos + Len(a)) + (i - 1)
      BY <1>1
    <3>2. buf[pos + ((Len(a) + i) - 1)] = c[Len(a) + i] /\ c[Len(a) + i] = b[i]
      BY <1>1, <1>3, <3>1
    <3> QED
      BY <3>1, <3>2
  <2> QED
    BY <2>1, <2>2 DEF At
<1> QED
  BY <1>1, <1>4, <1>5 DEF c

LEMMA GroupsWithin ==
    ASSUME NEW r \in Nat, r < 2 ^ Width
    PROVE  7 * Flagged(r) < Width
<1> DEFINE F == Flagged(r)
<1>1. F \in Nat /\ \A j \in 0..(F - 1) : Remaining(r, j) >= 128
  BY FlaggedIs
<1>2. Width \in Nat /\ Width > 0
  BY SizesAssumption
<1> HIDE DEF F
<1>3. CASE F = 0
  BY <1>2, <1>3 DEF F
<1>4. CASE F # 0
  <2> DEFINE j == F - 1
             P == 2 ^ (7 * j)
  <2>1. j \in Nat /\ j \in 0..(F - 1) /\ j + 1 = F
    BY <1>1, <1>4
  <2>2. /\ Remaining(r, j) \in Nat /\ P \in Nat /\ P > 0 /\ Remaining(r, j) * P <= r
        /\ 2 ^ (7 * (j + 1)) = 128 * P
    BY <2>1, RemainingIs, ZenonT(40)
  <2>3. Remaining(r, j) >= 128
    BY <1>1, <2>1
  <2>4. 2 ^ (7 * F) = 128 * P
    BY <2>1, <2>2
  <2> DEFINE R == Remaining(r, j)
  <2> HIDE DEF j, P, R
  <2>5. 128 * P <= r
    <3>1. R \in Nat /\ R >= 128 /\ R * P <= r
      BY <2>2, <2>3 DEF R
    <3>2. 128 * P <= R * P
      BY <2>2, <3>1
    <3>3. R * P \in Nat /\ 128 * P \in Nat
      BY <2>2, <3>1
    <3> DEFINE x == R * P
               y == 128 * P
    <3>4. y <= x /\ x <= r /\ x \in Nat /\ y \in Nat
      BY <3>1, <3>2, <3>3
    <3> HIDE DEF x, y
    <3>5. y <= r
      BY <3>4
    <3> QED
      BY <3>5 DEF y
  <2> SUFFICES ASSUME ~(7 * F < Width)
               PROVE  FALSE
    BY DEF F
  <2>6. 7 * F \in Nat /\ Width <= 7 * F
    BY <1>1, <1>2
  <2>7. 2 ^ Width <= 2 ^ (7 * F) /\ 2 ^ Width \in Nat /\ 2 ^ (7 * F) \in Nat
    BY <1>2, <2>6, Grows, Doubling
  <2> DEFINE x == 2 ^ Width
             y == 2 ^ (7 * F)
  <2>8. x <= y /\ x \in Nat /\ y \in Nat /\ y <= r /\ r < x
    BY <2>4, <2>5, <2>7
  <2> HIDE DEF x, y
  <2> QED
    BY <2>8
<1> QED
  BY <1>3, <1>4

LEMMA SplitSeven ==
    ASSUME NEW R \in Nat, NEW P \in Nat, NEW Q, Q = R \div 128
    PROVE  Q \in Nat /\ R * P = Q * (128 * P) + (R % 128) * P /\ R % 128 \in Nat /\ (R % 128) * P \in Nat
           /\ Q * (128 * P) \in Nat /\ R * P \in Nat
<1> DEFINE t == R % 128
<1>1. Q \in Nat /\ t \in Nat /\ R = 128 * Q + t
  OBVIOUS
<1> HIDE DEF t
<1>2. (128 * Q + t) * P = (128 * Q) * P + t * P
  BY <1>1
<1>3. (128 * Q) * P = Q * (128 * P)
  BY <1>1
<1>4. t * P \in Nat /\ Q * (128 * P) \in Nat
  BY <1>1
<1>5. R * P = Q * (128 * P) + t * P
  BY <1>1, <1>2, <1>3
<1> QED
  BY <1>1, <1>4, <1>5 DEF t

\* The groups after a full prefix add up to the number, but for the last one,
\* which b bytes of filler move up by 7 * b bits.
LastWeight(r, i) == Remaining(r, Flagged(r)) * 2 ^ (7 * i)
Moved(r, b) == (r - LastWeight(r, Flagged(r))) + LastWeight(r, Flagged(r) + b)

AddUp(r, b, full, buf, pos) ==
    LET K == Flagged(r) + b + 1
    IN  /\ K \in 1..(Len(buf) - pos) /\ FinalAt(buf, pos) = pos + K
        /\ \E D : Sums(D, buf, pos, full, K) /\ D[K] = full + Moved(r, b)

LEMMA FilledSums ==
    ASSUME NEW r \in Nat, NEW b \in Nat, NEW full \in Nat, NEW buf \in Seq(Bytes), NEW pos \in 1..Len(buf),
           At(buf, pos + 1, Filled(r, b))
    PROVE  AddUp(r, b, full, buf, pos)
<1> DEFINE F == Flagged(r)
           g == Filled(r, b)
           K == F + b + 1
           R(k) == Remaining(r, k)
           P(k) == 2 ^ (7 * k)
           whole == full + Moved(r, b)
           Below(k) == IF k <= F THEN k ELSE F
           D == [k \in 0..K |-> IF k = K THEN whole ELSE full + (r - R(Below(k)) * P(Below(k)))]
<1>1. /\ F \in Nat /\ g \in Seq(Bytes) /\ Len(g) = F + b + 1
      /\ \A i \in 1..F : g[i] >= 128 /\ g[i] % 128 = R(i - 1) % 128
      /\ \A i \in (F + 1)..(F + b) : g[i] = 128
      /\ g[F + b + 1] = R(F) /\ g[F + b + 1] < 128 /\ g[F + b + 1] % 128 = g[F + b + 1]
  <2>1. AreGroups(g, r, b)
    BY FilledIs
  <2> HIDE DEF g
  <2> QED
    BY <2>1 DEF AreGroups
<1>2. Len(buf) \in Nat /\ pos \in Nat
  BY BytesAre
<1>3. /\ (pos + 1) + Len(g) <= Len(buf) + 1
      /\ \A i \in 1..Len(g) : buf[(pos + 1) + (i - 1)] = g[i]
  BY DEF At
<1> HIDE DEF F, g
<1>4. K \in 1..(Len(buf) - pos) /\ K \in Nat
  BY <1>1, <1>2, <1>3
<1>5. ASSUME NEW i \in 1..K
      PROVE  buf[pos + i] = g[i]
  <2>1. i \in 1..Len(g) /\ (pos + 1) + (i - 1) = pos + i
    BY <1>1, <1>2
  <2> QED
    BY <1>3, <2>1
<1>6. FinalAt(buf, pos) = pos + K
  <2> DEFINE f == FinalAt(buf, pos)
  <2>1. \/ f = 0 /\ \A i \in (pos + 1)..Len(buf) : buf[i] >= 128
        \/ /\ f \in (pos + 1)..Len(buf) /\ buf[f] < 128
           /\ \A i \in (pos + 1)..(f - 1) : buf[i] >= 128
    BY <1>2, FinalIs
  <2> HIDE DEF f
  <2>2. K \in 1..K /\ buf[pos + K] < 128 /\ pos + K \in (pos + 1)..Len(buf) /\ pos + K \in 1..Len(buf)
    <3>1. K \in 1..K
      BY <1>4
    <3>2. buf[pos + K] = g[K]
      BY <1>5, <3>1
    <3> QED
      BY <1>1, <1>2, <1>4, <3>1, <3>2
  <2>3. buf[pos + K] \in Nat
    BY <2>2, BytesAre
  <2>4. f # 0
    BY <2>1, <2>2, <2>3
  <2>5. ~(f > pos + K)
    <3> SUFFICES ASSUME f > pos + K
                 PROVE  FALSE
      OBVIOUS
    <3>1. pos + K \in (pos + 1)..(f - 1)
      BY <1>2, <1>4, <2>1, <2>4
    <3>2. buf[pos + K] >= 128
      BY <2>1, <2>4, <3>1
    <3> QED
      BY <2>2, <2>3, <3>2
  <2>6. ~(f < pos + K)
    <3> SUFFICES ASSUME f < pos + K
                 PROVE  FALSE
      OBVIOUS
    <3>0. F \in Nat /\ f \in (pos + 1)..Len(buf) /\ f < pos + (F + b + 1)
      BY <1>1, <2>1, <2>4
    <3>1. /\ f - pos \in 1..F \/ f - pos \in (F + 1)..(F + b)
          /\ f - pos \in 1..K /\ pos + (f - pos) = f /\ f \in 1..Len(buf)
      BY <1>2, <3>0
    <3>2. buf[f] = g[f - pos] /\ g[f - pos] >= 128
      BY <1>1, <1>5, <3>1
    <3>3. buf[f] < 128 /\ buf[f] \in Nat
      BY <2>1, <2>4, <3>1, BytesAre
    <3> QED
      BY <3>2, <3>3
  <2>7. f \in Nat /\ pos + K \in Nat
    BY <1>2, <1>4, <2>1, <2>4
  <2> HIDE DEF K
  <2> QED
    BY <2>5, <2>6, <2>7 DEF f
<1>7. ASSUME NEW k \in 0..F
      PROVE  R(k) \in Nat /\ P(k) \in Nat /\ R(k) * P(k) <= r /\ R(k) * P(k) \in Nat
  <2>1. k \in Nat
    BY <1>1
  <2>2. Remaining(r, k) \in Nat /\ 2 ^ (7 * k) \in Nat /\ Remaining(r, k) * 2 ^ (7 * k) <= r
    BY <2>1, RemainingIs
  <2> HIDE DEF R, P
  <2>3. R(k) \in Nat /\ P(k) \in Nat /\ R(k) * P(k) <= r
    BY <2>2 DEF R, P
  <2> QED
    BY <2>3
<1>8. ASSUME NEW k \in 1..F
      PROVE  P(k) = 128 * P(k - 1) /\ R(k) = R(k - 1) \div 128
  <2> DEFINE j == k - 1
  <2>1. j \in Nat /\ j + 1 = k
    BY <1>1
  <2> HIDE DEF j
  <2>2. 2 ^ (7 * (j + 1)) = 128 * 2 ^ (7 * j) /\ Remaining(r, j + 1) = Remaining(r, j) \div 128
    BY <2>1, RemainingIs, ZenonT(40)
  <2>3. P(k) = 128 * P(j) /\ R(k) = R(j) \div 128
    BY <2>1, <2>2
  <2> QED
    BY <2>3 DEF j
<1>9. R(0) * P(0) = r
  <2>1. R(0) = r /\ P(0) = 1
    <3>1. 0 \in Nat /\ 2 ^ (7 * 0) = 1
      OBVIOUS
    <3> QED
      BY <3>1, RemainingIs
  <2> QED
    BY <2>1
<1> HIDE DEF R, P
<1>10. whole \in Nat /\ Moved(r, b) = (r - R(F) * P(F)) + R(F) * P(F + b)
  <2> DEFINE x == R(F) * P(F)
             y == R(F) * P(F + b)
  <2>1. x \in Nat /\ x <= r
    BY <1>1, <1>7
  <2>2. y \in Nat
    <3>1. 7 * (F + b) \in Nat
      BY <1>1
    <3>2. P(F + b) \in Nat
      BY <3>1, Doubling DEF P
    <3>3. R(F) \in Nat
      BY <1>1, <1>7
    <3> QED
      BY <3>2, <3>3
  <2>3. Moved(r, b) = (r - x) + y
    BY DEF Moved, LastWeight, R, P, F
  <2> HIDE DEF x, y
  <2>4. full + ((r - x) + y) \in Nat
    BY <2>1, <2>2
  <2>5. whole \in Nat
    BY <2>3, <2>4
  <2> QED
    BY <2>3, <2>5 DEF x, y
<1> HIDE DEF whole
<1>11. /\ D \in [0..K -> Nat] /\ D[0] = full /\ D[K] = whole
       /\ \A k \in 0..(K - 1) : D[k] = full + (r - R(Below(k)) * P(Below(k)))
  <2>1. ASSUME NEW k \in 0..K
        PROVE  full + (r - R(Below(k)) * P(Below(k))) \in Nat
    <3> DEFINE x == R(Below(k)) * P(Below(k))
    <3>1. Below(k) \in 0..F
      BY <1>1
    <3> HIDE DEF Below
    <3>2. x \in Nat /\ x <= r
      BY <1>7, <3>1
    <3> HIDE DEF x
    <3>3. full + (r - x) \in Nat
      BY <3>2
    <3> QED
      BY <3>3 DEF x
  <2>2. D[0] = full
    <3>1. 0 \in 0..K /\ 0 # K /\ Below(0) = 0
      BY <1>1, <1>4
    <3>2. D[0] = full + (r - R(0) * P(0))
      BY <3>1
    <3> QED
      BY <1>9, <3>2
  <2>3. K \in 0..K /\ \A k \in 0..(K - 1) : k \in 0..K /\ k # K
    BY <1>4
  <2> HIDE DEF Below
  <2>4. D \in [0..K -> Nat]
    BY <1>10, <2>1
  <2> QED
    BY <2>2, <2>3, <2>4
<1> HIDE DEF D
<1>12. ASSUME NEW k \in 1..K
       PROVE  D[k] = D[k - 1] + (buf[pos + k] % 128) * 2 ^ (7 * (k - 1))
  <2>1. k - 1 \in 0..(K - 1) /\ buf[pos + k] = g[k] /\ P(k - 1) = 2 ^ (7 * (k - 1))
    BY <1>4, <1>5 DEF P
  <2>2. CASE k \in 1..F
    <3> DEFINE x == R(k - 1) * P(k - 1)
               y == R(k) * P(k)
               z == (R(k - 1) % 128) * P(k - 1)
    <3>1. k - 1 \in 0..F /\ k \in 0..F /\ k \in 0..(K - 1) /\ Below(k) = k /\ Below(k - 1) = k - 1
      BY <1>1, <2>2
    <3>2. x \in Nat /\ x <= r /\ y <= r
      BY <1>7, <3>1
    <3>3. D[k - 1] = full + (r - x) /\ D[k] = full + (r - y)
      BY <1>11, <2>1, <3>1
    <3>4. x = y + z /\ y \in Nat /\ z \in Nat
      <4>1. R(k - 1) \in Nat /\ P(k - 1) \in Nat
        BY <1>7, <3>1
      <4> DEFINE R1 == R(k - 1)
                 P1 == P(k - 1)
                 Q == R(k)
      <4>2. R1 \in Nat /\ P1 \in Nat /\ Q = R1 \div 128 /\ P(k) = 128 * P1
        BY <1>8, <2>2, <4>1
      <4>3. x = R1 * P1 /\ y = Q * (128 * P1) /\ z = (R1 % 128) * P1
        BY <4>2
      <4> HIDE DEF R1, P1, Q, x, y, z
      <4>4. R1 * P1 = Q * (128 * P1) + (R1 % 128) * P1 /\ (R1 % 128) * P1 \in Nat /\ Q * (128 * P1) \in Nat
        BY <4>2, SplitSeven
      <4> QED
        BY <4>3, <4>4
    <3>5. (buf[pos + k] % 128) * 2 ^ (7 * (k - 1)) = z
      BY <1>1, <2>1, <2>2
    <3> HIDE DEF x, y, z
    <3> QED
      BY <3>2, <3>3, <3>4, <3>5
  <2>3. CASE k \in (F + 1)..(F + b)
    <3> DEFINE x == R(F) * P(F)
    <3>1. F \in 0..F /\ k \in 0..(K - 1) /\ Below(k) = F /\ Below(k - 1) = F
      BY <1>1, <2>3
    <3>2. x \in Nat /\ x <= r
      BY <1>7, <3>1
    <3>3. D[k - 1] = full + (r - x) /\ D[k] = full + (r - x)
      BY <1>11, <2>1, <3>1
    <3>4. (buf[pos + k] % 128) * 2 ^ (7 * (k - 1)) = 0
      <4>1. 7 * (k - 1) \in Nat
        BY <1>4
      <4>2. P(k - 1) \in Nat
        BY <4>1, Doubling DEF P
      <4>3. buf[pos + k] % 128 = 0
        BY <1>1, <2>1, <2>3
      <4> QED
        BY <2>1, <4>2, <4>3
    <3> HIDE DEF x
    <3> QED
      BY <3>2, <3>3, <3>4
  <2>4. CASE k = K
    <3> DEFINE x == R(F) * P(F)
               y == R(F) * P(F + b)
    <3>1. F \in 0..F /\ Below(k - 1) = F /\ k - 1 = F + b
      BY <1>1, <2>4
    <3>2. x \in Nat /\ x <= r
      BY <1>7, <3>1
    <3>3. D[k - 1] = full + (r - x) /\ D[k] = full + ((r - x) + y)
      BY <1>10, <1>11, <2>1, <2>4, <3>1 DEF whole
    <3>4. (buf[pos + k] % 128) * 2 ^ (7 * (k - 1)) = y
      BY <1>1, <2>1, <2>4, <3>1
    <3>5. y \in Nat
      <4>1. 7 * (F + b) \in Nat
        BY <1>1
      <4>2. P(F + b) \in Nat
        BY <4>1, Doubling DEF P
      <4>3. R(F) \in Nat
        BY <1>1, <1>7
      <4> QED
        BY <4>2, <4>3
    <3> HIDE DEF x, y
    <3> QED
      BY <3>2, <3>3, <3>4, <3>5
  <2> QED
    BY <1>1, <2>2, <2>3, <2>4
<1>13. Sums(D, buf, pos, full, K)
  BY <1>11, <1>12 DEF Sums
<1> QED
  BY <1>4, <1>6, <1>11, <1>13 DEF F, whole, AddUp

\* What a reader hands on: a value, and where the next byte is.
Got(v, pos) == [error |-> "none", v |-> v, pos |-> pos]

LEMMA IntegerWritten ==
    ASSUME NEW n, NEW pattern, IsPattern(n, pattern), NEW value \in Nat, NEW bloat \in Nat
    PROVE  WriteInteger(value, n, pattern, bloat) \in Seq(Bytes)
<1>1. CASE value < 2 ^ n - 1
  BY <1>1, ShortIs
<1>2. CASE ~(value < 2 ^ n - 1)
  BY <1>2, LongIs
<1> QED
  BY <1>1, <1>2

\* The filler moves nothing when there is none, and when there is nothing to move.
Harmless(r, b) == b = 0 \/ (r = 0 /\ 7 * b < Width)

LEMMA NothingMoved ==
    ASSUME NEW r \in Nat, r < 2 ^ Width, NEW b \in Nat, Harmless(r, b)
    PROVE  Moved(r, b) = r /\ 7 * (Flagged(r) + b) < Width
<1> DEFINE F == Flagged(r)
<1>1. F \in Nat /\ (r = 0 => F = 0)
  BY FlaggedIs
<1>2. 7 * F < Width
  BY GroupsWithin
<1> HIDE DEF F
<1>3. CASE b = 0
  <2> DEFINE x == LastWeight(r, F)
  <2>1. x \in Nat
    BY <1>1, RemainingIs DEF LastWeight, F
  <2>2. F + b = F
    BY <1>1, <1>3
  <2>3. Moved(r, b) = (r - x) + x
    BY <2>2 DEF Moved, F
  <2> HIDE DEF x
  <2>4. (r - x) + x = r
    BY <2>1
  <2> QED
    BY <1>2, <2>2, <2>3, <2>4 DEF F
<1>4. CASE r = 0 /\ 7 * b < Width
  <2>1. F = 0 /\ Remaining(0, 0) = 0
    BY <1>1, <1>4, RemainingIs
  <2>2. LastWeight(r, F) = 0 /\ LastWeight(r, F + b) = 0
    <3>1. 2 ^ (7 * F) \in Nat /\ 2 ^ (7 * (F + b)) \in Nat
      <4>1. 7 * F \in Nat /\ 7 * (F + b) \in Nat
        BY <1>1
      <4> QED
        BY <4>1, Doubling
    <3>2. \A x \in Nat : 0 * x = 0
      OBVIOUS
    <3>3. Remaining(r, F) = 0
      BY <1>4, <2>1
    <3> QED
      BY <3>1, <3>2, <3>3 DEF LastWeight, F
  <2>3. Moved(r, b) = r /\ F + b = b
    BY <1>4, <2>1, <2>2 DEF Moved, F
  <2> QED
    BY <1>4, <2>3 DEF F
<1> QED
  BY <1>3, <1>4 DEF Harmless

LEMMA ContinuedBack ==
    ASSUME NEW r \in Nat, NEW b \in Nat, Harmless(r, b), NEW full \in Nat, full + r < 2 ^ Width,
           NEW buf \in Seq(Bytes), NEW pos \in 1..Len(buf), At(buf, pos + 1, Filled(r, b))
    PROVE  Continued(buf, pos, full, FinalAt(buf, pos)) = Got(full + r, pos + (Len(Filled(r, b)) + 1))
<1> DEFINE K == Flagged(r) + b + 1
           final == FinalAt(buf, pos)
           read == Continued(buf, pos, full, final)
<1>1. Len(Filled(r, b)) = K /\ Flagged(r) \in Nat
  BY FilledIs DEF AreGroups
<1>0. Moved(r, b) = r /\ 7 * (Flagged(r) + b) < Width
  <2> DEFINE m == 2 ^ Width
  <2>1. m \in Nat /\ full + r < m
    BY SizesAssumption, Doubling
  <2> HIDE DEF m
  <2>2. r < m
    BY <2>1
  <2> QED
    BY <2>2, NothingMoved DEF m
<1>2. Len(buf) \in Nat
  BY BytesAre
<1>3. /\ K \in 1..(Len(buf) - pos) /\ final = pos + K
      /\ \E D : Sums(D, buf, pos, full, K) /\ D[K] = full + r
  <2>1. AddUp(r, b, full, buf, pos)
    BY FilledSums
  <2> QED
    BY <1>0, <2>1 DEF AddUp
<1>4. PICK D : Sums(D, buf, pos, full, K) /\ D[K] = full + r
  BY <1>3
<1>5. 7 * (K - 1) < Width
  <2>1. K - 1 = Flagged(r) + b
    BY <1>1
  <2> QED
    BY <1>0, <2>1
<1>6. ContinuedMeans(buf, pos, full)
  BY ContinuedIs
<1>7. final # 0 /\ final - pos = K
  BY <1>2, <1>3
<1> HIDE DEF K, final
<1>8. PICK v : /\ ValueRun(v, buf, pos, full)
               /\ (read.error = "none" <=> v[final - pos].ok)
               /\ read.error = "none" => read.v = v[final - pos].v
  BY <1>6, <1>7 DEF ContinuedMeans, final
<1>9. K \in 0..(Len(buf) - pos) /\ D[K] < 2 ^ Width
  BY <1>2, <1>3, <1>4
<1>10. v[K].ok /\ v[K].v = D[K]
  <2>1. InWidth(D, K)
    BY <1>5, <1>9 DEF InWidth
  <2>2. Sums(D, buf, pos, full, K) /\ ValueRun(v, buf, pos, full) /\ K \in 0..(Len(buf) - pos)
    BY <1>4, <1>8, <1>9
  <2>3. ReadsAs(v, D, K)
    BY <2>1, <2>2, ReadExactly
  <2> QED
    BY <2>3 DEF ReadsAs
<1>11. read.error = "none" /\ read.v = full + r /\ read \in IntegerResults /\ read.pos = final + 1
  BY <1>4, <1>6, <1>7, <1>8, <1>10 DEF ContinuedMeans, final
<1>12. final + 1 = pos + (Len(Filled(r, b)) + 1)
  BY <1>1, <1>2, <1>3
<1> HIDE DEF read
<1>13. read = [error |-> "none", v |-> full + r, pos |-> final + 1]
  BY <1>11 DEF IntegerResults
<1> QED
  BY <1>12, <1>13 DEF read, Got, final

\* What write_integer wrote is what read_integer reads, wherever it stands, if
\* the filler has nothing to move.
IntegerFits(value, n, bloat) ==
    bloat = 0 \/ value < 2 ^ n - 1 \/ (value = 2 ^ n - 1 /\ 7 * bloat < Width)

LEMMA IntegerBack ==
    ASSUME NEW n, NEW pattern, IsPattern(n, pattern), NEW value \in Numbers, NEW bloat \in Nat,
           IntegerFits(value, n, bloat), NEW buf \in Seq(Bytes), NEW pos \in Nat, pos >= 1,
           At(buf, pos, WriteInteger(value, n, pattern, bloat))
    PROVE  LET w == WriteInteger(value, n, pattern, bloat)
           IN  /\ ReadInteger(buf, pos, n) = Got(value, pos + Len(w)) /\ Len(w) \in Nat /\ Len(w) >= 1
               /\ pos \in 1..Len(buf) /\ buf[pos] \in pattern..(pattern + (2 ^ n - 1))
<1> DEFINE w == WriteInteger(value, n, pattern, bloat)
           full == 2 ^ n - 1
<1>1. /\ n \in Nat /\ pattern \in Nat /\ 2 ^ n \in Nat /\ full \in 15..127 /\ pattern + full <= 255
      /\ \A v \in 0..full : (pattern + v) % 2 ^ n = v
  BY PatternIs
<1>2. value \in Nat /\ value < 2 ^ Width /\ 2 ^ Width \in Nat
  <2>1. 2 ^ Width \in Nat
    BY SizesAssumption, Doubling
  <2> DEFINE m == 2 ^ Width
  <2>2. m \in Nat /\ value \in 0..(m - 1)
    BY <2>1 DEF Numbers
  <2> HIDE DEF m
  <2>3. value \in Nat /\ value < m
    BY <2>2
  <2> QED
    BY <2>1, <2>3 DEF m
<1>3. Len(buf) \in Nat
  BY BytesAre
<1>4. w \in Seq(Bytes) /\ Len(w) \in Nat
  BY <1>2, IntegerWritten
<1>5. /\ pos + Len(w) <= Len(buf) + 1
      /\ \A i \in 1..Len(w) : buf[pos + (i - 1)] = w[i]
  BY DEF At
<1>6. CASE value < full
  <2>1. w = <<pattern + value>> /\ Len(w) = 1 /\ w[1] = pattern + value
    BY <1>2, <1>6, ShortIs
  <2>2. pos <= Len(buf) /\ buf[pos] = pattern + value
    <3>1. buf[pos + (1 - 1)] = w[1] /\ pos + (1 - 1) = pos
      BY <1>5, <2>1
    <3> QED
      BY <1>3, <1>5, <2>1, <3>1
  <2>3. buf[pos] % 2 ^ n = value
    BY <1>1, <1>2, <1>6, <2>2
  <2>4. ReadInteger(buf, pos, n) = [error |-> "none", v |-> value, pos |-> pos + 1]
    <3>1. ~(pos > Len(buf)) /\ buf[pos] % 2 ^ n < 2 ^ n - 1
      BY <1>3, <1>6, <2>2, <2>3
    <3> QED
      BY <2>3, <3>1 DEF ReadInteger
  <2>5. pos \in 1..Len(buf) /\ buf[pos] \in pattern..(pattern + full)
    <3> HIDE DEF full
    <3> QED
      BY <1>1, <1>2, <1>3, <1>6, <2>2
  <2> QED
    BY <2>1, <2>4, <2>5 DEF Got
<1>7. CASE ~(value < full)
  <2> DEFINE g == Filled(value - full, bloat)
             h == <<pattern + full>>
  <2>1. w = h \o g
    BY <1>2, <1>7, LongIs
  <2> HIDE DEF w, full
  <2>2. value - full \in Nat /\ full + (value - full) = value /\ full \in Nat
    BY <1>1, <1>2, <1>7
  <2>3. g \in Seq(Bytes) /\ Len(g) \in Nat
    <3> DEFINE r == value - full
    <3>1. r \in Nat
      BY <2>2
    <3> HIDE DEF r
    <3>2. Filled(r, bloat) \in Seq(Bytes)
      BY <3>1, FilledIs DEF AreGroups
    <3> QED
      BY <3>2 DEF r
  <2>4. h \in Seq(Bytes) /\ Len(h) = 1 /\ h[1] = pattern + full
    <3>1. pattern + full \in Bytes
      BY <1>1, <2>2 DEF Bytes
    <3> QED
      BY <3>1
  <2> HIDE DEF g, h
  <2>5. At(buf, pos, h) /\ At(buf, pos + 1, g) /\ Len(w) = 1 + Len(g)
    <3>1. At(buf, pos, h \o g)
      BY <2>1 DEF w
    <3>2. h \in Seq(Bytes) /\ g \in Seq(Bytes)
      BY <2>3, <2>4
    <3>3. At(buf, pos, h) /\ At(buf, pos + Len(h), g) /\ Len(h \o g) = Len(h) + Len(g)
      BY <3>1, <3>2, AtParts
    <3> QED
      BY <2>1, <2>4, <3>3
  <2>6. pos <= Len(buf) /\ buf[pos] = pattern + full /\ pos \in 1..Len(buf)
    <3>1. buf[pos + (1 - 1)] = h[1] /\ pos + 1 <= Len(buf) + 1 /\ pos + (1 - 1) = pos
      BY <2>4, <2>5 DEF At
    <3> QED
      BY <1>3, <2>4, <3>1
  <2>7. buf[pos] % 2 ^ n = full
    BY <1>1, <2>2, <2>6
  <2>8. Continued(buf, pos, full, FinalAt(buf, pos)) = Got(value, pos + Len(w))
    <3>1. full + (value - full) < 2 ^ Width
      BY <1>2, <2>2
    <3>2. Harmless(value - full, bloat)
      <4>1. bloat = 0 \/ (value = full /\ 7 * bloat < Width)
        BY <1>7 DEF IntegerFits, full
      <4>2. value = full => value - full = 0
        BY <2>2
      <4> QED
        BY <4>1, <4>2 DEF Harmless
    <3>4. Continued(buf, pos, full, FinalAt(buf, pos)) = Got(full + (value - full), pos + (Len(g) + 1))
      <4> DEFINE r == value - full
      <4>1. /\ r \in Nat /\ full \in Nat /\ Harmless(r, bloat) /\ full + r < 2 ^ Width
            /\ g = Filled(r, bloat) /\ At(buf, pos + 1, g) /\ pos \in 1..Len(buf)
        BY <2>2, <2>5, <2>6, <3>1, <3>2 DEF g
      <4> HIDE DEF r
      <4>2. Continued(buf, pos, full, FinalAt(buf, pos)) = Got(full + r, pos + (Len(g) + 1))
        BY <4>1, ContinuedBack
      <4> QED
        BY <4>2 DEF r
    <3>3. pos + (Len(g) + 1) = pos + Len(w)
      BY <2>3, <2>5
    <3> QED
      BY <2>2, <3>3, <3>4
  <2>9. ReadInteger(buf, pos, n) = Continued(buf, pos, full, FinalAt(buf, pos))
    <3>1. ~(pos > Len(buf)) /\ ~(buf[pos] % 2 ^ n < 2 ^ n - 1)
      <4>1. ~(full < full)
        BY <2>2
      <4> QED
        BY <1>3, <2>6, <2>7, <4>1 DEF full
    <3> QED
      BY <3>1 DEF ReadInteger, FinalAt, full
  <2>10. buf[pos] \in pattern..(pattern + full)
    BY <1>1, <2>2, <2>6
  <2> QED
    BY <2>3, <2>5, <2>6, <2>8, <2>9, <2>10 DEF w, full
<1> QED
  BY <1>6, <1>7

\* Where there is something to move, the number is another one.
Misread(read, v) == read.error # "none" \/ read.v # v

LEMMA PowersDivide ==
    ASSUME NEW m \in Nat, NEW n \in Nat, m <= n
    PROVE  \E c \in Nat : 2 ^ n = 2 ^ m * c
<1> DEFINE q == 2 ^ m
           T == {k \in 0..(n - m) : \E c \in Nat : 2 ^ (m + k) = q * c}
<1>1. q \in Nat /\ n - m \in Nat /\ m + (n - m) = n
  BY Doubling
<1>2. 0 \in T
  <2>1. m + 0 = m /\ q = q * 1 /\ 1 \in Nat /\ 0 \in 0..(n - m)
    BY <1>1
  <2> QED
    BY <2>1
<1>3. ASSUME NEW k \in 1..(n - m), k - 1 \in T
      PROVE  k \in T
  <2>1. PICK c \in Nat : 2 ^ (m + (k - 1)) = q * c
    BY <1>3
  <2>2. m + (k - 1) \in Nat /\ (m + (k - 1)) + 1 = m + k
    BY <1>1
  <2>3. 2 ^ (m + k) = 2 * 2 ^ (m + (k - 1))
    BY <2>2, Doubling
  <2> HIDE DEF q
  <2>4. 2 * (q * c) = q * (2 * c) /\ 2 * c \in Nat
    BY <1>1
  <2>5. 2 ^ (m + k) = q * (2 * c)
    BY <2>1, <2>3, <2>4
  <2>6. k \in 0..(n - m)
    BY <1>1
  <2> QED
    BY <2>4, <2>5, <2>6
<1>4. n - m \in T
  <2> HIDE DEF T
  <2>1. 0..(n - m) \subseteq T
    BY <1>1, <1>2, <1>3, UpTo
  <2> QED
    BY <1>1, <2>1
<1> QED
  BY <1>1, <1>4

\* a moved up to a multiple of Q does not come back to where it was modulo Q * C.
LEMMA NotMultiple ==
    ASSUME NEW a \in Nat, NEW Q \in Nat, 0 < a, a < Q, NEW z \in Int
    PROVE  a # Q * z
<1>1. CASE z <= 0
  <2>1. Q * z <= 0
    BY <1>1
  <2> QED
    BY <2>1
<1>2. CASE z >= 1
  <2>1. Q * z >= Q
    BY <1>2
  <2> DEFINE x == Q * z
  <2>2. x \in Int
    OBVIOUS
  <2> HIDE DEF x
  <2>3. x >= Q
    BY <2>1 DEF x
  <2>4. a # x
    BY <2>2, <2>3
  <2> QED
    BY <2>4 DEF x
<1> QED
  BY <1>1, <1>2

LEMMA MovedAway ==
    ASSUME NEW v \in Nat, NEW a \in Nat, NEW l \in Nat, NEW Q \in Nat, NEW C \in Nat, NEW d \in Nat,
           0 < a, a < Q, d + a = v + l * Q, Q * C > 0
    PROVE  d % (Q * C) # v
<1> SUFFICES ASSUME d % (Q * C) = v
             PROVE  FALSE
  OBVIOUS
<1> DEFINE M == Q * C
           j == d \div M
<1>1. M \in Nat /\ M > 0
  OBVIOUS
<1>2. j \in Nat /\ d = M * j + v
  <2> HIDE DEF M
  <2>1. d \div M \in Nat /\ d = M * (d \div M) + (d % M)
    BY <1>1, Modulo
  <2> QED
    BY <2>1 DEF M
<1>3. M * j = Q * (C * j) /\ C * j \in Nat
  <2> HIDE DEF j
  <2> QED
    BY <1>2
<1> DEFINE x == C * j
           y == l * Q
           w == M * j
<1>4. w + a = y
  <2>1. w \in Int /\ y \in Int
    BY <1>1, <1>2
  <2>2. d = w + v /\ d + a = v + y
    BY <1>2
  <2> HIDE DEF w, y
  <2> QED
    BY <2>1, <2>2
<1>5. a = Q * (l - x)
  <2>1. w = Q * x /\ x \in Int
    BY <1>3
  <2> HIDE DEF x
  <2>2. Q * (l - x) = l * Q - Q * x
    BY <2>1
  <2> DEFINE u == Q * x
  <2>3. u \in Int /\ y \in Int
    BY <2>1
  <2> HIDE DEF w, y, u
  <2>4. u + a = y
    BY <1>4, <2>1 DEF u
  <2>5. a = y - u
    BY <2>3, <2>4
  <2> QED
    BY <2>2, <2>5 DEF y, u
<1>6. l - x \in Int
  BY <1>3
<1> HIDE DEF x
<1> QED
  BY <1>5, <1>6, NotMultiple

\* The last group of a number that is not 0 is not 0 either.
LEMMA LastGroup ==
    ASSUME NEW r \in Nat, r > 0
    PROVE  Remaining(r, Flagged(r)) \in 1..127
<1> DEFINE F == Flagged(r)
<1>1. F \in Nat /\ Remaining(r, F) < 128 /\ \A j \in 0..(F - 1) : Remaining(r, j) >= 128
  BY FlaggedIs
<1> HIDE DEF F
<1>2. Remaining(r, F) \in Nat
  BY <1>1, RemainingIs
<1>3. CASE F = 0
  <2>1. Remaining(r, 0) = r
    BY RemainingIs
  <2> QED
    BY <1>1, <1>2, <1>3, <2>1 DEF F
<1>4. CASE F # 0
  <2> DEFINE j == F - 1
  <2>1. j \in Nat /\ j \in 0..(F - 1) /\ j + 1 = F
    BY <1>1, <1>4
  <2> HIDE DEF j
  <2>2. Remaining(r, j + 1) = Remaining(r, j) \div 128 /\ Remaining(r, j) \in Nat
    BY <2>1, RemainingIs, ZenonT(40)
  <2>3. Remaining(r, j) >= 128
    BY <1>1, <2>1
  <2> DEFINE x == Remaining(r, j)
  <2>4. x \in Nat /\ x >= 128 /\ Remaining(r, F) = x \div 128
    BY <2>1, <2>2, <2>3
  <2> HIDE DEF x
  <2>5. x \div 128 >= 1
    BY <2>4
  <2> QED
    BY <1>1, <1>2, <2>4, <2>5 DEF F
<1> QED
  BY <1>3, <1>4

\* What a last group moved up does to a sum that stays within the bits read.
LEMMA MovedSum ==
    ASSUME NEW r \in Nat, r > 0, NEW b \in Nat, b > 0, NEW full \in Nat,
           7 * (Flagged(r) + b) < Width
    PROVE  full + Moved(r, b) \in Nat => (full + Moved(r, b)) % 2 ^ Width # full + r
<1> DEFINE F == Flagged(r)
           l == Remaining(r, F)
           P == 2 ^ (7 * F)
           Q == 2 ^ (7 * (F + b))
           a == l * P
           d == full + Moved(r, b)
<1>1. F \in Nat /\ l \in 1..127 /\ Width \in Nat
  BY FlaggedIs, LastGroup, SizesAssumption
<1>2. P \in Nat /\ P > 0 /\ a \in Nat /\ a <= r
  BY <1>1, RemainingIs
<1> HIDE DEF F, l
<1>3. 7 * F \in Nat /\ 7 * F + 7 \in Nat /\ 7 * (F + b) \in Nat /\ 7 * F + 7 <= 7 * (F + b)
      /\ 7 * (F + b) <= Width
  BY <1>1 DEF F
<1>4. Q \in Nat /\ 128 * P <= Q
  <2>1. 2 ^ (7 * F + 7) = 128 * P
    BY <1>3, TimesSeven
  <2>2. 2 ^ (7 * F + 7) <= Q /\ Q \in Nat
    BY <1>3, Grows, Doubling
  <2> QED
    BY <2>1, <2>2
<1>5. PICK C \in Nat : 2 ^ Width = Q * C
  BY <1>1, <1>3, PowersDivide
<1>6. Q * C > 0
  BY <1>1, <1>5, Doubling
<1>7. Moved(r, b) = (r - a) + l * Q
  BY DEF Moved, LastWeight, F, l
<1> HIDE DEF P, Q
<1>8. 0 < a /\ a < Q
  <2>1. l >= 1 /\ l <= 127 /\ l \in Nat
    BY <1>1
  <2>2. 1 * P <= l * P /\ l * P <= 127 * P
    BY <1>2, <2>1
  <2>3. 0 < l * P /\ l * P < 128 * P
    BY <1>2, <2>2
  <2> DEFINE y == 128 * P
  <2>4. y \in Nat /\ 0 < a /\ a < y /\ y <= Q
    BY <1>2, <1>4, <2>3
  <2> HIDE DEF a, y
  <2> QED
    BY <1>2, <1>4, <2>4
<1> DEFINE y == l * Q
<1>9. y \in Nat
  BY <1>1, <1>4
<1>10. ASSUME d \in Nat
       PROVE  d % (Q * C) # full + r
  <2>1. d + a = (full + r) + y
    <3>1. d = full + ((r - a) + y)
      BY <1>7
    <3> HIDE DEF a, y, d
    <3> QED
      BY <1>2, <1>9, <3>1
  <2> HIDE DEF a, d
  <2>2. full + r \in Nat /\ l \in Nat /\ d + a = (full + r) + l * Q
    BY <1>1, <2>1
  <2> QED
    BY <1>2, <1>4, <1>6, <1>8, <1>10, <2>2, MovedAway
<1> QED
  BY <1>5, <1>10 DEF d

LEMMA ContinuedMisread ==
    ASSUME NEW r \in Nat, NEW b \in Nat, ~Harmless(r, b), NEW full \in Nat, full + r < 2 ^ Width,
           NEW buf \in Seq(Bytes), NEW pos \in 1..Len(buf), At(buf, pos + 1, Filled(r, b))
    PROVE  Misread(Continued(buf, pos, full, FinalAt(buf, pos)), full + r)
<1> DEFINE F == Flagged(r)
           K == F + b + 1
           final == FinalAt(buf, pos)
           read == Continued(buf, pos, full, final)
           m == 2 ^ Width
<1> SUFFICES ASSUME read.error = "none", read.v = full + r
             PROVE  FALSE
  BY DEF Misread
<1>1. F \in Nat /\ (r = 0 => F = 0) /\ Len(buf) \in Nat /\ Width \in Nat /\ m \in Nat
  BY FlaggedIs, BytesAre, SizesAssumption, Doubling
<1>2. K \in 1..(Len(buf) - pos) /\ final = pos + K
      /\ \E D : Sums(D, buf, pos, full, K) /\ D[K] = full + Moved(r, b)
  BY FilledSums DEF AddUp
<1>3. PICK D : Sums(D, buf, pos, full, K) /\ D[K] = full + Moved(r, b)
  BY <1>2
<1>4. ContinuedMeans(buf, pos, full)
  BY ContinuedIs
<1>5. final # 0 /\ final - pos = K /\ K \in 0..(Len(buf) - pos) /\ K \in 1..K
  BY <1>1, <1>2
<1>6. PICK v : ValueRun(v, buf, pos, full) /\ v[K].ok /\ read.v = v[K].v
  <2> HIDE DEF final, K
  <2>1. \E v : /\ ValueRun(v, buf, pos, full)
               /\ (read.error = "none" <=> v[final - pos].ok)
               /\ read.error = "none" => read.v = v[final - pos].v
    BY <1>4, <1>5 DEF ContinuedMeans, final
  <2> HIDE DEF read
  <2> QED
    BY <1>5, <2>1 DEF read
<1>7. 7 * (K - 1) < Width
  <2>1. \E x \in Nat : Adds(v, D, K, x, m)
    BY <1>3, <1>5, <1>6, SumStep
  <2> HIDE DEF K, m
  <2> QED
    BY <1>6, <2>1 DEF Adds
<1>8. 7 * (F + b) < Width
  <2>1. K - 1 = F + b
    BY <1>1
  <2> QED
    BY <1>7, <2>1
<1>9. r > 0 /\ b > 0
  <2>1. ~(b = 0) /\ ~(r = 0 /\ 7 * b < Width)
    BY DEF Harmless
  <2>2. r # 0
    <3> SUFFICES ASSUME r = 0
                 PROVE  FALSE
      OBVIOUS
    <3>1. F + b = b
      BY <1>1
    <3> QED
      BY <1>8, <2>1, <3>1
  <2> QED
    BY <2>1, <2>2
<1>10. D[K] \in Nat
  BY <1>3, <1>5 DEF Sums
<1>11. full < m
  <2> HIDE DEF m
  <2>1. full + r < m
    BY DEF m
  <2> QED
    BY <1>1, <2>1
<1>12. v[K].v = D[K] % m
  BY <1>3, <1>5, <1>6, <1>11, ReadModulo
<1>13. (full + Moved(r, b)) % m # full + r
  BY <1>3, <1>8, <1>9, <1>10, MovedSum
<1> QED
  BY <1>3, <1>6, <1>12, <1>13

\* read_integer is misled by every bloated length that does not fit.
MisreadAt(buf, pos, value, pattern) ==
    /\ Misread(ReadInteger(buf, pos, 7), value)
    /\ pos \in 1..Len(buf) /\ buf[pos] = pattern + 127

LEMMA LengthMisread ==
    ASSUME NEW pattern \in {0, 128}, NEW value \in Numbers, NEW bloat \in Nat,
           ~LengthFits(value, bloat), NEW buf \in Seq(Bytes), NEW pos \in Nat, pos >= 1,
           At(buf, pos, WriteInteger(value, 7, pattern, bloat))
    PROVE  MisreadAt(buf, pos, value, pattern)
<1> DEFINE r == value - 127
           g == Filled(r, bloat)
           h == <<pattern + 127>>
           w == WriteInteger(value, 7, pattern, bloat)
<1>1. value \in Nat /\ value < 2 ^ Width
  <2> DEFINE m == 2 ^ Width
  <2>1. m \in Nat
    BY SizesAssumption, Doubling
  <2>2. value \in 0..(m - 1)
    BY DEF Numbers
  <2> HIDE DEF m
  <2>3. value \in Nat /\ value < m
    BY <2>1, <2>2
  <2> QED
    BY <2>3 DEF m
<1>2. ~(bloat = 0) /\ ~(value < 127) /\ ~(value = 127 /\ 7 * bloat < Width)
  BY DEF LengthFits
<1>3. r \in Nat /\ 127 + r = value /\ ~Harmless(r, bloat)
  <2>1. r \in Nat /\ 127 + r = value /\ (r = 0 => value = 127)
    BY <1>1, <1>2
  <2> QED
    BY <1>2, <2>1 DEF Harmless
<1>4. w = h \o g
  <2> DEFINE n == 7
             full == 2 ^ n - 1
  <2>1. IsPattern(n, pattern) /\ full = 127
    BY DEF IsPattern
  <2> HIDE DEF n
  <2>2. ~(value < full)
    BY <1>2, <2>1
  <2>3. WriteInteger(value, n, pattern, bloat) = <<pattern + full>> \o Filled(value - full, bloat)
    <3>1. value \in Nat /\ IsPattern(n, pattern) /\ ~(value < 2 ^ n - 1)
      BY <1>1, <2>1, <2>2
    <3> HIDE DEF w
    <3> QED
      BY <3>1, LongIs, ZenonT(40)
  <2> HIDE DEF full
  <2> QED
    BY <2>1, <2>3 DEF n
<1> HIDE DEF r, w
<1>5. g \in Seq(Bytes)
  BY <1>3, FilledIs DEF AreGroups
<1>6. h \in Seq(Bytes) /\ Len(h) = 1 /\ h[1] = pattern + 127
  <2>1. pattern + 127 \in Bytes
    BY DEF Bytes
  <2> QED
    BY <2>1
<1> HIDE DEF g, h
<1>7. At(buf, pos, h) /\ At(buf, pos + 1, g)
  <2>1. At(buf, pos, h \o g)
    BY <1>4 DEF w
  <2>2. At(buf, pos, h) /\ At(buf, pos + Len(h), g)
    BY <1>5, <1>6, <2>1, AtParts
  <2> QED
    BY <1>6, <2>2
<1>8. Len(buf) \in Nat
  BY BytesAre
<1>9. pos \in 1..Len(buf) /\ buf[pos] = pattern + 127
  <2>1. buf[pos + (1 - 1)] = h[1] /\ pos + 1 <= Len(buf) + 1 /\ pos + (1 - 1) = pos
    BY <1>6, <1>7 DEF At
  <2> QED
    BY <1>6, <1>8, <2>1
<1>10. ReadInteger(buf, pos, 7) = Continued(buf, pos, 127, FinalAt(buf, pos))
  <2>1. 2 ^ 7 = 128 /\ (pattern + 127) % 128 = 127
    OBVIOUS
  <2>2. ~(pos > Len(buf)) /\ ~(buf[pos] % 2 ^ 7 < 2 ^ 7 - 1) /\ 2 ^ 7 - 1 = 127
    BY <1>8, <1>9, <2>1
  <2> QED
    BY <2>2 DEF ReadInteger, FinalAt
<1>11. Misread(Continued(buf, pos, 127, FinalAt(buf, pos)), 127 + r)
  <2>1. 127 \in Nat /\ 127 + r < 2 ^ Width
    BY <1>1, <1>3
  <2> QED
    BY <1>3, <1>7, <1>9, <2>1, ContinuedMisread DEF g
<1> QED
  BY <1>3, <1>9, <1>10, <1>11 DEF MisreadAt

-----------------------------------------------------------------------------
(* What stands where in a string put together of parts.                    *)

LEMMA BitBytes ==
    ASSUME NEW s \in Seq(Bit)
    PROVE  s \in Seq(Bytes)
<1>1. Bit \subseteq Bytes
  BY DEF Bit, Bytes
<1>2. Len(s) \in Nat /\ s \in [1..Len(s) -> Bit]
  OBVIOUS
<1>3. s \in [1..Len(s) -> Bytes]
  BY <1>1, <1>2
<1> QED
  BY <1>2, <1>3

LEMMA ExtendsAt ==
    ASSUME NEW long, NEW short, Extends(long, short), NEW pos \in Nat, pos >= 1, NEW s, At(short, pos, s)
    PROVE  At(long, pos, s)
<1>1. /\ long \in Seq(Bytes) /\ short \in Seq(Bytes) /\ Len(short) <= Len(long)
      /\ \A i \in 1..Len(short) : long[i] = short[i]
  BY DEF Extends
<1>2. Len(long) \in Nat /\ Len(short) \in Nat
  BY <1>1
<1>3. /\ s \in Seq(Bytes) /\ pos + Len(s) <= Len(short) + 1
      /\ \A i \in 1..Len(s) : short[pos + (i - 1)] = s[i]
  BY DEF At
<1>4. Len(s) \in Nat
  BY <1>3
<1>5. ASSUME NEW i \in 1..Len(s)
      PROVE  long[pos + (i - 1)] = s[i]
  <2>1. pos + (i - 1) \in 1..Len(short)
    BY <1>2, <1>3, <1>4
  <2> QED
    BY <1>1, <1>3, <2>1
<1>6. pos + Len(s) <= Len(long) + 1
  BY <1>1, <1>2, <1>3, <1>4
<1> QED
  BY <1>3, <1>5, <1>6 DEF At

LEMMA ExtendsParts ==
    ASSUME NEW long, NEW a \in Seq(Bytes), NEW b \in Seq(Bytes), Extends(long, a \o b)
    PROVE  Extends(long, a) /\ At(long, Len(a) + 1, b) /\ Len(a) \in Nat /\ Len(b) \in Nat
<1> DEFINE c == a \o b
<1>1. /\ c \in Seq(Bytes) /\ Len(c) = Len(a) + Len(b) /\ Len(a) \in Nat /\ Len(b) \in Nat
      /\ \A i \in 1..Len(a) : c[i] = a[i]
      /\ \A i \in 1..Len(b) : c[Len(a) + i] = b[i]
  BY ConcatAt
<1> HIDE DEF c
<1>2. /\ long \in Seq(Bytes) /\ Len(c) <= Len(long)
      /\ \A i \in 1..Len(c) : long[i] = c[i]
  BY DEF Extends, c
<1>3. Len(long) \in Nat
  BY <1>2
<1>4. Extends(long, a)
  <2>1. ASSUME NEW i \in 1..Len(a)
        PROVE  long[i] = a[i]
    <3>1. i \in 1..Len(c)
      BY <1>1
    <3> QED
      BY <1>1, <1>2, <3>1
  <2>2. Len(a) <= Len(long)
    BY <1>1, <1>2, <1>3
  <2> QED
    BY <1>2, <2>1, <2>2 DEF Extends
<1>5. At(long, Len(a) + 1, b)
  <2>1. ASSUME NEW i \in 1..Len(b)
        PROVE  long[(Len(a) + 1) + (i - 1)] = b[i]
    <3>1. Len(a) + i \in 1..Len(c) /\ (Len(a) + 1) + (i - 1) = Len(a) + i
      BY <1>1
    <3>2. long[Len(a) + i] = c[Len(a) + i] /\ c[Len(a) + i] = b[i]
      BY <1>1, <1>2, <3>1
    <3> QED
      BY <3>1, <3>2
  <2>2. (Len(a) + 1) + Len(b) <= Len(long) + 1
    BY <1>1, <1>2, <1>3
  <2> QED
    BY <2>1, <2>2 DEF At
<1> QED
  BY <1>1, <1>4, <1>5

\* Each part stands behind those before it.
LEMMA PartsAt ==
    ASSUME NEW f \in Seq(Seq(Bytes)), NEW r, ConcatRun(r, f, Bytes), NEW long, Extends(long, Concat(f)),
           NEW i \in 1..Len(f)
    PROVE  /\ At(long, Len(r[i - 1]) + 1, f[i]) /\ Len(r[i - 1]) \in Nat /\ Len(f[i]) \in Nat
           /\ Len(r[i]) = Len(r[i - 1]) + Len(f[i])
<1> DEFINE n == Len(f)
           T == {k \in 0..n : Extends(long, r[n - k])}
<1>1. n \in Nat
  OBVIOUS
<1>2. /\ r \in [0..n -> Seq(Bytes)] /\ Concat(f) = r[n]
      /\ \A k \in 1..n : r[k] = r[k - 1] \o f[k]
  BY DEF ConcatRun
<1>3. \A k \in 1..n : f[k] \in Seq(Bytes)
  <2> DEFINE S == Seq(Bytes)
  <2> HIDE DEF S
  <2>1. f \in Seq(S)
    BY DEF S
  <2>2. \A k \in 1..n : f[k] \in S
    BY <1>1, <2>1, ElementOfSeq
  <2> QED
    BY <2>2 DEF S
<1> HIDE DEF n
<1>4. 0 \in T
  <2>1. n - 0 = n
    BY <1>1
  <2> QED
    BY <1>1, <1>2, <2>1
<1>5. ASSUME NEW k \in 1..n, k - 1 \in T
      PROVE  k \in T
  <2> DEFINE j == n - (k - 1)
  <2>1. j \in 1..n /\ j - 1 = n - k
    BY <1>1
  <2>2. Extends(long, r[j])
    BY <1>5
  <2> HIDE DEF j
  <2>3. r[j - 1] \in Seq(Bytes) /\ f[j] \in Seq(Bytes) /\ r[j] = r[j - 1] \o f[j]
    <3>1. j - 1 \in 0..n
      BY <1>1, <2>1
    <3> QED
      BY <1>2, <1>3, <2>1, <3>1
  <2> DEFINE a == r[j - 1]
             b == f[j]
  <2>4. a \in Seq(Bytes) /\ b \in Seq(Bytes) /\ Extends(long, a \o b)
    BY <2>2, <2>3
  <2> HIDE DEF a, b
  <2>5. Extends(long, a)
    BY <2>4, ExtendsParts
  <2>6. Extends(long, r[n - k])
    BY <2>1, <2>5 DEF a
  <2> QED
    BY <1>1, <2>6
<1>6. 0..n \subseteq T
  <2> HIDE DEF T
  <2> QED
    BY <1>1, <1>4, <1>5, UpTo
<1> DEFINE a == r[i - 1]
           b == f[i]
<1>7. a \in Seq(Bytes) /\ b \in Seq(Bytes) /\ r[i] = a \o b /\ Extends(long, a \o b)
  <2>1. i - 1 \in 0..n /\ i \in 1..n /\ n - i \in 0..n /\ n - (n - i) = i
    BY <1>1 DEF n
  <2>2. Extends(long, r[i])
    BY <1>6, <2>1
  <2> QED
    BY <1>2, <1>3, <2>1, <2>2
<1> HIDE DEF a, b
<1>8. At(long, Len(a) + 1, b) /\ Len(a) \in Nat /\ Len(b) \in Nat
  BY <1>7, ExtendsParts
<1>9. Len(a \o b) = Len(a) + Len(b)
  BY <1>7, ConcatAt
<1> QED
  BY <1>7, <1>8, <1>9 DEF a, b

-----------------------------------------------------------------------------
(* What encode wrote, decode reads.                                        *)

LEMMA BitsBack ==
    ASSUME NEW s \in Seq(Bit), Len(s) = 8
    PROVE  ByteOf(s) \in Bytes /\ BitsOf(ByteOf(s)) = s
<1> DEFINE t == [i \in 1..8 |-> s[i] * 2 ^ (8 - i)]
<1>2. /\ 2 ^ (8 - 1) = 128 /\ 2 ^ (8 - 2) = 64 /\ 2 ^ (8 - 3) = 32 /\ 2 ^ (8 - 4) = 16
      /\ 2 ^ (8 - 5) = 8 /\ 2 ^ (8 - 6) = 4 /\ 2 ^ (8 - 7) = 2 /\ 2 ^ (8 - 8) = 1
  OBVIOUS
<1>3. \A i \in 1..8 : i = 1 \/ i = 2 \/ i = 3 \/ i = 4 \/ i = 5 \/ i = 6 \/ i = 7 \/ i = 8
  OBVIOUS
<1>4. \A i \in 1..8 : s[i] \in Bit /\ s[i] \in Nat
  <2>1. ASSUME NEW i \in 1..8
        PROVE  s[i] \in Bit
    <3>1. i \in 1..Len(s)
      OBVIOUS
    <3> QED
      BY <3>1, ElementOfSeq
  <2> QED
    BY <2>1 DEF Bit
<1>8. t \in Seq(Nat) /\ Len(t) = 8
  <2>1. ASSUME NEW i \in 1..8
        PROVE  s[i] * 2 ^ (8 - i) \in Nat
    <3>1. 8 - i \in Nat
      OBVIOUS
    <3>2. 2 ^ (8 - i) \in Nat
      BY <3>1, Doubling
    <3>3. s[i] \in Nat
      BY <1>4
    <3> DEFINE x == s[i]
               y == 2 ^ (8 - i)
    <3>4. x \in Nat /\ y \in Nat
      BY <3>2, <3>3
    <3> HIDE DEF x, y
    <3>5. x * y \in Nat
      BY <3>4
    <3> QED
      BY <3>5 DEF x, y
  <2> QED
    BY <2>1
<1>9. /\ t[1] = s[1] * 128 /\ t[2] = s[2] * 64 /\ t[3] = s[3] * 32 /\ t[4] = s[4] * 16
      /\ t[5] = s[5] * 8 /\ t[6] = s[6] * 4 /\ t[7] = s[7] * 2 /\ t[8] = s[8]
  <2>1. /\ t[1] = s[1] * 2 ^ (8 - 1) /\ t[2] = s[2] * 2 ^ (8 - 2) /\ t[3] = s[3] * 2 ^ (8 - 3)
        /\ t[4] = s[4] * 2 ^ (8 - 4)
    OBVIOUS
  <2>2. /\ t[5] = s[5] * 2 ^ (8 - 5) /\ t[6] = s[6] * 2 ^ (8 - 6) /\ t[7] = s[7] * 2 ^ (8 - 7)
        /\ t[8] = s[8] * 2 ^ (8 - 8)
    OBVIOUS
  <2>3. s[8] \in Nat
    BY <1>4
  <2> HIDE DEF t
  <2>4. t[8] = s[8] * 1
    BY <1>2, <2>2
  <2>5. t[8] = s[8]
    BY <2>3, <2>4
  <2> QED
    BY <1>2, <2>1, <2>2, <2>5
<1>10. ByteOf(s) = Total(t)
  BY DEF ByteOf
<1> HIDE DEF t
<1>11. PICK r : TotalRun(r, t)
  BY <1>8, TotalRuns
<1>12. \A i \in 1..8 : r[i] = r[i - 1] + t[i]
  BY <1>8, <1>11 DEF TotalRun
<1>13. /\ r[0] = 0 /\ Total(t) = r[8]
       /\ r[1] = r[0] + t[1] /\ r[2] = r[1] + t[2] /\ r[3] = r[2] + t[3] /\ r[4] = r[3] + t[4]
       /\ r[5] = r[4] + t[5] /\ r[6] = r[5] + t[6] /\ r[7] = r[6] + t[7] /\ r[8] = r[7] + t[8]
  BY <1>8, <1>11, <1>12 DEF TotalRun
<1> DEFINE n == ByteOf(s)
<1>14. n = 128 * s[1] + 64 * s[2] + 32 * s[3] + 16 * s[4] + 8 * s[5] + 4 * s[6] + 2 * s[7] + s[8]
  BY <1>4, <1>9, <1>10, <1>13, SMTT(40)
<1> HIDE DEF n
<1>15. /\ s[1] \in Bit /\ s[2] \in Bit /\ s[3] \in Bit /\ s[4] \in Bit
       /\ s[5] \in Bit /\ s[6] \in Bit /\ s[7] \in Bit /\ s[8] \in Bit
  BY <1>4
<1>16. /\ n \in 0..255
       /\ (n \div 128) % 2 = s[1] /\ (n \div 64) % 2 = s[2] /\ (n \div 32) % 2 = s[3]
       /\ (n \div 16) % 2 = s[4] /\ (n \div 8) % 2 = s[5] /\ (n \div 4) % 2 = s[6]
       /\ (n \div 2) % 2 = s[7] /\ (n \div 1) % 2 = s[8]
  <2> DEFINE a == s[1]
             b == s[2]
             c == s[3]
             d == s[4]
             e == s[5]
             f == s[6]
             g == s[7]
             h == s[8]
  <2> HIDE DEF a, b, c, d, e, f, g, h
  <2>1. /\ a \in Bit /\ b \in Bit /\ c \in Bit /\ d \in Bit
        /\ e \in Bit /\ f \in Bit /\ g \in Bit /\ h \in Bit
    BY <1>15 DEF a, b, c, d, e, f, g, h
  <2>2. n = 128 * a + 64 * b + 32 * c + 16 * d + 8 * e + 4 * f + 2 * g + h
    BY <1>14 DEF a, b, c, d, e, f, g, h
  <2>3. /\ n \in 0..255
        /\ (n \div 128) % 2 = a /\ (n \div 64) % 2 = b /\ (n \div 32) % 2 = c /\ (n \div 16) % 2 = d
        /\ (n \div 8) % 2 = e /\ (n \div 4) % 2 = f /\ (n \div 2) % 2 = g /\ (n \div 1) % 2 = h
    BY <2>1, <2>2, SMTT(60) DEF Bit
  <2> QED
    BY <2>3 DEF a, b, c, d, e, f, g, h
<1>17. n \in Bytes
  BY <1>16 DEF Bytes
<1> DEFINE u == BitsOf(n)
<1>18. u \in Seq(Bit) /\ Len(u) = 8
  BY <1>17, ByteBits
<1>19. /\ u[1] = (n \div 128) % 2 /\ u[2] = (n \div 64) % 2 /\ u[3] = (n \div 32) % 2
       /\ u[4] = (n \div 16) % 2 /\ u[5] = (n \div 8) % 2 /\ u[6] = (n \div 4) % 2
       /\ u[7] = (n \div 2) % 2 /\ u[8] = (n \div 1) % 2
  BY <1>2 DEF BitsOf
<1> HIDE DEF u
<1>20. \A i \in 1..8 : u[i] = s[i]
  BY <1>3, <1>16, <1>19
<1>21. u = s
  BY <1>18, <1>20, SeqEqual
<1> QED
  BY <1>17, <1>21 DEF u, n

\* encode gives whole bytes, the code words and fewer than eight ones.
LEMMA EncodeBits ==
    ASSUME NEW s \in Seq(Alphabet)
    PROVE  /\ HuffmanEncode(s) \in Seq(Bytes) /\ Len(HuffmanEncode(s)) = EncodedLen(s)
           /\ \E m \in 0..7 : InputBits(HuffmanEncode(s)) = CodeBits(s) \o Ones(m)
<1> DEFINE c == CodeBits(s)
           k == EncodedLen(s)
           m == 8 * k - Len(c)
           bits == c \o Ones(m)
           e == HuffmanEncode(s)
<1>1. Len(c) \in Nat /\ k = (Len(c) + 7) \div 8 /\ c \in Seq(Bit)
  BY EncodedLength, CodeBitsAppend
<1>2. e = [i \in 1..k |-> ByteOf(SubSeq(bits, 8 * i - 7, 8 * i))]
  BY DEF HuffmanEncode
<1> HIDE DEF c, k
<1>3. k \in Nat /\ m \in 0..7 /\ Len(c) + m = 8 * k
  <2> DEFINE l == Len(c)
  <2>1. l \in Nat /\ k = (l + 7) \div 8
    BY <1>1
  <2> HIDE DEF l
  <2>2. k \in Nat /\ 8 * k - l \in 0..7 /\ l + (8 * k - l) = 8 * k
    BY <2>1
  <2> QED
    BY <2>2 DEF l
<1> HIDE DEF m
<1>4. Ones(m) \in Seq(Bit) /\ Len(Ones(m)) = m
  BY <1>3 DEF Ones, Bit
<1>5. bits \in Seq(Bit) /\ Len(bits) = 8 * k
  <2> DEFINE o == Ones(m)
  <2>1. c \in Seq(Bit) /\ o \in Seq(Bit)
    BY <1>1, <1>4
  <2> HIDE DEF o
  <2>2. c \o o \in Seq(Bit) /\ Len(c \o o) = Len(c) + Len(o)
    BY <2>1, ConcatAt
  <2> QED
    BY <1>3, <1>4, <2>2 DEF o
<1> HIDE DEF bits
<1>6. ASSUME NEW i \in 1..k
      PROVE  /\ ByteOf(SubSeq(bits, 8 * i - 7, 8 * i)) \in Bytes
             /\ \A j \in 1..8 : BitsOf(ByteOf(SubSeq(bits, 8 * i - 7, 8 * i)))[j] = bits[8 * (i - 1) + j]
  <2> DEFINE t == SubSeq(bits, 8 * i - 7, 8 * i)
  <2>1. 8 * i - 7 \in 1..Len(bits) /\ 8 * i \in 1..Len(bits) /\ 8 * i - (8 * i - 7) + 1 = 8
    BY <1>3, <1>5
  <2>2. t \in Seq(Bit) /\ Len(t) = 8 /\ \A j \in 1..8 : t[j] = bits[(8 * i - 7) + j - 1]
    BY <1>5, <2>1
  <2>3. \A j \in 1..8 : (8 * i - 7) + j - 1 = 8 * (i - 1) + j
    BY <1>3
  <2> HIDE DEF t
  <2>4. ByteOf(t) \in Bytes /\ BitsOf(ByteOf(t)) = t
    BY <2>2, BitsBack
  <2>5. ASSUME NEW j \in 1..8
        PROVE  BitsOf(ByteOf(t))[j] = bits[8 * (i - 1) + j]
    BY <2>2, <2>3, <2>4
  <2> QED
    BY <2>4, <2>5 DEF t
<1> HIDE DEF e
<1>7. e \in Seq(Bytes) /\ Len(e) = k
  BY <1>2, <1>3, <1>6
<1>8. \A i \in 1..k : e[i] = ByteOf(SubSeq(bits, 8 * i - 7, 8 * i))
  BY <1>2
<1> DEFINE u == InputBits(e)
<1>9. u \in Seq(Bit) /\ Len(u) = 8 * k /\ \A i \in 1..k : \A j \in 1..8 : u[8 * (i - 1) + j] = BitsOf(e[i])[j]
  BY <1>7, InputBitsAt DEF BitsAt
<1> HIDE DEF u
<1>10. ASSUME NEW x \in 1..(8 * k)
       PROVE  u[x] = bits[x]
  <2> DEFINE i == ((x - 1) \div 8) + 1
             j == ((x - 1) % 8) + 1
  <2>1. i \in 1..k /\ j \in 1..8 /\ x = 8 * (i - 1) + j
    BY <1>3
  <2> HIDE DEF i, j
  <2>2. u[8 * (i - 1) + j] = BitsOf(e[i])[j]
    BY <1>9, <2>1
  <2>3. BitsOf(e[i])[j] = bits[8 * (i - 1) + j]
    BY <1>6, <1>8, <2>1
  <2> QED
    BY <2>1, <2>2, <2>3
<1>11. u = bits
  <2>1. Len(u) = Len(bits) /\ \A x \in 1..Len(u) : u[x] = bits[x]
    BY <1>5, <1>9, <1>10
  <2> QED
    BY <1>5, <1>9, <2>1, SeqEqual
<1> QED
  BY <1>3, <1>7, <1>11 DEF u, e, bits, c, k

\* A walk under way: the symbols found, and the path since.
On(out, path) == [path |-> path, out |-> out, eos |-> FALSE]

LEMMA OnIs ==
    ASSUME NEW out \in Seq(Alphabet), NEW path \in Seq(Bit)
    PROVE  On(out, path) \in WalkStates /\ On(out, path).path = path /\ On(out, path).out = out
           /\ ~On(out, path).eos
  BY DEF On, WalkStates

LEMMA WordIs ==
    ASSUME NEW w \in CodeWords
    PROVE  w \in Seq(Bit) /\ Len(w) \in Nat /\ Len(w) >= 1
<1>1. w \in Seq({0, 1}) /\ Len(w) \in 1..30
  BY CodeAssumption
<1>2. w \in Seq(Bit)
  BY <1>1 DEF Bit
<1>3. Len(w) \in Nat /\ Len(w) >= 1
  <2> DEFINE l == Len(w)
  <2>1. l \in 1..30
    BY <1>1
  <2> HIDE DEF l
  <2>2. l \in Nat /\ l >= 1
    BY <2>1
  <2> QED
    BY <2>2 DEF l
<1> QED
  BY <1>2, <1>3

\* No code word ends inside another.
LEMMA NoWordInside ==
    ASSUME NEW w \in CodeWords, NEW j \in 0..(Len(w) - 1)
    PROVE  SubSeq(w, 1, j) \notin CodeWords
<1> DEFINE v == SubSeq(w, 1, j)
<1>1. w \in Seq(Bit) /\ Len(w) \in Nat
  BY WordIs
<1>2. Len(v) = j /\ v \in Seq(Bit) /\ j <= Len(w) /\ j # Len(w)
  <2>1. j \in 0..Len(w)
    BY <1>1
  <2>2. SubSeq(w, 1, j) \in Seq(Bit) /\ Len(SubSeq(w, 1, j)) = j
    BY <1>1, <2>1, BeginningIs
  <2> QED
    BY <1>1, <2>1, <2>2
<1>3. SubSeq(v, 1, Len(v)) = v
  <2> HIDE DEF v
  <2> QED
    BY <1>2, WholePrefix
<1>4. SubSeq(w, 1, Len(v)) = v
  BY <1>2
<1> HIDE DEF v
<1>5. IsPrefix(v, w) /\ v # w
  BY <1>2, <1>3, <1>4 DEF IsPrefix
<1> SUFFICES ASSUME v \in CodeWords
             PROVE  FALSE
  BY DEF v
<1> QED
  BY <1>5, CodeAssumption

LEMMA StepInside ==
    ASSUME NEW out \in Seq(Alphabet), NEW w \in CodeWords, NEW j \in 1..(Len(w) - 1)
    PROVE  WalkStep(On(out, SubSeq(w, 1, j - 1)), w[j]) = On(out, SubSeq(w, 1, j))
<1> DEFINE p == SubSeq(w, 1, j - 1)
           q == SubSeq(w, 1, j)
           o == On(out, p)
<1>1. w \in Seq(Bit) /\ Len(w) \in Nat
  BY WordIs
<1>2. j \in 1..Len(w) /\ j \in 0..(Len(w) - 1)
  BY <1>1
<1>3. p \in Seq(Bit) /\ w[j] \in Bit /\ q = Append(p, w[j])
  BY <1>1, <1>2, PrefixStep
<1>4. q \notin CodeWords
  BY <1>2, NoWordInside
<1>5. Eos \in CodeWords /\ \A a \in Alphabet : HuffmanTable[a] \in CodeWords
  BY DEF CodeWords
<1> HIDE DEF p, q
<1>6. o \in WalkStates /\ o.path = p /\ o.out = out /\ ~o.eos
  BY <1>3, OnIs
<1> HIDE DEF o
<1>7. WalkStep(o, w[j]) = [path |-> Append(o.path, w[j]), out |-> o.out, eos |-> FALSE]
  BY <1>3, <1>4, <1>5, <1>6, WalkStepIs
<1> QED
  BY <1>3, <1>6, <1>7 DEF On, o, p, q

LEMMA StepLeaf ==
    ASSUME NEW out \in Seq(Alphabet), NEW a \in Alphabet
    PROVE  WalkStep(On(out, SubSeq(HuffmanTable[a], 1, Len(HuffmanTable[a]) - 1)),
                    HuffmanTable[a][Len(HuffmanTable[a])]) = On(Append(out, a), << >>)
<1> DEFINE w == HuffmanTable[a]
           j == Len(w)
           p == SubSeq(w, 1, j - 1)
           o == On(out, p)
<1>1. w \in CodeWords
  BY DEF CodeWords
<1>2. w \in Seq(Bit) /\ Len(w) \in Nat /\ Len(w) >= 1
  BY <1>1, WordIs
<1>3. j \in 1..Len(w) /\ SubSeq(w, 1, j) = w
  BY <1>2, WholePrefix
<1>4. p \in Seq(Bit) /\ w[j] \in Bit /\ Append(p, w[j]) = w
  BY <1>2, <1>3, PrefixStep
<1>5. w # Eos /\ \A b \in Alphabet : HuffmanTable[b] = w => b = a
  BY CodeAssumption
<1> HIDE DEF w, j, p
<1>6. o \in WalkStates /\ o.path = p /\ o.out = out /\ ~o.eos
  BY <1>4, OnIs
<1> HIDE DEF o
<1>7. \E b \in Alphabet :
         /\ Append(o.path, w[j]) = HuffmanTable[b]
         /\ WalkStep(o, w[j]) = [path |-> << >>, out |-> Append(o.out, b), eos |-> FALSE]
  BY <1>1, <1>4, <1>5, <1>6, WalkStepIs
<1>8. WalkStep(o, w[j]) = [path |-> << >>, out |-> Append(o.out, a), eos |-> FALSE]
  BY <1>4, <1>5, <1>6, <1>7
<1> QED
  BY <1>6, <1>8 DEF On, o, p, j, w

\* The walk along a code word, before its end.
LEMMA WalkAlong ==
    ASSUME NEW bits \in Seq(Bit), NEW r, WalkRun(r, bits), NEW c \in Nat, NEW out \in Seq(Alphabet),
           r[c] = On(out, << >>), NEW w \in CodeWords, NEW n \in 0..(Len(w) - 1), c + n <= Len(bits),
           \A k \in 1..n : bits[c + k] = w[k]
    PROVE  r[c + n] = On(out, SubSeq(w, 1, n))
<1> DEFINE T == {k \in 0..n : r[c + k] = On(out, SubSeq(w, 1, k))}
<1>1. w \in Seq(Bit) /\ Len(w) \in Nat /\ n \in Nat /\ Len(bits) \in Nat
  BY WordIs
<1>2. 0 \in T
  <2>1. c + 0 = c /\ 0 \in 0..n
    BY <1>1
  <2>2. SubSeq(w, 1, 0) = << >>
    BY <1>1, WholePrefix
  <2>3. r[c + 0] = On(out, SubSeq(w, 1, 0))
    BY <2>1, <2>2
  <2> QED
    BY <2>1, <2>3
<1>3. ASSUME NEW k \in 1..n, k - 1 \in T
      PROVE  k \in T
  <2>1. k \in 1..(Len(w) - 1) /\ c + k \in 1..Len(bits) /\ (c + k) - 1 = c + (k - 1)
    BY <1>1
  <2>2. r[c + k] = WalkStep(r[(c + k) - 1], bits[c + k])
    BY <2>1 DEF WalkRun
  <2>3. r[c + (k - 1)] = On(out, SubSeq(w, 1, k - 1))
    BY <1>3
  <2>4. r[c + k] = WalkStep(On(out, SubSeq(w, 1, k - 1)), w[k])
    BY <2>1, <2>2, <2>3
  <2>5. r[c + k] = On(out, SubSeq(w, 1, k))
    BY <2>1, <2>4, StepInside
  <2> QED
    BY <1>1, <2>5
<1>4. 0..n \subseteq T
  <2> HIDE DEF T
  <2> QED
    BY <1>1, <1>2, <1>3, UpTo
<1>5. n \in T
  BY <1>1, <1>4
<1> QED
  BY <1>5

\* And to its leaf.
LEMMA WalkWord ==
    ASSUME NEW bits \in Seq(Bit), NEW r, WalkRun(r, bits), NEW c \in Nat, NEW out \in Seq(Alphabet),
           r[c] = On(out, << >>), NEW a \in Alphabet, At(bits, c + 1, HuffmanTable[a])
    PROVE  r[c + Len(HuffmanTable[a])] = On(Append(out, a), << >>)
<1> DEFINE w == HuffmanTable[a]
           n == Len(w) - 1
<1>1. w \in CodeWords
  BY DEF CodeWords
<1>2. w \in Seq(Bit) /\ Len(w) \in Nat /\ Len(w) >= 1 /\ Len(bits) \in Nat
  BY <1>1, WordIs
<1>3. /\ (c + 1) + Len(w) <= Len(bits) + 1
      /\ \A i \in 1..Len(w) : bits[(c + 1) + (i - 1)] = w[i]
  BY DEF At
<1>4. \A i \in 1..Len(w) : bits[c + i] = w[i]
  <2>1. ASSUME NEW i \in 1..Len(w)
        PROVE  bits[c + i] = w[i]
    <3>1. (c + 1) + (i - 1) = c + i
      BY <1>2
    <3> QED
      BY <1>3, <3>1
  <2> QED
    BY <2>1
<1> HIDE DEF w
<1>5. n \in 0..(Len(w) - 1) /\ c + n <= Len(bits) /\ n \in Nat
  BY <1>2, <1>3
<1>6. \A k \in 1..n : bits[c + k] = w[k]
  <2>1. ASSUME NEW k \in 1..n
        PROVE  bits[c + k] = w[k]
    <3>1. k \in 1..Len(w)
      BY <1>2
    <3> QED
      BY <1>4, <3>1
  <2> QED
    BY <2>1
<1>7. r[c + n] = On(out, SubSeq(w, 1, n))
  BY <1>1, <1>5, <1>6, WalkAlong, SMTT(40)
<1> DEFINE l == Len(w)
<1>8. c + l \in 1..Len(bits) /\ (c + l) - 1 = c + n /\ l \in 1..Len(w) /\ n = l - 1
  <2>1. l \in Nat /\ l >= 1 /\ (c + 1) + l <= Len(bits) + 1 /\ n = l - 1
    BY <1>2, <1>3
  <2> HIDE DEF l, n
  <2>2. c + l \in 1..Len(bits) /\ (c + l) - 1 = c + n /\ l \in 1..l
    BY <1>2, <2>1
  <2> QED
    BY <2>1, <2>2 DEF l
<1>9. r[c + l] = WalkStep(r[(c + l) - 1], bits[c + l]) /\ bits[c + l] = w[l]
  <2>1. \A i \in 1..Len(bits) : r[i] = WalkStep(r[i - 1], bits[i])
    BY DEF WalkRun
  <2> QED
    BY <1>4, <1>8, <2>1
<1>10. r[c + l] = WalkStep(On(out, SubSeq(w, 1, l - 1)), w[l])
  BY <1>7, <1>8, <1>9
<1>11. WalkStep(On(out, SubSeq(w, 1, l - 1)), w[l]) = On(Append(out, a), << >>)
  BY StepLeaf DEF w
<1> QED
  BY <1>10, <1>11 DEF w

\* The code words of a string.
Spelling(s) == [i \in 1..Len(s) |-> HuffmanTable[s[i]]]

LEMMA SpellingIs ==
    ASSUME NEW s \in Seq(Alphabet)
    PROVE  /\ Spelling(s) \in Seq(Seq(Bytes)) /\ Len(Spelling(s)) = Len(s) /\ Len(s) \in Nat
           /\ \A i \in 1..Len(s) : Spelling(s)[i] = HuffmanTable[s[i]] /\ s[i] \in Alphabet
           /\ CodeBits(s) = Concat(Spelling(s)) /\ CodeBits(s) \in Seq(Bytes)
<1>1. Len(s) \in Nat /\ \A i \in 1..Len(s) : s[i] \in Alphabet
  BY ElementOfSeq
<1>2. \A a \in Alphabet : HuffmanTable[a] \in Seq(Bytes)
  BY CodeTypes, BitBytes
<1>3. Spelling(s) \in Seq(Seq(Bytes)) /\ Len(Spelling(s)) = Len(s)
  <2> DEFINE S == Seq(Bytes)
  <2>1. \A i \in 1..Len(s) : HuffmanTable[s[i]] \in S
    BY <1>1, <1>2
  <2> HIDE DEF S
  <2>2. Spelling(s) \in Seq(S) /\ Len(Spelling(s)) = Len(s)
    BY <1>1, <2>1 DEF Spelling
  <2> QED
    BY <2>2 DEF S
<1>4. CodeBits(s) = Concat(Spelling(s))
  BY DEF CodeBits, Spelling
<1>5. CodeBits(s) \in Seq(Bytes)
  BY CodeBitsAppend, BitBytes
<1> QED
  BY <1>1, <1>3, <1>4, <1>5 DEF Spelling

\* A long code word takes four bytes at most.
LEMMA EncodedLenBound ==
    ASSUME NEW s \in Seq(Alphabet)
    PROVE  EncodedLen(s) \in Nat /\ EncodedLen(s) <= 4 * Len(s)
<1> DEFINE f == Spelling(s)
           n == Len(s)
<1>1. /\ f \in Seq(Seq(Bytes)) /\ Len(f) = n /\ n \in Nat
      /\ \A i \in 1..n : f[i] = HuffmanTable[s[i]] /\ s[i] \in Alphabet
      /\ CodeBits(s) = Concat(f) /\ Concat(f) \in Seq(Bytes)
  BY SpellingIs
<1> HIDE DEF f, n
<1>2. PICK q : ConcatRun(q, f, Bytes)
  BY <1>1, ConcatRuns
<1>3. Extends(Concat(f), Concat(f))
  <2>1. Len(Concat(f)) \in Nat
    BY <1>1
  <2> QED
    BY <1>1, <2>1 DEF Extends
<1>4. ASSUME NEW i \in 1..n
      PROVE  Len(q[i]) = Len(q[i - 1]) + Len(f[i]) /\ Len(f[i]) \in Nat /\ Len(f[i]) <= 30
  <2>1. i \in 1..Len(f)
    BY <1>1
  <2>2. Len(q[i]) = Len(q[i - 1]) + Len(f[i]) /\ Len(f[i]) \in Nat
    BY <1>1, <1>2, <1>3, <2>1, PartsAt
  <2>3. f[i] \in CodeWords
    BY <1>1 DEF CodeWords
  <2>4. Len(f[i]) \in 1..30
    BY <2>3, CodeAssumption
  <2> DEFINE l == Len(f[i])
  <2>5. l \in 1..30
    BY <2>4
  <2> HIDE DEF l
  <2>6. l <= 30
    BY <2>5
  <2> QED
    BY <2>2, <2>6 DEF l
<1> DEFINE T == {i \in 0..n : Len(q[i]) \in Nat /\ Len(q[i]) <= 30 * i}
<1>5. 0 \in T
  <2>1. q[0] = << >>
    BY <1>2 DEF ConcatRun
  <2>2. Len(q[0]) = 0
    BY <2>1
  <2> QED
    BY <1>1, <2>2
<1>6. ASSUME NEW i \in 1..n, i - 1 \in T
      PROVE  i \in T
  <2> DEFINE x == Len(q[i - 1])
             y == Len(f[i])
             z == Len(q[i])
  <2>1. x \in Nat /\ x <= 30 * (i - 1) /\ y \in Nat /\ y <= 30 /\ z = x + y
    BY <1>4, <1>6
  <2> HIDE DEF x, y, z
  <2>2. z \in Nat /\ z <= 30 * i
    BY <1>1, <2>1
  <2> QED
    BY <1>1, <2>2 DEF z
<1>7. 0..n \subseteq T
  <2> HIDE DEF T
  <2> QED
    BY <1>1, <1>5, <1>6, UpTo
<1>8. n \in T
  BY <1>1, <1>7
<1> DEFINE L == Len(CodeBits(s))
<1>9. L \in Nat /\ L <= 30 * n
  <2>1. CodeBits(s) = q[n]
    BY <1>1, <1>2 DEF ConcatRun
  <2> QED
    BY <1>8, <2>1
<1>10. EncodedLen(s) = (L + 7) \div 8
  BY EncodedLength
<1> HIDE DEF L
<1>11. (L + 7) \div 8 \in Nat /\ (L + 7) \div 8 <= 4 * n
  BY <1>1, <1>9
<1> QED
  BY <1>10, <1>11 DEF n

LEMMA HuffmanBack ==
    ASSUME NEW s \in Seq(Alphabet)
    PROVE  HuffmanDecode(HuffmanEncode(s)) = [error |-> "none", out |-> s]
<1> DEFINE e == HuffmanEncode(s)
           bits == InputBits(e)
           c == CodeBits(s)
           f == Spelling(s)
           n == Len(s)
<1>1. e \in Seq(Bytes) /\ \E m \in 0..7 : bits = c \o Ones(m)
  BY EncodeBits
<1>2. PICK m \in 0..7 : bits = c \o Ones(m)
  BY <1>1
<1>3. PICK r : WalkRun(r, bits) /\ HuffmanDecode(e) = WalkEnds(r[Len(bits)])
  BY <1>1, WalkRuns
<1>4. /\ f \in Seq(Seq(Bytes)) /\ Len(f) = n /\ n \in Nat
      /\ \A i \in 1..n : f[i] = HuffmanTable[s[i]] /\ s[i] \in Alphabet
      /\ c = Concat(f) /\ c \in Seq(Bytes)
  BY SpellingIs
<1>5. bits \in Seq(Bit) /\ Ones(m) \in Seq(Bit) /\ Len(Ones(m)) = m
  <2>1. bits \in Seq(Bit)
    BY <1>1, InputBitsAt DEF BitsAt
  <2> QED
    BY <2>1 DEF Ones, Bit
<1> HIDE DEF e, bits, c, f, n
<1> DEFINE o == Ones(m)
<1>6. o \in Seq(Bytes) /\ bits \in Seq(Bytes) /\ Len(o) = m
  BY <1>5, BitBytes
<1>7. \A i \in 1..m : o[i] = 1
  BY DEF Ones
<1>8. bits = c \o o
  BY <1>2
<1> HIDE DEF o
<1>9. Extends(bits, c \o o)
  <2>1. Len(bits) \in Nat
    BY <1>6
  <2> QED
    BY <1>6, <1>8, <2>1 DEF Extends
<1>10. Extends(bits, c) /\ At(bits, Len(c) + 1, o) /\ Len(c) \in Nat /\ Len(bits) = Len(c) + m
  <2>1. Extends(bits, c) /\ At(bits, Len(c) + 1, o) /\ Len(c) \in Nat
    BY <1>4, <1>6, <1>9, ExtendsParts
  <2>2. Len(c \o o) = Len(c) + Len(o)
    BY <1>4, <1>6, ConcatAt
  <2> QED
    BY <1>6, <1>8, <2>1, <2>2
<1>11. PICK q : ConcatRun(q, f, Bytes)
  BY <1>4, ConcatRuns
<1> DEFINE u(i) == SubSeq(s, 1, i)
           T == {i \in 0..n : Len(q[i]) \in Nat /\ r[Len(q[i])] = On(u(i), << >>)}
<1>12. u(0) = << >> /\ u(n) = s
  BY WholePrefix DEF n
<1>13. ASSUME NEW i \in 1..n
       PROVE  u(i - 1) \in Seq(Alphabet) /\ u(i) = Append(u(i - 1), s[i])
  BY PrefixStep DEF n
<1> HIDE DEF u
<1>14. 0 \in T
  <2>1. q[0] = << >>
    BY <1>11 DEF ConcatRun
  <2>2. Len(q[0]) = 0 /\ r[0] = Root
    BY <1>3, <2>1 DEF WalkRun
  <2>3. Root = On(u(0), << >>)
    BY <1>12 DEF Root, On
  <2> QED
    BY <1>4, <2>2, <2>3
<1>15. ASSUME NEW i \in 1..n, i - 1 \in T
       PROVE  i \in T
  <2> DEFINE k == Len(q[i - 1])
             a == s[i]
             out == u(i - 1)
  <2>1. k \in Nat /\ r[k] = On(out, << >>)
    BY <1>15
  <2>2. out \in Seq(Alphabet) /\ u(i) = Append(out, a) /\ a \in Alphabet /\ f[i] = HuffmanTable[a]
    BY <1>4, <1>13
  <2>3. At(bits, k + 1, f[i]) /\ Len(f[i]) \in Nat /\ Len(q[i]) = k + Len(f[i])
    <3>1. i \in 1..Len(f) /\ Extends(bits, Concat(f))
      BY <1>4, <1>10
    <3> QED
      BY <1>4, <1>11, <3>1, PartsAt
  <2> HIDE DEF k, a, out
  <2>4. At(bits, k + 1, HuffmanTable[a])
    BY <2>2, <2>3
  <2>5. r[k + Len(HuffmanTable[a])] = On(Append(out, a), << >>)
    BY <1>3, <1>5, <2>1, <2>2, <2>4, WalkWord
  <2>6. r[Len(q[i])] = On(u(i), << >>) /\ Len(q[i]) \in Nat
    BY <2>1, <2>2, <2>3, <2>5
  <2> QED
    BY <1>4, <2>6
<1>16. 0..n \subseteq T
  <2> HIDE DEF T
  <2> QED
    BY <1>4, <1>14, <1>15, UpTo
<1>17. r[Len(c)] = On(s, << >>)
  <2>1. n \in T
    BY <1>4, <1>16
  <2>2. q[n] = c
    BY <1>4, <1>11 DEF ConcatRun
  <2> QED
    BY <1>12, <2>1, <2>2
<1> DEFINE p == SubSeq(Eos, 1, m)
<1>18. Eos \in CodeWords /\ Eos \in Seq(Bit) /\ Len(Eos) \in Nat /\ Len(Eos) > 7
       /\ \A i \in 1..Len(Eos) : Eos[i] = 1
  <2>1. Eos \in CodeWords
    BY DEF CodeWords
  <2> QED
    BY <2>1, WordIs, CodeAssumption
<1>19. m \in 0..(Len(Eos) - 1) /\ m \in 0..Len(Eos) /\ m \in Nat /\ m <= 7
  BY <1>18
<1>20. p \in Seq(Bit) /\ Len(p) = m /\ \A i \in 1..m : p[i] = Eos[i]
  BY <1>18, <1>19, BeginningIs
<1>21. r[Len(c) + m] = On(s, p)
  <2>1. ASSUME NEW k \in 1..m
        PROVE  bits[Len(c) + k] = Eos[k]
    <3>1. k \in 1..Len(Eos) /\ k \in 1..Len(o) /\ (Len(c) + 1) + (k - 1) = Len(c) + k
      BY <1>6, <1>10, <1>18, <1>19
    <3>2. bits[(Len(c) + 1) + (k - 1)] = o[k]
      BY <1>10, <3>1 DEF At
    <3> QED
      BY <1>7, <1>18, <3>1, <3>2
  <2>2. Len(c) + m <= Len(bits)
    BY <1>10, <1>19
  <2> DEFINE x == Len(c)
  <2>3. /\ x \in Nat /\ r[x] = On(s, << >>) /\ x + m <= Len(bits)
        /\ \A k \in 1..m : bits[x + k] = Eos[k]
    BY <1>10, <1>17, <2>1, <2>2
  <2>4. Eos \in CodeWords /\ m \in 0..(Len(Eos) - 1) /\ WalkRun(r, bits) /\ bits \in Seq(Bit)
    BY <1>3, <1>5, <1>18, <1>19
  <2> HIDE DEF p, x
  <2>5. r[x + m] = On(s, SubSeq(Eos, 1, m))
    BY <2>3, <2>4, WalkAlong
  <2> QED
    BY <2>5 DEF p, x
<1> HIDE DEF p
<1>22. GoodPadding(p)
  <2>1. PrefixOfEos(p)
    <3>1. ASSUME NEW i \in 1..Len(p)
          PROVE  p[i] = 1
      <4>1. i \in 1..m /\ i \in 1..Len(Eos)
        BY <1>18, <1>19, <1>20
      <4> QED
        BY <1>18, <1>20, <4>1
    <3> QED
      BY <3>1 DEF PrefixOfEos
  <2>2. AllOnesDepth(p) = m
    BY <1>20, <2>1, AllOnes
  <2> QED
    BY <1>19, <2>1, <2>2 DEF GoodPadding
<1>23. WalkEnds(On(s, p)) = [error |-> "none", out |-> s]
  <2> DEFINE w == On(s, p)
  <2>1. ~w.eos /\ w.path = p /\ w.out = s
    BY <1>20, OnIs
  <2> HIDE DEF w
  <2>2. ~w.eos /\ GoodPadding(w.path)
    BY <1>22, <2>1
  <2>3. WalkEnds(w) = [error |-> "none", out |-> w.out]
    BY <2>2, Zenon DEF WalkEnds
  <2> QED
    BY <2>1, <2>3 DEF w
<1> QED
  BY <1>3, <1>10, <1>21, <1>23 DEF e

-----------------------------------------------------------------------------
(* Strings read back.                                                      *)

\* Wherever b stands, read_string reads data from it.
SpellsAt(buf, pos, b, data) == At(buf, pos, b) => ReadString(buf, pos) = Got(data, pos + Len(b))
Spells(b, data) ==
    /\ b \in Seq(Bytes) /\ Len(b) \in Nat /\ Len(b) >= 1
    /\ \A buf \in Seq(Bytes) : \A pos \in Nat \ {0} : SpellsAt(buf, pos, b, data)

LEMMA SameBytes ==
    ASSUME NEW buf \in Seq(Bytes), NEW pos \in Nat, pos >= 1, NEW s \in Seq(Bytes), At(buf, pos, s)
    PROVE  SubSeq(buf, pos, (pos + Len(s)) - 1) = s /\ (pos + Len(s)) - 1 <= Len(buf)
<1> DEFINE j == (pos + Len(s)) - 1
           t == SubSeq(buf, pos, j)
<1>1. Len(s) \in Nat /\ Len(buf) \in Nat
  BY BytesAre
<1>2. /\ pos + Len(s) <= Len(buf) + 1
      /\ \A i \in 1..Len(s) : buf[pos + (i - 1)] = s[i]
  BY DEF At
<1>3. j \in Nat /\ j <= Len(buf) /\ pos - 1 <= j /\ j - pos + 1 = Len(s)
  BY <1>1, <1>2
<1> HIDE DEF j
<1>4. t \in Seq(Bytes) /\ Len(t) = Len(s) /\ \A k \in 1..Len(s) : t[k] = buf[pos + k - 1]
  BY <1>3, MiddleIs
<1> HIDE DEF t
<1>5. \A k \in 1..Len(s) : t[k] = s[k]
  <2>1. ASSUME NEW k \in 1..Len(s)
        PROVE  t[k] = s[k]
    <3>1. t[k] = buf[pos + k - 1] /\ pos + k - 1 = pos + (k - 1)
      BY <1>1, <1>4
    <3> QED
      BY <1>2, <3>1
  <2> QED
    BY <2>1
<1>6. t = s
  BY <1>4, <1>5, SeqEqual
<1> QED
  BY <1>3, <1>6 DEF t, j

LEMMA LengthNumber ==
    ASSUME NEW l \in Numbers
    PROVE  l \in Nat
<1>1. 2 ^ Width \in Nat
  BY SizesAssumption, Doubling
<1> DEFINE m == 2 ^ Width
<1>2. m \in Nat /\ l \in 0..(m - 1)
  BY <1>1 DEF Numbers
<1> HIDE DEF m
<1> QED
  BY <1>2

\* w, read at pos, is this value behind this pattern.
ReadAs(buf, pos, n, w, value, pattern) ==
    /\ ReadInteger(buf, pos, n) = Got(value, pos + Len(w)) /\ Len(w) \in Nat /\ Len(w) >= 1
    /\ pos \in 1..Len(buf) /\ buf[pos] \in pattern..(pattern + (2 ^ n - 1))

LEMMA IntegerReadAs ==
    ASSUME NEW n, NEW pattern, IsPattern(n, pattern), NEW value \in Numbers, NEW bloat \in Nat,
           IntegerFits(value, n, bloat), NEW buf \in Seq(Bytes), NEW pos \in Nat, pos >= 1,
           At(buf, pos, WriteInteger(value, n, pattern, bloat))
    PROVE  ReadAs(buf, pos, n, WriteInteger(value, n, pattern, bloat), value, pattern)
  BY IntegerBack DEF ReadAs

LEMMA LengthBack ==
    ASSUME NEW pattern \in {0, 128}, NEW value \in Numbers, NEW bloat \in Nat,
           LengthFits(value, bloat), NEW buf \in Seq(Bytes), NEW pos \in Nat, pos >= 1,
           At(buf, pos, WriteInteger(value, 7, pattern, bloat))
    PROVE  ReadAs(buf, pos, 7, WriteInteger(value, 7, pattern, bloat), value, pattern)
<1> DEFINE n == 7
<1>1. IsPattern(n, pattern) /\ 2 ^ n - 1 = 127
  BY DEF IsPattern
<1> HIDE DEF n
<1>2. IntegerFits(value, n, bloat)
  BY <1>1 DEF LengthFits, IntegerFits
<1>3. At(buf, pos, WriteInteger(value, n, pattern, bloat))
  BY DEF n
<1>4. ReadAs(buf, pos, n, WriteInteger(value, n, pattern, bloat), value, pattern)
  BY <1>1, <1>2, <1>3, IntegerReadAs
<1> QED
  BY <1>4 DEF n

\* The bytes of a string, with the flag that says how they are coded.
Carries(encoded, pattern, data) ==
    Contents(encoded, pattern = 128) = [error |-> "none", out |-> data]

LEMMA LiteralString ==
    ASSUME NEW pattern \in {0, 128}, NEW encoded \in Seq(Bytes), NEW bloat \in Nat, NEW data,
           Len(encoded) \in Numbers, LengthFits(Len(encoded), bloat), Carries(encoded, pattern, data)
    PROVE  Spells(WriteInteger(Len(encoded), 7, pattern, bloat) \o encoded, data)
<1> DEFINE l == Len(encoded)
           w == WriteInteger(l, 7, pattern, bloat)
           b == w \o encoded
<1>2. IsPattern(7, pattern)
  BY DEF IsPattern
<1>3. l \in Nat
  OBVIOUS
<1>4. w \in Seq(Bytes)
  BY <1>2, <1>3, IntegerWritten
<1>5. b \in Seq(Bytes) /\ Len(b) = Len(w) + l /\ Len(w) \in Nat
  <2> HIDE DEF w
  <2> QED
    BY <1>4, ConcatAt
<1>6. ASSUME NEW buf \in Seq(Bytes), NEW pos \in Nat, pos >= 1, At(buf, pos, b)
      PROVE  ReadString(buf, pos) = Got(data, pos + Len(b)) /\ Len(w) >= 1
  <2> DEFINE length == ReadInteger(buf, pos, 7)
             c == pos <= Len(buf) /\ buf[pos] >= 128
             end == length.pos + length.v
             at == pos + Len(w)
  <2>1. At(buf, pos, w) /\ At(buf, at, encoded)
    <3> HIDE DEF w
    <3>1. At(buf, pos, w \o encoded)
      BY <1>6
    <3> QED
      BY <1>4, <3>1, AtParts
  <2>2. /\ length = Got(l, at) /\ Len(w) >= 1
        /\ pos \in 1..Len(buf) /\ buf[pos] \in pattern..(pattern + 127)
    <3>1. l \in Numbers /\ LengthFits(l, bloat)
      OBVIOUS
    <3>2. pos >= 1 /\ At(buf, pos, WriteInteger(l, 7, pattern, bloat))
      BY <1>6, <2>1
    <3> HIDE DEF l
    <3>3. ReadAs(buf, pos, 7, WriteInteger(l, 7, pattern, bloat), l, pattern)
      BY <3>1, <3>2, LengthBack
    <3>4. 2 ^ 7 - 1 = 127
      OBVIOUS
    <3> QED
      BY <3>3, <3>4, Zenon DEF ReadAs
  <2>3. c <=> pattern = 128
    <3> DEFINE x == buf[pos]
    <3>1. Len(buf) \in Nat /\ pos \in 1..Len(buf) /\ x \in pattern..(pattern + 127)
      BY <2>2
    <3> HIDE DEF x
    <3>2. CASE pattern = 128
      <4>1. pos <= Len(buf) /\ x >= 128
        BY <3>1, <3>2
      <4> QED
        BY <3>2, <4>1 DEF x
    <3>3. CASE pattern = 0
      <4>1. ~(x >= 128) /\ pattern # 128
        BY <3>1, <3>3
      <4> QED
        BY <4>1 DEF x
    <3> QED
      BY <3>2, <3>3
  <2> HIDE DEF w
  <2>4. at \in Nat /\ at >= 1
    BY <1>5, <1>6
  <2> HIDE DEF at
  <2>5. length.error = "none" /\ length.v = l /\ length.pos = at
    BY <2>2 DEF Got
  <2>6. end = at + l /\ SubSeq(buf, at, (at + l) - 1) = encoded /\ (at + l) - 1 <= Len(buf)
    <3>1. SubSeq(buf, at, (at + l) - 1) = encoded /\ (at + l) - 1 <= Len(buf)
      BY <2>1, <2>4, SameBytes
    <3> QED
      BY <2>5, <3>1
  <2> DEFINE part == SubSeq(buf, length.pos, end - 1)
  <2>7. part = encoded /\ ~(end - 1 > Len(buf))
    <3>1. Len(buf) \in Nat
      OBVIOUS
    <3> HIDE DEF length, end, l
    <3>2. end - 1 = (at + l) - 1
      BY <2>6
    <3>3. part = SubSeq(buf, at, (at + l) - 1)
      BY <2>5, <3>2
    <3>4. end - 1 <= Len(buf) /\ end - 1 \in Int
      BY <1>3, <2>4, <2>6, <3>2
    <3>5. ~(end - 1 > Len(buf))
      BY <3>1, <3>4
    <3> QED
      BY <2>6, <3>3, <3>5
  <2>8. ReadString(buf, pos) = [error |-> Contents(part, c).error, v |-> Contents(part, c).out, pos |-> end]
    <3>1. \/ length.error # "none"
          \/ length.error = "none" /\ end - 1 > Len(buf)
          \/ ReadString(buf, pos) = [error |-> Contents(part, c).error, v |-> Contents(part, c).out, pos |-> end]
      BY <1>6, StringCases, SMTT(40)
    <3> HIDE DEF length, end, part, c
    <3> QED
      BY <2>5, <2>7, <3>1
  <2>9. Contents(part, c) = [error |-> "none", out |-> data]
    <3> HIDE DEF part, c
    <3>1. c = (pattern = 128)
      BY <2>3 DEF c
    <3> QED
      BY <2>7, <3>1, Zenon DEF Carries
  <2>10. end = pos + Len(b)
    BY <1>3, <1>5, <2>6 DEF at
  <2> HIDE DEF part, c, end
  <2>11. ReadString(buf, pos) = [error |-> "none", v |-> data, pos |-> end]
    BY <2>8, <2>9
  <2> QED
    BY <2>2, <2>10, <2>11 DEF Got
<1>7. Len(w) >= 1
  <2>1. At(w, 1, w) /\ 1 \in Nat
    <3> HIDE DEF w
    <3>1. 1 + Len(w) <= Len(w) + 1
      BY <1>5
    <3>2. ASSUME NEW i \in 1..Len(w)
          PROVE  w[1 + (i - 1)] = w[i]
      <4>1. 1 + (i - 1) = i
        BY <1>5
      <4> QED
        BY <4>1
    <3> QED
      BY <1>4, <3>1, <3>2 DEF At
  <2>2. l \in Numbers /\ LengthFits(l, bloat)
    OBVIOUS
  <2> HIDE DEF l
  <2> QED
    BY <1>4, <2>1, <2>2, LengthBack DEF ReadAs
<1> HIDE DEF w, b
<1>8. ASSUME NEW buf \in Seq(Bytes), NEW pos \in Nat \ {0}
      PROVE  SpellsAt(buf, pos, b, data)
  <2>1. pos \in Nat /\ pos >= 1
    OBVIOUS
  <2> QED
    BY <1>6, <2>1 DEF SpellsAt
<1>9. Len(b) \in Nat /\ Len(b) >= 1
  BY <1>3, <1>5, <1>7
<1> QED
  BY <1>5, <1>8, <1>9 DEF Spells, b, w, l

\* The bytes write_string writes behind the length.
WrittenAs(data, choice, bloat, encoded, pattern) ==
    /\ encoded \in Seq(Bytes) /\ Len(encoded) \in Numbers /\ Carries(encoded, pattern, data)
    /\ encoded = Coded(data, choice)
    /\ WriteString(data, choice, bloat) = WriteInteger(Len(encoded), 7, pattern, bloat) \o encoded

LEMMA SmallerNumber ==
    ASSUME NEW n \in Numbers, NEW l \in Nat, l <= n
    PROVE  l \in Numbers
<1>1. 2 ^ Width \in Nat
  BY SizesAssumption, Doubling
<1> DEFINE m == 2 ^ Width
<1>2. m \in Nat /\ n \in 0..(m - 1)
  BY <1>1 DEF Numbers
<1> HIDE DEF m
<1>3. l \in 0..(m - 1)
  BY <1>2
<1> QED
  BY <1>3 DEF m, Numbers

LEMMA StringWritten ==
    ASSUME NEW data, IsString(data), NEW choice, NEW bloat \in Nat
    PROVE  \E pattern \in {0, 128} : WrittenAs(data, choice, bloat, Coded(data, choice), pattern)
<1>1. data \in Seq(Alphabet) /\ 4 * Len(data) \in Numbers /\ Len(data) \in Nat
  BY DEF IsString
<1>2. CASE UsesHuffman(data, choice)
  <2> DEFINE e == HuffmanEncode(data)
  <2>1. WriteString(data, choice, bloat) = WriteInteger(Len(e), 7, 128, bloat) \o e
    BY <1>2 DEF WriteString, StringLiteral
  <2>2. e \in Seq(Bytes) /\ Len(e) = EncodedLen(data)
    BY <1>1, EncodeBits
  <2>3. Len(e) \in Numbers
    <3>1. EncodedLen(data) \in Nat /\ EncodedLen(data) <= 4 * Len(data)
      BY <1>1, EncodedLenBound
    <3> QED
      BY <1>1, <2>2, <3>1, SmallerNumber
  <2>4. Carries(e, 128, data)
    <3>1. HuffmanDecode(e) = [error |-> "none", out |-> data]
      BY <1>1, HuffmanBack
    <3> HIDE DEF e
    <3>2. Contents(e, TRUE) = [error |-> "none", out |-> data]
      BY <3>1, Zenon DEF Contents
    <3>3. (128 = 128) = TRUE
      OBVIOUS
    <3> QED
      BY <3>2, <3>3, Zenon DEF Carries
  <2>5. Coded(data, choice) = e
    BY <1>2 DEF Coded
  <2> HIDE DEF e
  <2>6. WrittenAs(data, choice, bloat, Coded(data, choice), 128)
    BY <2>1, <2>2, <2>3, <2>4, <2>5 DEF WrittenAs
  <2> QED
    BY <2>6
<1>3. CASE ~UsesHuffman(data, choice)
  <2>1. WriteString(data, choice, bloat) = WriteInteger(Len(data), 7, 0, bloat) \o data
    BY <1>3 DEF WriteString, StringLiteral
  <2>2. data \in Seq(Bytes)
    BY <1>1, AlphabetStrings
  <2>3. Len(data) \in Numbers
    <3>1. Len(data) <= 4 * Len(data)
      BY <1>1
    <3> QED
      BY <1>1, <3>1, SmallerNumber
  <2>4. Carries(data, 0, data)
    <3>1. Contents(data, FALSE) = [error |-> "none", out |-> data]
      BY Zenon DEF Contents
    <3>2. (0 = 128) = FALSE
      OBVIOUS
    <3> QED
      BY <3>1, <3>2, Zenon DEF Carries
  <2>5. Coded(data, choice) = data
    BY <1>3 DEF Coded
  <2>6. WrittenAs(data, choice, bloat, Coded(data, choice), 0)
    BY <2>1, <2>2, <2>3, <2>4, <2>5 DEF WrittenAs
  <2> QED
    BY <2>6
<1> QED
  BY <1>2, <1>3

\* What write_string wrote is what read_string reads, if the filler leaves its
\* length alone.
LEMMA StringBack ==
    ASSUME NEW data, IsString(data), NEW choice, NEW bloat \in Nat
    PROVE  /\ WriteString(data, choice, bloat) \in Seq(Bytes)
           /\ LengthFits(Len(Coded(data, choice)), bloat) => Spells(WriteString(data, choice, bloat), data)
<1> DEFINE e == Coded(data, choice)
           s == WriteString(data, choice, bloat)
<1>1. PICK pattern \in {0, 128} : WrittenAs(data, choice, bloat, e, pattern)
  BY StringWritten
<1>2. /\ e \in Seq(Bytes) /\ Len(e) \in Numbers /\ Carries(e, pattern, data)
      /\ s = WriteInteger(Len(e), 7, pattern, bloat) \o e
  BY <1>1 DEF WrittenAs
<1> HIDE DEF e, s
<1>3. s \in Seq(Bytes)
  <2> DEFINE w == WriteInteger(Len(e), 7, pattern, bloat)
  <2>1. IsPattern(7, pattern) /\ Len(e) \in Nat
    BY <1>2 DEF IsPattern
  <2>2. w \in Seq(Bytes)
    BY <2>1, IntegerWritten
  <2> HIDE DEF w
  <2>3. w \o e \in Seq(Bytes)
    BY <1>2, <2>2, ConcatAt
  <2> QED
    BY <1>2, <2>3 DEF w
<1>4. ASSUME LengthFits(Len(e), bloat)
      PROVE  Spells(s, data)
  BY <1>2, <1>4, LiteralString
<1> QED
  BY <1>3, <1>4 DEF e, s

\* Wherever b stands, read_string fails or reads something else.
GarbledAt(buf, pos, b, data) == At(buf, pos, b) => Misread(ReadString(buf, pos), data)
Garbles(b, data) == \A buf \in Seq(Bytes) : \A pos \in Nat \ {0} : GarbledAt(buf, pos, b, data)

\* Huffman-coded or not, only one string of bytes carries the data.
LEMMA OneCarrier ==
    ASSUME NEW pattern \in {0, 128}, NEW data, NEW e \in Seq(Bytes), Carries(e, pattern, data),
           NEW part \in Seq(Bytes), Carries(part, pattern, data)
    PROVE  part = e
<1>1. CASE pattern = 128
  <2>1. ASSUME NEW x \in Seq(Bytes), Carries(x, pattern, data)
        PROVE  HuffmanEncode(data) = x
    <3> DEFINE read == HuffmanDecode(x)
    <3>1. read \in HuffmanResults
          /\ (read.error = "none" => \E m \in 0..7 : InputBits(x) = CodeBits(read.out) \o Ones(m))
      BY HuffmanReads
    <3> HIDE DEF read
    <3>2. read = [error |-> "none", out |-> data]
      <4>1. (pattern = 128) = TRUE
        BY <1>1
      <4>2. Contents(x, TRUE) = read
        BY Zenon DEF Contents, read
      <4>3. Contents(x, pattern = 128) = [error |-> "none", out |-> data]
        BY <2>1 DEF Carries
      <4> QED
        BY <4>1, <4>2, <4>3, Zenon
    <3>3. read.error = "none" /\ read.out = data
      BY <3>2
    <3>4. data \in Seq(Alphabet)
      BY <3>1, <3>3 DEF HuffmanResults
    <3>5. PICK m \in 0..7 : InputBits(x) = CodeBits(data) \o Ones(m)
      BY <3>1, <3>3
    <3> QED
      BY <3>4, <3>5, EncodeGives
  <2>2. HuffmanEncode(data) = e
    BY <2>1
  <2>3. HuffmanEncode(data) = part
    BY <2>1
  <2> QED
    BY <2>2, <2>3
<1>2. CASE pattern = 0
  <2>1. ASSUME NEW x, Carries(x, pattern, data)
        PROVE  x = data
    <3>1. (pattern = 128) = FALSE
      BY <1>2
    <3>2. Contents(x, FALSE) = [error |-> "none", out |-> x]
      BY Zenon DEF Contents
    <3>3. Contents(x, pattern = 128) = [error |-> "none", out |-> data]
      BY <2>1 DEF Carries
    <3>4. [error |-> "none", out |-> x] = [error |-> "none", out |-> data]
      BY <3>1, <3>2, <3>3, Zenon
    <3>5. [error |-> "none", out |-> x].out = x /\ [error |-> "none", out |-> data].out = data
      OBVIOUS
    <3> HIDE DEF Carries
    <3> QED
      BY <3>4, <3>5
  <2> QED
    BY <2>1
<1> QED
  BY <1>1, <1>2

\* A length that was misread leads to other bytes, or past the end.
LEMMA StringMisread ==
    ASSUME NEW pattern \in {0, 128}, NEW encoded \in Seq(Bytes), NEW bloat \in Nat, NEW data,
           Len(encoded) \in Numbers, ~LengthFits(Len(encoded), bloat), Carries(encoded, pattern, data)
    PROVE  Garbles(WriteInteger(Len(encoded), 7, pattern, bloat) \o encoded, data)
<1> DEFINE l == Len(encoded)
           w == WriteInteger(l, 7, pattern, bloat)
           b == w \o encoded
<1>1. ASSUME NEW buf \in Seq(Bytes), NEW pos \in Nat \ {0}, At(buf, pos, b)
      PROVE  Misread(ReadString(buf, pos), data)
  <2> DEFINE length == ReadInteger(buf, pos, 7)
             c == pos <= Len(buf) /\ buf[pos] >= 128
             end == length.pos + length.v
             part == SubSeq(buf, length.pos, end - 1)
             read == ReadString(buf, pos)
  <2>0. pos \in Nat /\ pos >= 1 /\ Len(buf) \in Nat /\ l \in Nat
    BY BytesAre
  <2>1. At(buf, pos, w)
    <3>1. IsPattern(7, pattern)
      BY DEF IsPattern
    <3>2. w \in Seq(Bytes)
      BY <2>0, <3>1, IntegerWritten
    <3> HIDE DEF w
    <3>3. At(buf, pos, w \o encoded)
      BY <1>1
    <3> QED
      BY <2>0, <3>2, <3>3, AtParts
  <2>2. MisreadAt(buf, pos, l, pattern)
    <3>1. l \in Numbers /\ ~LengthFits(l, bloat) /\ At(buf, pos, WriteInteger(l, 7, pattern, bloat))
      BY <2>1
    <3> HIDE DEF l
    <3> QED
      BY <2>0, <3>1, LengthMisread
  <2>3. /\ length.error # "none" \/ length.v # l
        /\ pos \in 1..Len(buf) /\ buf[pos] = pattern + 127
    BY <2>2 DEF MisreadAt, Misread
  <2>4. c = (pattern = 128)
    <3> DEFINE x == buf[pos]
    <3>1. x = pattern + 127 /\ pos <= Len(buf)
      BY <2>0, <2>3
    <3> HIDE DEF x
    <3>2. (x >= 128) <=> (pattern = 128)
      BY <3>1
    <3> QED
      BY <3>1, <3>2 DEF x
  <2>5. /\ \/ length.error # "none" /\ read = length
           \/ length.error = "none" /\ end - 1 > Len(buf)
                /\ read = [error |-> "unexpected_eof", v |-> 0, pos |-> length.pos]
           \/ /\ length.error = "none" /\ end - 1 <= Len(buf)
              /\ length.pos \in (pos + 1)..(Len(buf) + 1) /\ length.v \in Nat /\ pos <= Len(buf)
              /\ read = [error |-> Contents(part, c).error, v |-> Contents(part, c).out, pos |-> end]
    BY <2>0, StringCases, SMTT(40)
  <2> HIDE DEF length, c, read, part
  <2>6. CASE length.error # "none" /\ read = length
    BY <2>6 DEF Misread, read
  <2>7. CASE read = [error |-> "unexpected_eof", v |-> 0, pos |-> length.pos]
    <3>1. read.error # "none"
      BY <2>7
    <3> QED
      BY <3>1 DEF Misread, read
  <2>8. CASE /\ length.error = "none" /\ end - 1 <= Len(buf)
             /\ length.pos \in (pos + 1)..(Len(buf) + 1) /\ length.v \in Nat
             /\ read = [error |-> Contents(part, c).error, v |-> Contents(part, c).out, pos |-> end]
    <3> SUFFICES ASSUME read.error = "none", read.v = data
                 PROVE  FALSE
      BY DEF Misread, read
    <3>1. length.pos \in Nat /\ length.pos >= 1 /\ end - 1 \in Nat /\ end - 1 <= Len(buf)
          /\ length.pos - 1 <= end - 1 /\ (end - 1) - length.pos + 1 = length.v
      BY <2>0, <2>8
    <3>2. part \in Seq(Bytes) /\ Len(part) = length.v
      <4> DEFINE i == length.pos
                 j == end - 1
      <4>1. i \in Nat /\ i >= 1 /\ j \in Nat /\ j <= Len(buf) /\ i - 1 <= j
        BY <3>1
      <4> HIDE DEF i, j
      <4>2. SubSeq(buf, i, j) \in Seq(Bytes) /\ Len(SubSeq(buf, i, j)) = j - i + 1
        BY <4>1, MiddleIs
      <4> QED
        BY <3>1, <4>2 DEF part, i, j
    <3> DEFINE got == Contents(part, c)
    <3>3. got = [error |-> "none", out |-> data]
      <4>1. got.error = "none" /\ got.out = data
        <5> HIDE DEF got, end
        <5> QED
          BY <2>8 DEF got
      <4>2. got = [error |-> got.error, out |-> got.out]
        <5>1. c \in BOOLEAN
          BY <2>4
        <5>2. CASE c
          <6>1. got = HuffmanDecode(part)
            BY <5>2 DEF Contents
          <6>2. HuffmanDecode(part) \in HuffmanResults
            BY <3>2, HuffmanReads
          <6> HIDE DEF got
          <6> QED
            BY <6>1, <6>2 DEF HuffmanResults
        <5>3. CASE ~c
          <6>1. got = [error |-> "none", out |-> part]
            BY <5>3 DEF Contents
          <6> HIDE DEF got
          <6> QED
            BY <6>1
        <5> QED
          BY <5>1, <5>2, <5>3
      <4> HIDE DEF got
      <4> QED
        BY <4>1, <4>2
    <3>4. Carries(part, pattern, data)
      BY <2>4, <3>3, Zenon DEF Carries
    <3>5. part = encoded
      BY <3>2, <3>4, OneCarrier
    <3> QED
      BY <2>3, <2>8, <3>2, <3>5
  <2> QED
    BY <2>5, <2>6, <2>7, <2>8
<1> HIDE DEF b
<1>2. ASSUME NEW buf \in Seq(Bytes), NEW pos \in Nat \ {0}
      PROVE  GarbledAt(buf, pos, b, data)
  BY <1>1 DEF GarbledAt
<1> QED
  BY <1>2 DEF Garbles, b, w, l

\* What write_string wrote is never read back if the filler moves its length.
LEMMA StringGarbled ==
    ASSUME NEW data, IsString(data), NEW choice, NEW bloat \in Nat,
           ~LengthFits(Len(Coded(data, choice)), bloat)
    PROVE  Garbles(WriteString(data, choice, bloat), data)
<1> DEFINE e == Coded(data, choice)
           s == WriteString(data, choice, bloat)
<1>1. PICK pattern \in {0, 128} : WrittenAs(data, choice, bloat, e, pattern)
  BY StringWritten
<1>2. /\ e \in Seq(Bytes) /\ Len(e) \in Numbers /\ Carries(e, pattern, data)
      /\ s = WriteInteger(Len(e), 7, pattern, bloat) \o e
  BY <1>1 DEF WrittenAs
<1>3. ~LengthFits(Len(e), bloat)
  OBVIOUS
<1> HIDE DEF e, s
<1>4. Garbles(s, data)
  BY <1>2, <1>3, StringMisread
<1> QED
  BY <1>4 DEF s

-----------------------------------------------------------------------------
(* A field of a peer, read by a decoder in step with it.                   *)

Peers == [table : Seq(Entries), max : Nat]
Follows(d, p) == p \in Peers /\ Bounded(d) /\ d.table = p.table /\ d.max = p.max

\* The loop came to f: this far, with these headers, in step with p.
Comes(f, block, pos, out, p) ==
    f \in LoopStates(block) /\ f.error = "none" /\ f.pos = pos /\ f.out = out /\ Follows(f.d, p)

\* The headers an operation means.
Meaning(p, o) == IF o.op = "update" THEN << >> ELSE <<PeerField(p, o)>>

LEMMA FollowsIs ==
    ASSUME NEW d, NEW p, Follows(d, p)
    PROVE  /\ p.table \in Seq(Entries) /\ p.max \in Nat /\ p.max <= Announced /\ d \in Decoders
           /\ p = [table |-> p.table, max |-> p.max] /\ d = Having(p.table, p.max)
<1>1. p \in Peers /\ Bounded(d) /\ d.table = p.table /\ d.max = p.max
  BY DEF Follows
<1>2. Kept(d) /\ d.max <= Announced
  BY <1>1 DEF Bounded
<1>3. d = Having(d.table, d.max)
  BY <1>2, KeptIs
<1>4. d \in Decoders
  BY <1>2 DEF Kept
<1>5. p.table \in Seq(Entries) /\ p.max \in Nat /\ p = [table |-> p.table, max |-> p.max]
  BY <1>1 DEF Peers
<1> QED
  BY <1>1, <1>2, <1>3, <1>4, <1>5

LEMMA HavingFollows ==
    ASSUME NEW t \in Seq(Entries), NEW max \in Nat, max <= Announced
    PROVE  Follows(Having(Fitting(t, max), max), [table |-> Fitting(t, max), max |-> max])
<1> DEFINE u == Fitting(t, max)
<1>1. Bounded(Having(u, max)) /\ u \in Seq(Entries)
  BY BoundedIs, FittingTypes
<1> HIDE DEF u
<1>2. Having(u, max).table = u /\ Having(u, max).max = max
  BY <1>1, HavingIs
<1> DEFINE q == [table |-> u, max |-> max]
<1>3. q \in Peers /\ q.table = u /\ q.max = max
  BY <1>1 DEF Peers
<1> HIDE DEF q
<1>4. Follows(Having(u, max), q)
  BY <1>1, <1>2, <1>3 DEF Follows
<1> QED
  BY <1>4 DEF u, q

LEMMA KnownEntry ==
    ASSUME NEW d, NEW p, Follows(d, p), NEW index \in Nat, PeerKnows(p, index)
    PROVE  /\ PeerEntry(p, index) \in Entries /\ index # 0
           /\ Lookup(d, index).error = "none" /\ Lookup(d, index).entry = PeerEntry(p, index)
<1>1. p.table \in Seq(Entries) /\ StaticTable \in Seq(Entries) /\ d.table = p.table
  BY FollowsIs, StaticAssumption DEF Follows
<1>2. Len(StaticTable) \in Nat /\ \A i \in 1..Len(StaticTable) : StaticTable[i] \in Entries
  BY <1>1
<1>3. Len(p.table) \in Nat /\ \A i \in 1..Len(p.table) : p.table[i] \in Entries
  BY <1>1
<1>4. index \in 1..(Len(StaticTable) + Len(p.table))
  BY DEF PeerKnows
<1> DEFINE L == Len(StaticTable)
           M == Len(p.table)
<1>5. CASE index <= L
  <2>1. index \in 1..L /\ index # 0
    BY <1>2, <1>3, <1>4, <1>5
  <2>2. Lookup(d, index) = [error |-> "none", entry |-> StaticTable[index]]
    BY <2>1 DEF Lookup
  <2>3. PeerEntry(p, index) = StaticTable[index]
    BY <1>5 DEF PeerEntry
  <2> QED
    BY <1>2, <2>1, <2>2, <2>3
<1>6. CASE ~(index <= L)
  <2> DEFINE i == index - L
  <2>1. index \notin 1..L /\ i \in 1..M /\ index # 0
    <3> HIDE DEF L, M
    <3>1. L \in Nat /\ M \in Nat /\ index \in 1..(L + M)
      BY <1>2, <1>3, <1>4 DEF L, M
    <3> QED
      BY <1>6, <3>1
  <2>2. Lookup(d, index) = [error |-> "none", entry |-> p.table[i]]
    BY <1>1, <2>1 DEF Lookup
  <2>3. PeerEntry(p, index) = p.table[i]
    BY <1>6 DEF PeerEntry
  <2> HIDE DEF i
  <2>4. p.table[i] \in Entries
    BY <1>3, <2>1
  <2> QED
    BY <2>1, <2>2, <2>3, <2>4
<1> QED
  BY <1>5, <1>6

\* An entry read to pos, the table left alone.
LEMMA AdvancedComes ==
    ASSUME NEW block \in Seq(Bytes), NEW s \in LoopStates(block), s.error = "none", NEW p, Follows(s.d, p),
           NEW pos \in 1..(Len(block) + 1), NEW h \in Entries
    PROVE  Comes(Advanced(s, pos, h), block, pos, s.out \o <<h>>, p)
<1> DEFINE f == Advanced(s, pos, h)
           o == Append(s.out, h)
<1>1. f \in LoopStates(block) /\ f = [d |-> s.d, pos |-> pos, out |-> o, error |-> s.error]
  BY AdvancedIs
<1>2. s.out \in Seq(Entries)
  BY StatesAre
<1>3. o = s.out \o <<h>>
  BY <1>2
<1> HIDE DEF f, o
<1>4. f.d = s.d /\ f.pos = pos /\ f.out = o /\ f.error = "none"
  BY <1>1
<1> QED
  BY <1>1, <1>3, <1>4 DEF Comes, f

\* An entry read to pos, and put into the table.
LEMMA RememberedComes ==
    ASSUME NEW block \in Seq(Bytes), NEW s \in LoopStates(block), s.error = "none", NEW p, Follows(s.d, p),
           NEW pos \in 1..(Len(block) + 1), NEW h \in Entries
    PROVE  Comes(Remembered(Advanced(s, pos, h)), block, pos, s.out \o <<h>>,
                 [table |-> Fitting(<<h>> \o p.table, p.max), max |-> p.max])
<1> DEFINE f == Remembered(Advanced(s, pos, h))
           o == Append(s.out, h)
           t == <<h>> \o p.table
           d == Having(Fitting(t, p.max), p.max)
<1>1. s.d.table = p.table /\ s.d.max = p.max
  BY DEF Follows
<1>2. f \in LoopStates(block) /\ f = [d |-> d, pos |-> pos, out |-> o, error |-> "none"]
  BY <1>1, RememberedIs
<1>3. s.out \in Seq(Entries)
  BY StatesAre
<1>4. o = s.out \o <<h>>
  BY <1>3
<1>5. p.table \in Seq(Entries) /\ p.max \in Nat /\ p.max <= Announced
  BY FollowsIs
<1>6. t \in Seq(Entries)
  BY <1>5, FrontIs
<1>7. Follows(d, [table |-> Fitting(t, p.max), max |-> p.max])
  <2> DEFINE m == p.max
  <2>1. m \in Nat /\ m <= Announced
    BY <1>5
  <2> HIDE DEF m, t
  <2>2. Follows(Having(Fitting(t, m), m), [table |-> Fitting(t, m), max |-> m])
    BY <1>6, <2>1, HavingFollows
  <2> QED
    BY <2>2 DEF m
<1> HIDE DEF f, o, d
<1>8. f.d = d /\ f.pos = pos /\ f.out = o /\ f.error = "none"
  BY <1>2
<1> QED
  BY <1>2, <1>4, <1>7, <1>8 DEF Comes, f

LEMMA NumberBack ==
    ASSUME NEW n, NEW pattern, IsPattern(n, pattern), NEW value \in Numbers,
           NEW buf \in Seq(Bytes), NEW pos \in Nat, pos >= 1,
           At(buf, pos, WriteInteger(value, n, pattern, 0))
    PROVE  ReadAs(buf, pos, n, WriteInteger(value, n, pattern, 0), value, pattern)
<1>1. 0 \in Nat /\ IntegerFits(value, n, 0)
  BY DEF IntegerFits
<1> QED
  BY <1>1, IntegerReadAs

\* The number a round starts with: what is read, where it ends, the first byte.
Starts(s, block, n, w, value, pattern) ==
    /\ ReadInteger(block, s.pos, n) = Got(value, s.pos + Len(w)) /\ Len(w) \in Nat /\ Len(w) >= 1
    /\ s.pos + Len(w) \in 1..(Len(block) + 1) /\ s.pos + Len(w) > s.pos /\ value \in Nat
    /\ block[s.pos] \in pattern..(pattern + (2 ^ n - 1)) /\ ~Over(s, block)

LEMMA StartsWith ==
    ASSUME NEW block \in Seq(Bytes), NEW s \in LoopStates(block), s.error = "none",
           NEW n, NEW pattern, IsPattern(n, pattern), NEW value \in Numbers,
           At(block, s.pos, WriteInteger(value, n, pattern, 0))
    PROVE  Starts(s, block, n, WriteInteger(value, n, pattern, 0), value, pattern)
<1> DEFINE w == WriteInteger(value, n, pattern, 0)
<1>1. s.pos \in Nat /\ s.pos >= 1 /\ Len(block) \in Nat
  BY StatesAre
<1>2. ReadAs(block, s.pos, n, w, value, pattern)
  BY <1>1, NumberBack
<1>3. value \in Nat
  BY LengthNumber
<1>4. At(block, s.pos, w)
  OBVIOUS
<1> HIDE DEF w
<1>5. s.pos + Len(w) <= Len(block) + 1
  BY <1>4 DEF At
<1>6. /\ ReadInteger(block, s.pos, n) = Got(value, s.pos + Len(w)) /\ Len(w) \in Nat /\ Len(w) >= 1
      /\ s.pos \in 1..Len(block) /\ block[s.pos] \in pattern..(pattern + (2 ^ n - 1))
  BY <1>2 DEF ReadAs
<1>7. s.pos + Len(w) \in 1..(Len(block) + 1) /\ s.pos + Len(w) > s.pos
  BY <1>1, <1>5, <1>6
<1>8. ~Over(s, block)
  <2>1. ~(s.pos > Len(block))
    BY <1>1, <1>6
  <2> QED
    BY <2>1 DEF Over
<1> QED
  BY <1>3, <1>6, <1>7, <1>8 DEF Starts, w

LEMMA IndexedBack ==
    ASSUME NEW block \in Seq(Bytes), NEW s \in LoopStates(block), s.error = "none", NEW p, Follows(s.d, p),
           NEW index \in Numbers, PeerKnows(p, index), At(block, s.pos, WriteInteger(index, 7, 128, 0))
    PROVE  /\ ~Over(s, block)
           /\ Comes(Field(s, block), block, s.pos + Len(WriteInteger(index, 7, 128, 0)),
                    s.out \o <<PeerEntry(p, index)>>, p)
<1> DEFINE w == WriteInteger(index, 7, 128, 0)
           read == ReadInteger(block, s.pos, 7)
           end == s.pos + Len(w)
           e == PeerEntry(p, index)
<1>1. IsPattern(7, 128)
  BY DEF IsPattern
<1>2. Starts(s, block, 7, w, index, 128)
  BY <1>1, StartsWith
<1> HIDE DEF w
<1>3. read = Got(index, end) /\ end \in 1..(Len(block) + 1) /\ index \in Nat /\ ~Over(s, block)
  BY <1>2 DEF Starts
<1>4. block[s.pos] >= 128
  <2> DEFINE x == block[s.pos]
  <2>1. x \in 128..(128 + (2 ^ 7 - 1))
    BY <1>2 DEF Starts
  <2> HIDE DEF x
  <2>2. x >= 128
    BY <2>1
  <2> QED
    BY <2>2 DEF x
<1>5. Field(s, block) = Indexed(s, block)
  BY <1>3, <1>4, FieldCases
<1>6. e \in Entries /\ Lookup(s.d, index).error = "none" /\ Lookup(s.d, index).entry = e
  BY <1>3, KnownEntry
<1>7. Indexed(s, block) = Referred(s, read, Lookup(s.d, read.v))
  BY DEF Indexed, ReferredTo
<1> HIDE DEF read, end, e
<1>8. read.error = "none" /\ read.v = index /\ read.pos = end
  BY <1>3 DEF Got
<1> DEFINE looked == Lookup(s.d, index)
<1>9. Indexed(s, block) = Referred(s, read, looked) /\ looked.error = "none" /\ looked.entry = e
  BY <1>6, <1>7, <1>8
<1> HIDE DEF looked
<1>10. Indexed(s, block) = Advanced(s, end, e)
  BY <1>8, <1>9 DEF Referred, Advanced
<1>11. Comes(Advanced(s, end, e), block, end, s.out \o <<e>>, p)
  BY <1>3, <1>6, AdvancedComes
<1> QED
  BY <1>3, <1>5, <1>10, <1>11 DEF end, e, w

LEMMA UpdateBack ==
    ASSUME NEW block \in Seq(Bytes), NEW s \in LoopStates(block), s.error = "none", NEW p, Follows(s.d, p),
           NEW size \in Numbers, size <= p.max, At(block, s.pos, WriteInteger(size, 5, 32, 0))
    PROVE  /\ ~Over(s, block)
           /\ Comes(Field(s, block), block, s.pos + Len(WriteInteger(size, 5, 32, 0)),
                    s.out, [table |-> Fitting(p.table, size), max |-> size])
<1> DEFINE w == WriteInteger(size, 5, 32, 0)
           read == ReadInteger(block, s.pos, 5)
           end == s.pos + Len(w)
           d == Having(Fitting(p.table, size), size)
<1>1. IsPattern(5, 32)
  BY DEF IsPattern
<1>2. Starts(s, block, 5, w, size, 32)
  BY <1>1, StartsWith
<1> HIDE DEF w
<1>3. read = Got(size, end) /\ end \in 1..(Len(block) + 1) /\ size \in Nat /\ ~Over(s, block)
  BY <1>2 DEF Starts
<1>4. block[s.pos] \in 32..63
  <2> DEFINE x == block[s.pos]
  <2>1. x \in 32..(32 + (2 ^ 5 - 1))
    BY <1>2 DEF Starts
  <2> HIDE DEF x
  <2>2. x \in 32..63
    BY <2>1
  <2> QED
    BY <2>2 DEF x
<1>5. Field(s, block) = SizeUpdate(s, block)
  BY <1>3, <1>4, FieldCases
<1>6. SizeUpdate(s, block) = Resized(s, read)
  BY DEF SizeUpdate
<1>7. p.table \in Seq(Entries) /\ p.max \in Nat /\ p.max <= Announced /\ s.d.table = p.table /\ s.d.max = p.max
  BY FollowsIs DEF Follows
<1> HIDE DEF read, end
<1>8. read.error = "none" /\ read.v = size /\ read.pos = end
  BY <1>3 DEF Got
<1> DEFINE f == Resized(s, read)
<1>9. f = [d |-> d, pos |-> end, out |-> s.out, error |-> "none"] /\ f \in LoopStates(block)
  <2>1. read.v \in Nat /\ read.v <= s.d.max /\ read.pos \in 1..(Len(block) + 1)
    BY <1>3, <1>7, <1>8
  <2>2. /\ f = [d |-> Having(Fitting(s.d.table, read.v), read.v), pos |-> read.pos,
                out |-> s.out, error |-> "none"]
        /\ f \in LoopStates(block)
    BY <1>8, <2>1, UpdateIs
  <2> QED
    BY <1>7, <1>8, <2>2
<1>10. Follows(d, [table |-> Fitting(p.table, size), max |-> size])
  <2>1. size <= Announced
    <3> DEFINE m == p.max
    <3>1. m \in Nat /\ m <= Announced /\ size <= m /\ Announced \in Nat
      BY <1>7, SizesAssumption
    <3> HIDE DEF m
    <3> QED
      BY <1>3, <3>1
  <2> QED
    BY <1>3, <1>7, <2>1, HavingFollows
<1> HIDE DEF f, d
<1>11. f.d = d /\ f.pos = end /\ f.out = s.out /\ f.error = "none"
  BY <1>9
<1>12. Comes(f, block, end, s.out, [table |-> Fitting(p.table, size), max |-> size])
  BY <1>9, <1>10, <1>11 DEF Comes
<1> QED
  BY <1>3, <1>5, <1>6, <1>12 DEF end, f, w

\* The bytes of a literal: the index, the name if there is no index, the value.
LiteralBytes(b, n, pattern, index, name, value) ==
    \E nb \in Seq(Bytes), vb \in Seq(Bytes) :
        /\ b = (WriteInteger(index, n, pattern, 0) \o nb) \o vb
        /\ Spells(vb, value)
        /\ index = 0 => Spells(nb, name)
        /\ index # 0 => nb = << >>

LEMMA SpellsThere ==
    ASSUME NEW b, NEW data, Spells(b, data), NEW buf \in Seq(Bytes), NEW pos \in Nat, pos >= 1, At(buf, pos, b)
    PROVE  ReadString(buf, pos) = Got(data, pos + Len(b))
<1>1. pos \in Nat \ {0}
  OBVIOUS
<1>2. SpellsAt(buf, pos, b, data)
  BY <1>1 DEF Spells
<1> QED
  BY <1>2 DEF SpellsAt

\* The header a literal means.
LiteralEntry(p, index, name, value) ==
    [name |-> IF index = 0 THEN name ELSE PeerEntry(p, index).name, value |-> value]

LiteralRead(s, block, n, pattern, b, e) ==
    /\ Literal(s, block, n) = Advanced(s, s.pos + Len(b), e) /\ e \in Entries
    /\ s.pos + Len(b) \in 1..(Len(block) + 1) /\ b \in Seq(Bytes) /\ Len(b) \in Nat /\ Len(b) >= 1
    /\ block[s.pos] \in pattern..(pattern + (2 ^ n - 1)) /\ ~Over(s, block)

LEMMA LiteralBack ==
    ASSUME NEW block \in Seq(Bytes), NEW s \in LoopStates(block), s.error = "none", NEW p, Follows(s.d, p),
           NEW n, NEW pattern, IsPattern(n, pattern), NEW index \in Numbers, index = 0 \/ PeerKnows(p, index),
           NEW name \in Seq(Bytes), NEW value \in Seq(Bytes), NEW b,
           LiteralBytes(b, n, pattern, index, name, value), At(block, s.pos, b)
    PROVE  LiteralRead(s, block, n, pattern, b, LiteralEntry(p, index, name, value))
<1> DEFINE w == WriteInteger(index, n, pattern, 0)
           e == LiteralEntry(p, index, name, value)
<1>1. PICK nb \in Seq(Bytes), vb \in Seq(Bytes) :
         /\ b = (w \o nb) \o vb
         /\ Spells(vb, value)
         /\ index = 0 => Spells(nb, name)
         /\ index # 0 => nb = << >>
  BY DEF LiteralBytes
<1>2. s.pos \in Nat /\ s.pos >= 1 /\ Len(block) \in Nat
  BY StatesAre
<1>3. w \in Seq(Bytes) /\ index \in Nat
  BY LengthNumber, IntegerWritten
<1>4. At(block, s.pos, w \o nb) /\ At(block, s.pos + Len(w \o nb), vb) /\ w \o nb \in Seq(Bytes)
      /\ Len(w \o nb) = Len(w) + Len(nb) /\ Len(w) \in Nat /\ Len(nb) \in Nat
      /\ Len(b) = Len(w \o nb) + Len(vb) /\ Len(vb) \in Nat /\ b \in Seq(Bytes)
  <2> HIDE DEF w
  <2>1. w \o nb \in Seq(Bytes) /\ Len(w \o nb) = Len(w) + Len(nb) /\ Len(w) \in Nat /\ Len(nb) \in Nat
    BY <1>3, ConcatAt
  <2> DEFINE a == w \o nb
  <2>2. a \in Seq(Bytes) /\ At(block, s.pos, a \o vb) /\ b = a \o vb
    BY <1>1, <2>1
  <2> HIDE DEF a
  <2>3. At(block, s.pos, a) /\ At(block, s.pos + Len(a), vb) /\ Len(a \o vb) = Len(a) + Len(vb)
    BY <1>2, <2>2, AtParts
  <2>4. a \o vb \in Seq(Bytes) /\ Len(vb) \in Nat
    BY <2>2, ConcatAt
  <2> QED
    BY <2>1, <2>2, <2>3, <2>4 DEF a
<1>5. At(block, s.pos, w) /\ At(block, s.pos + Len(w), nb)
  <2>1. At(block, s.pos, w \o nb)
    BY <1>4
  <2> HIDE DEF w
  <2> QED
    BY <1>2, <1>3, <2>1, AtParts
<1>6. Starts(s, block, n, w, index, pattern)
  BY <1>5, StartsWith
<1> DEFINE read == ReadInteger(block, s.pos, n)
           at == s.pos + Len(w)
           vat == s.pos + Len(w \o nb)
           end == s.pos + Len(b)
           nm == NameOfLiteral(s, block, read)
           known == PeerEntry(p, index)
           got == IF index = 0 THEN name ELSE known.name
<1> HIDE DEF w
<1>7. /\ read = Got(index, at) /\ at \in 1..(Len(block) + 1) /\ ~Over(s, block) /\ at \in Nat /\ at >= 1
      /\ block[s.pos] \in pattern..(pattern + (2 ^ n - 1)) /\ Len(w) >= 1
  BY <1>2, <1>4, <1>6, SMTT(40) DEF Starts
<1>8. vat = at + Len(nb) /\ vat \in Nat /\ vat >= 1 /\ end = vat + Len(vb)
  BY <1>2, <1>4
<1>9. end \in 1..(Len(block) + 1) /\ Len(b) \in Nat /\ Len(b) >= 1
  <2>1. s.pos + Len(b) <= Len(block) + 1
    BY DEF At
  <2>2. Len(b) \in Nat /\ Len(b) >= 1
    BY <1>4, <1>7
  <2> QED
    BY <1>2, <2>1, <2>2
<1> HIDE DEF read, at, vat, end
<1>10. read.error = "none" /\ read.v = index /\ read.pos = at
  BY <1>7 DEF Got
<1>11. nm.error = "none" /\ nm.v = got /\ nm.pos = vat /\ got \in Seq(Bytes)
  <2>1. CASE index = 0
    <3>1. nm = ReadString(block, at)
      BY <1>10, <2>1 DEF NameOfLiteral
    <3>2. Spells(nb, name) /\ At(block, at, nb)
      BY <1>1, <1>5, <2>1 DEF at
    <3>3. ReadString(block, at) = Got(name, at + Len(nb))
      BY <1>7, <3>2, SpellsThere
    <3>4. nm = [error |-> "none", v |-> name, pos |-> vat]
      BY <1>8, <3>1, <3>3 DEF Got
    <3> HIDE DEF nm
    <3> QED
      BY <2>1, <3>4
  <2>2. CASE index # 0
    <3> DEFINE looked == Lookup(s.d, index)
    <3>1. known \in Entries /\ looked.error = "none" /\ looked.entry = known
      BY <1>3, <2>2, KnownEntry
    <3>2. nm = NameAt(looked, at)
      BY <1>10, <2>2 DEF NameOfLiteral
    <3>3. vat = at
      <4>1. nb = << >>
        BY <1>1, <2>2
      <4>2. Len(nb) = 0
        BY <4>1
      <4> QED
        BY <1>7, <1>8, <4>2
    <3> HIDE DEF looked, nm, known
    <3>4. nm = [error |-> "none", v |-> known.name, pos |-> at]
      BY <3>1, <3>2 DEF NameAt
    <3>5. known.name \in Seq(Bytes)
      BY <3>1 DEF Entries
    <3> QED
      BY <2>2, <3>3, <3>4, <3>5
  <2> QED
    BY <2>1, <2>2
<1>12. e = [name |-> got, value |-> value] /\ e \in Entries
  <2>1. e = [name |-> got, value |-> value]
    BY DEF LiteralEntry
  <2> HIDE DEF e, got
  <2> QED
    BY <1>11, <2>1 DEF Entries
<1>13. Literal(s, block, n) = WithIndex(s, block, read)
  BY DEF Literal, read
<1>14. WithIndex(s, block, read) = WithName(s, block, nm)
  BY <1>10 DEF WithIndex, NameOfLiteral
<1> HIDE DEF nm, got, e
<1> DEFINE val == ReadString(block, vat)
<1>15. WithName(s, block, nm) = WithValue(s, nm, val)
  BY <1>11 DEF WithName
<1>16. val = Got(value, end)
  <2>1. At(block, vat, vb)
    BY <1>4 DEF vat
  <2> QED
    BY <1>1, <1>8, <2>1, SpellsThere
<1> HIDE DEF val
<1>17. val.error = "none" /\ val.v = value /\ val.pos = end
  BY <1>16 DEF Got
<1>18. WithValue(s, nm, val) = Advanced(s, end, e)
  BY <1>11, <1>12, <1>17 DEF WithValue, Advanced
<1> QED
  BY <1>4, <1>7, <1>9, <1>12, <1>13, <1>14, <1>15, <1>18 DEF LiteralRead, e, end

\* The bytes of an operation.
Represents(b, o) ==
    \/ o.op = "indexed" /\ b = WriteInteger(o.index, 7, 128, 0)
    \/ o.op = "update" /\ b = WriteInteger(o.size, 5, 32, 0)
    \/ /\ o.op \in {"with", "without", "never"}
       /\ LiteralBytes(b, Prefix(o.op).bits, Prefix(o.op).pattern, o.index, o.name, o.value)

LEMMA PrefixIs ==
    /\ Prefix("with").bits = 6 /\ Prefix("with").pattern = 64
    /\ Prefix("without").bits = 4 /\ Prefix("without").pattern = 0
    /\ Prefix("never").bits = 4 /\ Prefix("never").pattern = 16
<1>1. Prefix("with") = [pattern |-> 64, bits |-> 6]
  BY DEF Prefix
<1>2. Prefix("without") = [pattern |-> 0, bits |-> 4]
  BY DEF Prefix
<1>3. Prefix("never") = [pattern |-> 16, bits |-> 4]
  BY DEF Prefix
<1> QED
  BY <1>1, <1>2, <1>3

LEMMA StringBytes ==
    ASSUME NEW s, IsString(s)
    PROVE  s \in Seq(Bytes)
  BY AlphabetStrings DEF IsString

\* The end of a round that read operation o from b.
RoundBack(s, block, b, p, o) ==
    /\ ~Over(s, block)
    /\ Comes(Field(s, block), block, s.pos + Len(b), s.out \o Meaning(p, o), PeerAfter(p, o))

LEMMA IndexedField ==
    ASSUME NEW block \in Seq(Bytes), NEW s \in LoopStates(block), s.error = "none", NEW p, Follows(s.d, p),
           NEW o, IsOperation(o), PeerMay(p, o), o.op = "indexed", NEW b, Represents(b, o), At(block, s.pos, b)
    PROVE  RoundBack(s, block, b, p, o)
<1>1. o.index \in Numbers /\ PeerKnows(p, o.index)
  BY DEF IsOperation, PeerMay
<1>2. b = WriteInteger(o.index, 7, 128, 0)
  BY DEF Represents
<1>3. PeerAfter(p, o) = p
  BY DEF PeerAfter
<1>4. PeerField(p, o) = PeerEntry(p, o.index)
  <2> DEFINE e == PeerEntry(p, o.index)
  <2>1. o.index \in Nat
    BY <1>1, LengthNumber
  <2>2. e \in Entries /\ o.index # 0
    BY <1>1, <2>1, KnownEntry
  <2>3. PeerField(p, o) = [name |-> e.name, value |-> e.value]
    BY <2>2 DEF PeerField
  <2> HIDE DEF e
  <2>4. e = [name |-> e.name, value |-> e.value]
    BY <2>2 DEF Entries
  <2> QED
    BY <2>3, <2>4 DEF e
<1>5. Meaning(p, o) = <<PeerEntry(p, o.index)>>
  BY <1>4 DEF Meaning
<1> DEFINE i == o.index
<1>6. i \in Numbers /\ PeerKnows(p, i) /\ At(block, s.pos, WriteInteger(i, 7, 128, 0))
  BY <1>1, <1>2
<1> HIDE DEF i
<1>7. /\ ~Over(s, block)
      /\ Comes(Field(s, block), block, s.pos + Len(WriteInteger(i, 7, 128, 0)),
               s.out \o <<PeerEntry(p, i)>>, p)
  BY <1>6, IndexedBack
<1> QED
  BY <1>2, <1>3, <1>5, <1>7 DEF RoundBack, i

LEMMA UpdateField ==
    ASSUME NEW block \in Seq(Bytes), NEW s \in LoopStates(block), s.error = "none", NEW p, Follows(s.d, p),
           NEW o, IsOperation(o), ~Raises(p, o), o.op = "update", NEW b, Represents(b, o), At(block, s.pos, b)
    PROVE  RoundBack(s, block, b, p, o)
<1>1. o.size \in Numbers /\ o.size <= p.max
  <2> DEFINE z == o.size
             m == p.max
  <2>1. z \in Numbers /\ ~(z > m)
    BY DEF IsOperation, Raises
  <2>2. z \in Nat /\ m \in Nat
    BY <2>1, LengthNumber, FollowsIs
  <2> HIDE DEF z, m
  <2>3. z <= m
    BY <2>1, <2>2
  <2> QED
    BY <2>1, <2>3 DEF z, m
<1>2. b = WriteInteger(o.size, 5, 32, 0)
  BY DEF Represents
<1>3. PeerAfter(p, o) = [table |-> Fitting(p.table, o.size), max |-> o.size]
  BY DEF PeerAfter
<1>4. s.out \o Meaning(p, o) = s.out
  <2>1. Meaning(p, o) = << >> /\ s.out \in Seq(Entries)
    BY StatesAre DEF Meaning
  <2> QED
    BY <2>1
<1> DEFINE z == o.size
<1>5. z \in Numbers /\ z <= p.max /\ At(block, s.pos, WriteInteger(z, 5, 32, 0))
  BY <1>1, <1>2
<1> HIDE DEF z
<1>6. /\ ~Over(s, block)
      /\ Comes(Field(s, block), block, s.pos + Len(WriteInteger(z, 5, 32, 0)),
               s.out, [table |-> Fitting(p.table, z), max |-> z])
  BY <1>5, UpdateBack
<1> QED
  BY <1>2, <1>3, <1>4, <1>6 DEF RoundBack, z

LEMMA LiteralField ==
    ASSUME NEW block \in Seq(Bytes), NEW s \in LoopStates(block), s.error = "none", NEW p, Follows(s.d, p),
           NEW o, IsOperation(o), PeerMay(p, o), o.op \in {"with", "without", "never"}, NEW b,
           Represents(b, o), At(block, s.pos, b)
    PROVE  RoundBack(s, block, b, p, o)
<1> DEFINE n == Prefix(o.op).bits
           pattern == Prefix(o.op).pattern
           i == o.index
           nm == o.name
           val == o.value
           e == LiteralEntry(p, i, nm, val)
           end == s.pos + Len(b)
<1>1. i \in Numbers /\ IsString(nm) /\ IsString(val)
  BY DEF IsOperation
<1>2. nm \in Seq(Bytes) /\ val \in Seq(Bytes)
  BY <1>1, StringBytes
<1>3. i = 0 \/ PeerKnows(p, i)
  BY DEF PeerMay
<1>4. LiteralBytes(b, n, pattern, i, nm, val)
  BY DEF Represents
<1>5. PeerField(p, o) = e /\ Meaning(p, o) = <<e>>
  <2>1. PeerField(p, o) = e
    BY DEF PeerField, LiteralEntry
  <2> HIDE DEF e
  <2> QED
    BY <2>1 DEF Meaning
<1>6. IsPattern(n, pattern) /\ (o.op = "with" => n = 6 /\ pattern = 64)
      /\ (o.op # "with" => n = 4 /\ pattern \in {0, 16})
  <2>1. CASE o.op = "with"
    BY <2>1, PrefixIs DEF IsPattern
  <2>2. CASE o.op = "without"
    BY <2>2, PrefixIs DEF IsPattern
  <2>3. CASE o.op = "never"
    BY <2>3, PrefixIs DEF IsPattern
  <2> QED
    BY <2>1, <2>2, <2>3
<1> HIDE DEF n, pattern, i, nm, val
<1>7. /\ Literal(s, block, n) = Advanced(s, end, e) /\ e \in Entries
      /\ end \in 1..(Len(block) + 1) /\ ~Over(s, block)
      /\ block[s.pos] \in pattern..(pattern + (2 ^ n - 1))
  <2>1. LiteralRead(s, block, n, pattern, b, LiteralEntry(p, i, nm, val))
    BY <1>1, <1>2, <1>3, <1>4, <1>6, LiteralBack
  <2> QED
    BY <2>1 DEF LiteralRead
<1> DEFINE x == block[s.pos]
<1> HIDE DEF e, end
<1>8. CASE o.op = "with"
  <2>1. n = 6 /\ pattern = 64
    BY <1>6, <1>8
  <2>2. x \in 64..127
    <3>1. x \in 64..(64 + (2 ^ 6 - 1))
      BY <1>7, <2>1
    <3> HIDE DEF x
    <3> QED
      BY <3>1
  <2>3. Field(s, block) = Remembered(Literal(s, block, 6))
    BY <1>7, <2>2, FieldCases
  <2>4. Field(s, block) = Remembered(Advanced(s, end, e))
    BY <1>7, <2>1, <2>3
  <2>5. Comes(Remembered(Advanced(s, end, e)), block, end, s.out \o <<e>>,
              [table |-> Fitting(<<e>> \o p.table, p.max), max |-> p.max])
    BY <1>7, RememberedComes
  <2>6. PeerAfter(p, o) = [table |-> Fitting(<<e>> \o p.table, p.max), max |-> p.max]
    <3>1. PeerAfter(p, o) = [p EXCEPT !.table = Fitting(<<PeerField(p, o)>> \o @, p.max)]
      BY <1>8 DEF PeerAfter
    <3>2. p = [table |-> p.table, max |-> p.max]
      BY FollowsIs
    <3> DEFINE t == Fitting(<<e>> \o p.table, p.max)
    <3>3. PeerAfter(p, o) = [p EXCEPT !.table = t]
      BY <1>5, <3>1
    <3> HIDE DEF t
    <3>4. [p EXCEPT !.table = t] = [table |-> t, max |-> p.max]
      BY <3>2
    <3> QED
      BY <3>3, <3>4 DEF t
  <2> QED
    BY <1>5, <1>7, <2>4, <2>5, <2>6 DEF RoundBack, end
<1>9. CASE o.op # "with"
  <2>1. n = 4 /\ pattern \in {0, 16}
    BY <1>6, <1>9
  <2>2. x < 32 /\ 2 ^ 4 - 1 = 15
    <3>1. 2 ^ 4 - 1 = 15
      OBVIOUS
    <3>2. x \in pattern..(pattern + 15)
      BY <1>7, <2>1, <3>1
    <3> HIDE DEF x
    <3> QED
      BY <2>1, <3>1, <3>2
  <2>3. Field(s, block) = Literal(s, block, 4)
    BY <1>7, <2>2, FieldCases
  <2>4. Field(s, block) = Advanced(s, end, e)
    BY <1>7, <2>1, <2>3
  <2>5. Comes(Advanced(s, end, e), block, end, s.out \o <<e>>, p)
    BY <1>7, AdvancedComes
  <2>6. PeerAfter(p, o) = p
    BY <1>9 DEF PeerAfter
  <2> QED
    BY <1>5, <1>7, <2>4, <2>5, <2>6 DEF RoundBack, end
<1> QED
  BY <1>8, <1>9

LEMMA FieldBack ==
    ASSUME NEW block \in Seq(Bytes), NEW s \in LoopStates(block), s.error = "none", NEW p, Follows(s.d, p),
           NEW o, IsOperation(o), PeerMay(p, o), ~Raises(p, o), NEW b, Represents(b, o), At(block, s.pos, b)
    PROVE  RoundBack(s, block, b, p, o)
<1>1. o.op = "indexed" \/ o.op = "update" \/ o.op \in {"with", "without", "never"}
  BY DEF IsOperation
<1> QED
  BY <1>1, IndexedField, UpdateField, LiteralField

\* The round that meets a size above the last one refuses it.
LEMMA RaiseRefused ==
    ASSUME NEW block \in Seq(Bytes), NEW s \in LoopStates(block), s.error = "none", NEW p, Follows(s.d, p),
           NEW o, IsOperation(o), Raises(p, o), NEW b, Represents(b, o), At(block, s.pos, b)
    PROVE  ~Over(s, block) /\ Field(s, block).error = "table_size_too_large"
<1> DEFINE z == o.size
           w == WriteInteger(z, 5, 32, 0)
           read == ReadInteger(block, s.pos, 5)
           m == p.max
<1>1. o.op = "update" /\ z \in Numbers /\ z > m /\ b = w
  BY DEF IsOperation, Raises, Represents
<1>2. IsPattern(5, 32)
  BY DEF IsPattern
<1> HIDE DEF z
<1>3. Starts(s, block, 5, w, z, 32)
  BY <1>1, <1>2, StartsWith
<1> HIDE DEF w
<1>4. read = Got(z, s.pos + Len(w)) /\ ~Over(s, block)
  BY <1>3 DEF Starts
<1>5. block[s.pos] \in 32..63
  <2> DEFINE x == block[s.pos]
  <2>1. x \in 32..(32 + (2 ^ 5 - 1))
    BY <1>3 DEF Starts
  <2> HIDE DEF x
  <2>2. x \in 32..63
    BY <2>1
  <2> QED
    BY <2>2 DEF x
<1>6. Field(s, block) = Resized(s, read)
  BY <1>4, <1>5, FieldCases DEF SizeUpdate
<1> HIDE DEF read
<1>7. read.error = "none" /\ read.v = z
  BY <1>4 DEF Got
<1>8. read.v > s.d.max
  <2>1. s.d.max = m
    BY DEF Follows
  <2> QED
    BY <1>1, <1>7, <2>1
<1>9. Resized(s, read) = Failed(s, "table_size_too_large")
  BY <1>7, <1>8 DEF Resized
<1>10. Failed(s, "table_size_too_large").error = "table_size_too_large"
  BY StatesAre DEF Failed
<1> QED
  BY <1>4, <1>6, <1>9, <1>10

-----------------------------------------------------------------------------
(* The peer through a block.                                               *)

PeerIs(p) == Follows(Having(p.table, p.max), p)

LEMMA FollowedIs ==
    ASSUME NEW d, NEW p, Follows(d, p)
    PROVE  PeerIs(p)
<1>1. d = Having(p.table, p.max)
  BY FollowsIs
<1> QED
  BY <1>1 DEF PeerIs

LEMMA FieldTypes ==
    ASSUME NEW p, PeerIs(p), NEW o, IsOperation(o), PeerMay(p, o), o.op # "update"
    PROVE  PeerField(p, o) \in Entries
<1> DEFINE d == Having(p.table, p.max)
           i == o.index
<1>1. Follows(d, p)
  BY DEF PeerIs
<1> HIDE DEF d
<1>2. CASE o.op = "indexed"
  <2>1. i \in Numbers /\ PeerKnows(p, i)
    BY <1>2 DEF IsOperation, PeerMay
  <2> DEFINE e == PeerEntry(p, i)
  <2>2. i \in Nat
    BY <2>1, LengthNumber
  <2> HIDE DEF i
  <2>3. e \in Entries /\ i # 0
    BY <1>1, <2>1, <2>2, KnownEntry
  <2>4. PeerField(p, o) = [name |-> e.name, value |-> e.value]
    BY <1>2, <2>3 DEF PeerField, i
  <2> HIDE DEF e
  <2> QED
    BY <2>3, <2>4 DEF Entries
<1>3. CASE o.op # "indexed"
  <2>1. i \in Numbers /\ IsString(o.name) /\ IsString(o.value) /\ (i = 0 \/ PeerKnows(p, i))
    BY <1>3 DEF IsOperation, PeerMay
  <2>2. o.name \in Seq(Bytes) /\ o.value \in Seq(Bytes) /\ i \in Nat
    BY <2>1, StringBytes, LengthNumber
  <2> DEFINE e == PeerEntry(p, i)
             nm == IF i = 0 THEN o.name ELSE e.name
  <2>3. PeerField(p, o) = [name |-> nm, value |-> o.value]
    BY <1>3 DEF PeerField
  <2> HIDE DEF i
  <2>4. nm \in Seq(Bytes)
    <3>1. CASE i = 0
      BY <2>2, <3>1
    <3>2. CASE i # 0
      <4>1. e \in Entries
        BY <1>1, <2>1, <2>2, <3>2, KnownEntry
      <4> HIDE DEF e
      <4> QED
        BY <3>2, <4>1 DEF Entries
    <3> QED
      BY <3>1, <3>2
  <2> HIDE DEF nm
  <2> QED
    BY <2>2, <2>3, <2>4 DEF Entries
<1> QED
  BY <1>2, <1>3

LEMMA MeaningTypes ==
    ASSUME NEW p, PeerIs(p), NEW o, IsOperation(o), PeerMay(p, o)
    PROVE  Meaning(p, o) \in Seq(Entries)
<1>1. CASE o.op = "update"
  BY <1>1 DEF Meaning
<1>2. CASE o.op # "update"
  <2> DEFINE e == PeerField(p, o)
  <2>1. e \in Entries
    BY <1>2, FieldTypes
  <2> HIDE DEF e
  <2>2. <<e>> \in Seq(Entries)
    BY <2>1
  <2> QED
    BY <1>2, <2>2 DEF Meaning, e
<1> QED
  BY <1>1, <1>2

\* The peer keeps a table within its limit.
LEMMA PeerKeeps ==
    ASSUME NEW p, PeerIs(p), NEW o, IsOperation(o), PeerMay(p, o)
    PROVE  PeerIs(PeerAfter(p, o))
<1> DEFINE d == Having(p.table, p.max)
<1>1. Follows(d, p)
  BY DEF PeerIs
<1> HIDE DEF d
<1>2. /\ p.table \in Seq(Entries) /\ p.max \in Nat /\ p.max <= Announced
      /\ p = [table |-> p.table, max |-> p.max]
  BY <1>1, FollowsIs
<1>3. CASE o.op = "update"
  <2> DEFINE z == o.size
  <2>1. PeerAfter(p, o) = [table |-> Fitting(p.table, z), max |-> z]
    BY <1>3 DEF PeerAfter
  <2>2. z \in Numbers /\ z <= Announced
    BY <1>3 DEF IsOperation, PeerMay
  <2>3. z \in Nat
    BY <2>2, LengthNumber
  <2> HIDE DEF z
  <2>4. z <= Announced
    BY <2>2
  <2>5. Follows(Having(Fitting(p.table, z), z), [table |-> Fitting(p.table, z), max |-> z])
    BY <1>2, <2>3, <2>4, HavingFollows
  <2> QED
    BY <2>1, <2>5, FollowedIs
<1>4. CASE o.op = "with"
  <2> DEFINE e == PeerField(p, o)
             u == <<e>> \o p.table
             m == p.max
             t == Fitting(u, m)
  <2>1. e \in Entries
    BY <1>4, FieldTypes
  <2>2. u \in Seq(Entries) /\ m \in Nat /\ m <= Announced
    <3> HIDE DEF e
    <3> QED
      BY <1>2, <2>1, FrontIs
  <2>3. PeerAfter(p, o) = [p EXCEPT !.table = t]
    BY <1>4 DEF PeerAfter
  <2> HIDE DEF u, m
  <2>4. Follows(Having(t, m), [table |-> t, max |-> m])
    BY <2>2, HavingFollows
  <2> HIDE DEF t
  <2>5. [p EXCEPT !.table = t] = [table |-> t, max |-> m]
    BY <1>2 DEF m
  <2> QED
    BY <2>3, <2>4, <2>5, FollowedIs
<1>5. CASE o.op # "update" /\ o.op # "with"
  BY <1>5 DEF PeerAfter
<1> QED
  BY <1>3, <1>4, <1>5

\* PeerThrough as one run over the block.
IsThrough(s, ops, n) == s = [k \in 0..n |-> IF k = 0 THEN peer ELSE PeerAfter(s[k - 1], ops[k])]
PeerRun(P, ops, n) ==
    /\ P[0] = peer /\ \A i \in 1..n : P[i] = PeerAfter(P[i - 1], ops[i])
    /\ \A i \in 0..n : PeerThrough(ops, i) = P[i]

LEMMA ThroughExists ==
    ASSUME NEW ops, NEW n \in Nat
    PROVE  \E s : IsThrough(s, ops, n)
<1> DEFINE T == {i \in 0..n : \E s : IsThrough(s, ops, i)}
<1>1. 0 \in T
  <2> DEFINE s == [k \in 0..0 |-> peer]
  <2>1. s = [k \in 0..0 |-> IF k = 0 THEN peer ELSE PeerAfter(s[k - 1], ops[k])]
    OBVIOUS
  <2>2. IsThrough(s, ops, 0)
    BY <2>1 DEF IsThrough
  <2> QED
    BY <2>2
<1>2. ASSUME NEW i \in 1..n, i - 1 \in T
      PROVE  i \in T
  <2>1. PICK s : IsThrough(s, ops, i - 1)
    BY <1>2
  <2> DEFINE u == [k \in 0..i |-> IF k = i THEN PeerAfter(s[i - 1], ops[i]) ELSE s[k]]
  <2>2. s = [k \in 0..(i - 1) |-> IF k = 0 THEN peer ELSE PeerAfter(s[k - 1], ops[k])]
    BY <2>1 DEF IsThrough
  <2>3. ASSUME NEW k \in 0..i
        PROVE  u[k] = IF k = 0 THEN peer ELSE PeerAfter(u[k - 1], ops[k])
    <3>1. CASE k = i
      <4>1. u[k] = PeerAfter(s[i - 1], ops[i]) /\ i - 1 \in 0..i /\ i - 1 # i /\ k # 0
        BY <3>1
      <4>2. u[i - 1] = s[i - 1]
        BY <4>1
      <4> QED
        BY <3>1, <4>1, <4>2
    <3>2. CASE k # i /\ k # 0
      <4>1. k \in 0..(i - 1) /\ k - 1 \in 0..i /\ k - 1 # i
        BY <3>2
      <4>2. u[k] = s[k] /\ u[k - 1] = s[k - 1]
        BY <3>2, <4>1
      <4>3. s[k] = PeerAfter(s[k - 1], ops[k])
        BY <2>2, <3>2, <4>1
      <4> QED
        BY <3>2, <4>2, <4>3
    <3>3. CASE k # i /\ k = 0
      <4>1. 0 \in 0..(i - 1) /\ u[k] = s[k]
        BY <3>3
      <4>2. s[0] = peer
        BY <2>2, <4>1
      <4> QED
        BY <3>3, <4>1, <4>2
    <3> QED
      BY <3>1, <3>2, <3>3
  <2>4. u = [k \in 0..i |-> u[k]]
    OBVIOUS
  <2> HIDE DEF u
  <2>5. IsThrough(u, ops, i)
    BY <2>3, <2>4 DEF IsThrough
  <2> QED
    BY <2>5
<1>3. 0..n \subseteq T
  <2> HIDE DEF T
  <2> QED
    BY <1>1, <1>2, UpTo
<1>4. n \in T
  BY <1>3
<1> QED
  BY <1>4

LEMMA PeerRuns ==
    ASSUME NEW ops, NEW n \in Nat
    PROVE  \E P : PeerRun(P, ops, n)
<1>1. PICK P : IsThrough(P, ops, n)
  BY ThroughExists
<1>2. P = [k \in 0..n |-> IF k = 0 THEN peer ELSE PeerAfter(P[k - 1], ops[k])]
  BY <1>1 DEF IsThrough
<1>3. P[0] = peer /\ \A i \in 1..n : P[i] = PeerAfter(P[i - 1], ops[i])
  <2>1. 0 \in 0..n /\ \A i \in 1..n : i \in 0..n /\ i # 0
    OBVIOUS
  <2> QED
    BY <1>2, <2>1
<1>4. ASSUME NEW i \in 0..n
      PROVE  PeerThrough(ops, i) = P[i]
  <2> DEFINE after == CHOOSE s : s = [k \in 0..i |-> IF k = 0 THEN peer ELSE PeerAfter(s[k - 1], ops[k])]
             u == [k \in 0..i |-> P[k]]
  <2>1. PeerThrough(ops, i) = after[i]
    BY DEF PeerThrough
  <2>2. PICK s : s = [k \in 0..i |-> IF k = 0 THEN peer ELSE PeerAfter(s[k - 1], ops[k])]
    <3>1. i \in Nat
      OBVIOUS
    <3> QED
      BY <3>1, ThroughExists DEF IsThrough
  <2>3. after = [k \in 0..i |-> IF k = 0 THEN peer ELSE PeerAfter(after[k - 1], ops[k])]
    BY <2>2
  <2> HIDE DEF after
  <2>4. Alike(after, P, i)
    <3>1. after[0] = peer /\ \A k \in 1..i : after[k] = PeerAfter(after[k - 1], ops[k])
      <4>1. 0 \in 0..i /\ \A k \in 1..i : k \in 0..i /\ k # 0
        OBVIOUS
      <4> QED
        BY <2>3, <4>1
    <3>2. \A k \in 1..i : k \in 1..n
      OBVIOUS
    <3> QED
      BY <1>3, <3>1, <3>2 DEF Alike
  <2>5. \A k \in 0..i : after[k] = P[k]
    BY <2>4, Agree
  <2> QED
    BY <2>1, <2>5
<1> QED
  BY <1>3, <1>4 DEF PeerRun

\* A run of the peer over operations it may do, and the bytes that stand for them.
RunsBy(P, ops, i) ==
    P[i] = PeerAfter(P[i - 1], ops[i]) /\ IsOperation(ops[i]) /\ PeerMay(P[i - 1], ops[i])
LegalRun(P, ops, n) == n \in Nat /\ PeerIs(P[0]) /\ \A i \in 1..n : RunsBy(P, ops, i)

\* The parts of a block, of which the first m say what the peer does, and go
\* back to no larger table.
IsSaid(P, f, ops, i) == Represents(f[i], ops[i]) /\ ~Raises(P[i - 1], ops[i])
Sends(P, f, ops, n, m) ==
    /\ f \in Seq(Seq(Bytes)) /\ Len(f) = n /\ m \in 0..n
    /\ \A i \in 1..m : IsSaid(P, f, ops, i)
Meanings(P, ops, n) == [i \in 1..n |-> Meaning(P[i - 1], ops[i])]

LEMMA PeersAre ==
    ASSUME NEW P, NEW ops, NEW n, LegalRun(P, ops, n)
    PROVE  /\ \A i \in 0..n : PeerIs(P[i])
           /\ Meanings(P, ops, n) \in Seq(Seq(Entries)) /\ Len(Meanings(P, ops, n)) = n
<1>1. n \in Nat /\ PeerIs(P[0]) /\ \A i \in 1..n : RunsBy(P, ops, i)
  BY DEF LegalRun
<1> DEFINE T == {i \in 0..n : PeerIs(P[i])}
<1>2. 0 \in T
  BY <1>1
<1>3. ASSUME NEW i \in 1..n, i - 1 \in T
      PROVE  i \in T
  <2>1. RunsBy(P, ops, i) /\ PeerIs(P[i - 1])
    BY <1>1, <1>3
  <2>2. PeerIs(P[i])
    BY <2>1, PeerKeeps DEF RunsBy
  <2> QED
    BY <2>2
<1>4. 0..n \subseteq T
  <2> HIDE DEF T
  <2> QED
    BY <1>1, <1>2, <1>3, UpTo
<1>5. \A i \in 0..n : PeerIs(P[i])
  BY <1>4
<1> DEFINE S == Seq(Entries)
<1>6. ASSUME NEW i \in 1..n
      PROVE  Meaning(P[i - 1], ops[i]) \in S
  <2>1. RunsBy(P, ops, i) /\ i - 1 \in 0..n
    BY <1>1
  <2>2. PeerIs(P[i - 1])
    BY <1>5, <2>1
  <2> QED
    BY <2>1, <2>2, MeaningTypes DEF RunsBy
<1> HIDE DEF S
<1> DEFINE m == [i \in 1..n |-> Meaning(P[i - 1], ops[i])]
<1>7. m \in [1..n -> S]
  BY <1>6
<1>8. m \in Seq(S) /\ Len(m) = n
  <2> HIDE DEF m
  <2> QED
    BY <1>1, <1>7
<1> QED
  BY <1>5, <1>8 DEF Meanings, S

\* The decoder after i rounds over what the peer sent.
InStep(r, block, q, outs, P, i) ==
    i <= Len(q[i]) /\ Len(q[i]) \in Nat /\ Comes(r[i], block, Len(q[i]) + 1, outs[i], P[i])

LEMMA ExtendsItself ==
    ASSUME NEW b \in Seq(Bytes)
    PROVE  Extends(b, b)
<1>1. Len(b) \in Nat
  OBVIOUS
<1> QED
  BY <1>1 DEF Extends

LEMMA BlockSteps ==
    ASSUME NEW P, NEW ops, NEW n, LegalRun(P, ops, n), NEW f, NEW l, Sends(P, f, ops, n, l),
           NEW d, Follows(d, P[0]),
           NEW block, block = Concat(f), NEW r, LoopRun(r, d, block), NEW q, ConcatRun(q, f, Bytes),
           NEW outs, ConcatRun(outs, Meanings(P, ops, n), Entries)
    PROVE  \A i \in 0..l : InStep(r, block, q, outs, P, i)
<1>1. n \in Nat /\ \A i \in 1..n : RunsBy(P, ops, i)
  BY DEF LegalRun
<1>2. /\ f \in Seq(Seq(Bytes)) /\ Len(f) = n
      /\ \A i \in 1..l : Represents(f[i], ops[i]) /\ ~Raises(P[i - 1], ops[i])
  BY DEF Sends, IsSaid
<1>0. l \in Nat /\ l <= n
  BY <1>1 DEF Sends
<1>3. /\ q \in [0..n -> Seq(Bytes)] /\ q[0] = << >> /\ block = q[n]
      /\ \A i \in 1..n : q[i] = q[i - 1] \o f[i]
  BY <1>2 DEF ConcatRun
<1>4. block \in Seq(Bytes) /\ Len(block) \in Nat
  <2>1. n \in 0..n
    BY <1>1
  <2>2. block \in Seq(Bytes)
    BY <1>3, <2>1
  <2> QED
    BY <2>2, BytesAre
<1>5. Extends(block, Concat(f))
  BY <1>4, ExtendsItself
<1> DEFINE m == Meanings(P, ops, n)
<1>6. outs[0] = << >> /\ \A i \in 1..n : outs[i] = outs[i - 1] \o Meaning(P[i - 1], ops[i])
  <2>1. Len(m) = n
    BY PeersAre
  <2>2. outs[0] = << >> /\ \A i \in 1..n : outs[i] = outs[i - 1] \o m[i]
    BY <2>1 DEF ConcatRun
  <2>3. \A i \in 1..n : m[i] = Meaning(P[i - 1], ops[i])
    BY DEF Meanings
  <2> HIDE DEF m
  <2> QED
    BY <2>2, <2>3
<1>7. /\ r \in [0..Len(block) -> LoopStates(block)] /\ r[0] = Begun(d)
      /\ \A k \in 1..Len(block) : r[k] = Round(r[k - 1], block)
  BY DEF LoopRun
<1> DEFINE T == {i \in 0..l : InStep(r, block, q, outs, P, i)}
<1>8. 0 \in T
  <2>1. 0 \in 0..l /\ Len(q[0]) = 0 /\ 0 \in 0..Len(block)
    BY <1>0, <1>3, <1>4
  <2>2. r[0] \in LoopStates(block)
    BY <1>7, <2>1
  <2>3. r[0].error = "none" /\ r[0].pos = 1 /\ r[0].out = << >> /\ r[0].d = d
    BY <1>7 DEF Begun
  <2>4. Comes(r[0], block, 1, outs[0], P[0])
    BY <1>6, <2>2, <2>3 DEF Comes
  <2>5. InStep(r, block, q, outs, P, 0)
    BY <2>1, <2>4 DEF InStep
  <2> QED
    BY <2>1, <2>5
<1>9. ASSUME NEW i \in 1..l, i - 1 \in T
      PROVE  i \in T
  <2>0. i \in 1..n /\ i \in 0..l
    BY <1>0, <1>1
  <2> DEFINE s == r[i - 1]
             o == ops[i]
             p == P[i - 1]
             b == f[i]
             k == Len(q[i - 1])
  <2>1. i - 1 <= k /\ k \in Nat /\ Comes(s, block, k + 1, outs[i - 1], p)
    BY <1>9 DEF InStep
  <2>2. At(block, k + 1, b) /\ Len(b) \in Nat /\ Len(q[i]) = k + Len(b)
    BY <1>2, <1>5, <2>0, PartsAt
  <2>3. P[i] = PeerAfter(p, o) /\ IsOperation(o) /\ PeerMay(p, o) /\ ~Raises(p, o) /\ Represents(b, o)
    BY <1>1, <1>2, <2>0 DEF RunsBy
  <2>4. outs[i] = outs[i - 1] \o Meaning(p, o)
    BY <1>6, <2>0
  <2> HIDE DEF o, p, b, k
  <2>5. /\ s \in LoopStates(block) /\ s.error = "none" /\ s.pos = k + 1 /\ s.out = outs[i - 1]
        /\ Follows(s.d, p)
    BY <2>1 DEF Comes
  <2>6. r[i] = Round(s, block) \/ ~(i \in 1..Len(block))
    BY <1>7
  <2> HIDE DEF s
  <2>7. RoundBack(s, block, b, p, o)
    BY <1>4, <2>2, <2>3, <2>5, FieldBack
  <2> DEFINE g == Field(s, block)
  <2>8. ~Over(s, block) /\ Comes(g, block, (k + 1) + Len(b), outs[i], P[i])
    BY <2>3, <2>4, <2>5, <2>7 DEF RoundBack
  <2>9. RoundEnds(s, block, g)
    BY <1>4, <2>5, <2>8, FieldIs
  <2>10. Round(s, block) = g
    BY <2>8 DEF Round
  <2> HIDE DEF g
  <2>11. g.error = "none" /\ g.pos = (k + 1) + Len(b)
    BY <2>8 DEF Comes
  <2>12. (k + 1) + Len(b) > k + 1
    BY <2>5, <2>9, <2>11 DEF RoundEnds
  <2>13. k + 1 <= Len(block)
    <3>1. ~(s.pos > Len(block))
      BY <2>8 DEF Over
    <3> QED
      BY <1>4, <2>1, <2>5, <3>1
  <2> DEFINE h == Len(b)
  <2>14. h \in Nat /\ (k + 1) + h > k + 1 /\ Len(q[i]) = k + h
    BY <2>2, <2>12
  <2> HIDE DEF h
  <2>15. i <= k + h /\ k + h \in Nat /\ (k + 1) + h = (k + h) + 1 /\ i \in 1..Len(block)
    BY <1>4, <2>0, <2>1, <2>13, <2>14
  <2>16. r[i] = g
    BY <2>6, <2>10, <2>15
  <2>17. Comes(r[i], block, (k + h) + 1, outs[i], P[i])
    BY <2>8, <2>15, <2>16 DEF h
  <2>18. InStep(r, block, q, outs, P, i)
    BY <2>14, <2>15, <2>17 DEF InStep
  <2> QED
    BY <2>0, <2>18
<1>10. 0..l \subseteq T
  <2> HIDE DEF T
  <2> QED
    BY <1>0, <1>8, <1>9, UpTo
<1> QED
  BY <1>10

\* What the loop meets next.
NextRound(r, block, P, outs, f, l) ==
    /\ r[l] \in LoopStates(block) /\ r[l].error = "none" /\ Follows(r[l].d, P[l]) /\ r[l].out = outs[l]
    /\ At(block, r[l].pos, f[l + 1])
    /\ ~Over(r[l], block) => l + 1 \in 1..Len(block) /\ r[l + 1] = Field(r[l], block)

LEMMA BlockNext ==
    ASSUME NEW P, NEW ops, NEW n, LegalRun(P, ops, n), NEW f, NEW l, Sends(P, f, ops, n, l), l < n,
           NEW d, Follows(d, P[0]),
           NEW block, block = Concat(f), NEW r, LoopRun(r, d, block), NEW q, ConcatRun(q, f, Bytes),
           NEW outs, ConcatRun(outs, Meanings(P, ops, n), Entries)
    PROVE  NextRound(r, block, P, outs, f, l)
<1>1. n \in Nat /\ f \in Seq(Seq(Bytes)) /\ Len(f) = n /\ l \in 0..n
  BY DEF LegalRun, Sends
<1>2. l \in 0..l /\ l \in Nat /\ l + 1 \in 1..n /\ (l + 1) - 1 = l
  BY <1>1
<1>3. \A i \in 0..l : InStep(r, block, q, outs, P, i)
  BY BlockSteps
<1>4. l <= Len(q[l]) /\ Len(q[l]) \in Nat /\ Comes(r[l], block, Len(q[l]) + 1, outs[l], P[l])
  BY <1>2, <1>3 DEF InStep
<1>5. block \in Seq(Bytes) /\ Len(block) \in Nat
  <2>1. block \in Seq(Bytes)
    BY <1>1, ConcatAppend
  <2> QED
    BY <2>1, BytesAre
<1>6. Extends(block, Concat(f))
  BY <1>5, ExtendsItself
<1>7. At(block, Len(q[l]) + 1, f[l + 1])
  <2>1. l + 1 \in 1..Len(f)
    BY <1>1, <1>2
  <2>2. At(block, Len(q[(l + 1) - 1]) + 1, f[l + 1])
    BY <1>1, <1>6, <2>1, PartsAt
  <2> QED
    BY <1>2, <2>2
<1> DEFINE s == r[l]
           k == Len(q[l])
<1>8. s \in LoopStates(block) /\ s.error = "none" /\ s.pos = k + 1 /\ s.out = outs[l] /\ Follows(s.d, P[l])
  BY <1>4 DEF Comes
<1>9. ASSUME ~Over(s, block)
      PROVE  l + 1 \in 1..Len(block) /\ r[l + 1] = Field(s, block)
  <2>1. ~(s.pos > Len(block))
    BY <1>9 DEF Over
  <2>2. l + 1 \in 1..Len(block)
    BY <1>2, <1>4, <1>5, <1>8, <2>1
  <2>3. r[l + 1] = Round(r[(l + 1) - 1], block)
    BY <2>2 DEF LoopRun
  <2>4. r[l + 1] = Round(s, block)
    BY <1>2, <2>3
  <2> QED
    BY <1>9, <2>2, <2>4 DEF Round
<1> QED
  BY <1>7, <1>8, <1>9 DEF NextRound

\* A raise ends the loop with its error.
LEMMA BlockStops ==
    ASSUME NEW P, NEW ops, NEW n, LegalRun(P, ops, n), NEW f, NEW l, Sends(P, f, ops, n, l), l < n,
           Raises(P[l], ops[l + 1]), Represents(f[l + 1], ops[l + 1]), NEW d, Follows(d, P[0]),
           NEW block, block = Concat(f), NEW r, LoopRun(r, d, block), NEW q, ConcatRun(q, f, Bytes),
           NEW outs, ConcatRun(outs, Meanings(P, ops, n), Entries)
    PROVE  l + 1 \in 1..Len(block) /\ r[l + 1].error = "table_size_too_large" /\ Over(r[l + 1], block)
<1> DEFINE s == r[l]
           o == ops[l + 1]
           b == f[l + 1]
           p == P[l]
<1>1. NextRound(r, block, P, outs, f, l)
  BY BlockNext
<1>2. /\ s \in LoopStates(block) /\ s.error = "none" /\ Follows(s.d, p) /\ At(block, s.pos, b)
      /\ ~Over(s, block) => l + 1 \in 1..Len(block) /\ r[l + 1] = Field(s, block)
  BY <1>1 DEF NextRound
<1>3. IsOperation(o) /\ Raises(p, o) /\ Represents(b, o)
  <2>1. l + 1 \in 1..n
    BY DEF Sends, LegalRun
  <2> QED
    BY <2>1 DEF LegalRun, RunsBy
<1>4. block \in Seq(Bytes)
  BY ConcatAppend DEF Sends
<1> HIDE DEF s, o, b, p
<1>5. ~Over(s, block) /\ Field(s, block).error = "table_size_too_large"
  BY <1>2, <1>3, <1>4, RaiseRefused
<1> QED
  BY <1>2, <1>5 DEF Over

\* The decoder is at the end of the block after the last operation.
LEMMA BlockEnd ==
    ASSUME NEW P, NEW ops, NEW n, LegalRun(P, ops, n), NEW f, Sends(P, f, ops, n, n), NEW d, Follows(d, P[0]),
           NEW block, block = Concat(f), block \in Seq(Bytes), NEW r, LoopRun(r, d, block),
           NEW q, ConcatRun(q, f, Bytes), NEW outs, ConcatRun(outs, Meanings(P, ops, n), Entries)
    PROVE  /\ n \in 0..Len(block) /\ Over(r[n], block)
           /\ Comes(r[n], block, Len(block) + 1, Concat(Meanings(P, ops, n)), P[n])
<1>1. n \in Nat
  BY DEF LegalRun
<1>2. Len(f) = n /\ Len(block) \in Nat
  BY BytesAre DEF Sends
<1>3. \A i \in 0..n : InStep(r, block, q, outs, P, i)
  BY BlockSteps
<1>4. InStep(r, block, q, outs, P, n) /\ n \in 0..n
  BY <1>1, <1>3
<1>5. q[n] = block
  BY <1>2 DEF ConcatRun
<1>6. n <= Len(block) /\ Comes(r[n], block, Len(block) + 1, outs[n], P[n])
  BY <1>4, <1>5 DEF InStep
<1>7. Concat(Meanings(P, ops, n)) = outs[n]
  <2>1. Len(Meanings(P, ops, n)) = n
    BY PeersAre
  <2> QED
    BY <2>1 DEF ConcatRun
<1>8. Over(r[n], block)
  <2>1. r[n].pos = Len(block) + 1
    BY <1>6 DEF Comes
  <2> QED
    BY <1>2, <2>1 DEF Over
<1> QED
  BY <1>1, <1>2, <1>6, <1>7, <1>8

LEMMA SentBytes ==
    ASSUME NEW f \in Seq(Seq(Bytes))
    PROVE  Concat(f) \in Seq(Bytes)
  BY ConcatAppend

\* A whole block is read as it was meant, and leaves the decoder with the peer's table.
LEMMA BlockBack ==
    ASSUME NEW P, NEW ops, NEW n, LegalRun(P, ops, n), NEW f, Sends(P, f, ops, n, n), NEW d, Follows(d, P[0])
    PROVE  Comes(DecodeHeaders(d, Concat(f)), Concat(f), Len(Concat(f)) + 1, Concat(Meanings(P, ops, n)), P[n])
<1> DEFINE block == Concat(f)
           m == Meanings(P, ops, n)
<1>1. f \in Seq(Seq(Bytes)) /\ m \in Seq(Seq(Entries)) /\ Bounded(d)
  BY PeersAre DEF Sends, Follows
<1>2. block \in Seq(Bytes)
  BY <1>1, SentBytes
<1>3. PICK q : ConcatRun(q, f, Bytes)
  BY <1>1, ConcatRuns
<1>4. PICK outs : ConcatRun(outs, m, Entries)
  <2> HIDE DEF m
  <2> QED
    BY <1>1, ConcatRuns
<1> HIDE DEF block
<1>5. block = Concat(f)
  BY DEF block
<1>6. PICK r : /\ LoopRun(r, d, block) /\ DecodeHeaders(d, block) = r[Len(block)]
               /\ Over(r[Len(block)], block)
  BY <1>1, <1>2, DecodeRuns
<1>7. /\ n \in 0..Len(block) /\ Over(r[n], block)
      /\ Comes(r[n], block, Len(block) + 1, Concat(m), P[n])
  BY <1>2, <1>3, <1>4, <1>5, <1>6, BlockEnd
<1>8. r[Len(block)] = r[n]
  <2>1. Len(block) \in n..Len(block)
    BY <1>2, <1>7, BytesAre
  <2> QED
    BY <1>2, <1>6, <1>7, <2>1, OverStays
<1>9. Comes(DecodeHeaders(d, block), block, Len(block) + 1, Concat(m), P[n])
  BY <1>6, <1>7, <1>8
<1> QED
  BY <1>9 DEF block

\* A whole block with a raise is refused.
LEMMA BlockRefused ==
    ASSUME NEW P, NEW ops, NEW n, LegalRun(P, ops, n), NEW f, NEW l, Sends(P, f, ops, n, l), l < n,
           Raises(P[l], ops[l + 1]), Represents(f[l + 1], ops[l + 1]), NEW d, Follows(d, P[0])
    PROVE  DecodeHeaders(d, Concat(f)).error = "table_size_too_large"
<1> DEFINE block == Concat(f)
           m == Meanings(P, ops, n)
<1>1. f \in Seq(Seq(Bytes)) /\ m \in Seq(Seq(Entries)) /\ Bounded(d)
  BY PeersAre DEF Sends, Follows
<1>2. block \in Seq(Bytes)
  BY <1>1, SentBytes
<1>3. PICK q : ConcatRun(q, f, Bytes)
  BY <1>1, ConcatRuns
<1>4. PICK outs : ConcatRun(outs, m, Entries)
  <2> HIDE DEF m
  <2> QED
    BY <1>1, ConcatRuns
<1> HIDE DEF block
<1>5. block = Concat(f)
  BY DEF block
<1>6. PICK r : LoopRun(r, d, block) /\ DecodeHeaders(d, block) = r[Len(block)]
  BY <1>1, <1>2, DecodeRuns
<1>7. l + 1 \in 1..Len(block) /\ r[l + 1].error = "table_size_too_large" /\ Over(r[l + 1], block)
  BY <1>3, <1>4, <1>5, <1>6, BlockStops
<1>8. l + 1 \in 0..Len(block) /\ Len(block) \in (l + 1)..Len(block)
  <2>1. Len(block) \in Nat
    BY <1>2, BytesAre
  <2> QED
    BY <1>7, <2>1
<1>9. r[Len(block)] = r[l + 1]
  BY <1>2, <1>6, <1>7, <1>8, OverStays
<1> QED
  BY <1>5, <1>6, <1>7, <1>9

\* Each beginning of a list of headers.
Starting(short, long) ==
    /\ short \in Seq(Entries) /\ long \in Seq(Entries) /\ Len(short) <= Len(long)
    /\ \A i \in 1..Len(short) : short[i] = long[i]

LEMMA StartingPrefix ==
    ASSUME NEW short, NEW long, Starting(short, long)
    PROVE  IsPrefix(short, long)
<1>1. /\ short \in Seq(Entries) /\ long \in Seq(Entries) /\ Len(short) <= Len(long)
      /\ \A i \in 1..Len(short) : short[i] = long[i]
  BY DEF Starting
<1>2. Len(short) \in Nat /\ Len(long) \in Nat
  BY <1>1
<1> DEFINE u == SubSeq(short, 1, Len(short))
           v == SubSeq(long, 1, Len(short))
<1>3. u = short
  BY <1>1, WholePrefix
<1>4. v \in Seq(Entries) /\ Len(v) = Len(short) /\ \A i \in 1..Len(short) : v[i] = long[i]
  BY <1>1, <1>2
<1> HIDE DEF u, v
<1>5. u = v
  BY <1>1, <1>3, <1>4, SeqEqual
<1> QED
  BY <1>1, <1>5 DEF IsPrefix, u, v

LEMMA StartingStep ==
    ASSUME NEW short, NEW long, Starting(short, long), NEW more \in Seq(Entries)
    PROVE  Starting(short, long \o more)
<1>1. /\ short \in Seq(Entries) /\ long \in Seq(Entries) /\ Len(short) <= Len(long)
      /\ \A i \in 1..Len(short) : short[i] = long[i]
  BY DEF Starting
<1> DEFINE c == long \o more
<1>2. /\ c \in Seq(Entries) /\ Len(c) = Len(long) + Len(more) /\ Len(long) \in Nat /\ Len(more) \in Nat
      /\ \A i \in 1..Len(long) : c[i] = long[i]
  BY <1>1, ConcatAt
<1> HIDE DEF c
<1>3. Len(short) \in Nat
  BY <1>1
<1>4. ASSUME NEW i \in 1..Len(short)
      PROVE  short[i] = c[i]
  <2>1. i \in 1..Len(long)
    BY <1>1, <1>2, <1>3
  <2> QED
    BY <1>1, <1>2, <2>1
<1>5. Len(short) <= Len(c)
  BY <1>1, <1>2, <1>3
<1>6. Starting(short, c)
  BY <1>1, <1>2, <1>4, <1>5 DEF Starting
<1> QED
  BY <1>6 DEF c

LEMMA PrefixRun ==
    ASSUME NEW m \in Seq(Seq(Entries)), NEW outs, ConcatRun(outs, m, Entries), NEW i \in 0..Len(m)
    PROVE  IsPrefix(outs[i], Concat(m))
<1> DEFINE n == Len(m)
           S == Seq(Entries)
           T == {k \in 0..(n - i) : Starting(outs[i], outs[i + k])}
<1>1. n \in Nat /\ i \in Nat /\ i <= n
  OBVIOUS
<1>2. /\ outs \in [0..n -> S] /\ Concat(m) = outs[n]
      /\ \A k \in 1..n : outs[k] = outs[k - 1] \o m[k]
  BY DEF ConcatRun
<1>3. \A k \in 1..n : m[k] \in S
  <2> HIDE DEF S
  <2>1. m \in Seq(S)
    BY DEF S
  <2> QED
    BY <1>1, <2>1, ElementOfSeq
<1> HIDE DEF n
<1>4. 0 \in T
  <2>1. outs[i] \in Seq(Entries) /\ i + 0 = i /\ 0 \in 0..(n - i)
    BY <1>1, <1>2
  <2>2. Starting(outs[i], outs[i])
    BY <2>1 DEF Starting
  <2> QED
    BY <2>1, <2>2
<1>5. ASSUME NEW k \in 1..(n - i), k - 1 \in T
      PROVE  k \in T
  <2>1. Starting(outs[i], outs[i + (k - 1)])
    BY <1>5
  <2>2. i + k \in 1..n /\ (i + k) - 1 = i + (k - 1) /\ k \in 0..(n - i)
    BY <1>1
  <2>3. outs[i + k] = outs[i + (k - 1)] \o m[i + k] /\ m[i + k] \in Seq(Entries)
    BY <1>2, <1>3, <2>2
  <2> DEFINE long == outs[i + (k - 1)]
             more == m[i + k]
  <2>4. Starting(outs[i], long) /\ more \in Seq(Entries)
    BY <2>1, <2>3
  <2> HIDE DEF long, more
  <2>5. Starting(outs[i], long \o more)
    BY <2>4, StartingStep
  <2>6. Starting(outs[i], outs[i + k])
    BY <2>3, <2>5 DEF long, more
  <2> QED
    BY <2>2, <2>6
<1>6. n - i \in T
  <2> HIDE DEF T
  <2>1. n - i \in Nat /\ n - i \in 0..(n - i)
    BY <1>1
  <2> QED
    BY <1>4, <1>5, <2>1, UpTo
<1>7. i + (n - i) = n
  BY <1>1
<1>8. Starting(outs[i], outs[n])
  BY <1>6, <1>7
<1> QED
  BY <1>2, <1>8, StartingPrefix

\* A block that was cut: as long as nothing is refused, the loop goes as it
\* would on the whole of it.
LEMMA CutSteps ==
    ASSUME NEW long, NEW short, Extends(long, short), NEW d, NEW r, LoopRun(r, d, long),
           NEW c, LoopRun(c, d, short)
    PROVE  \A k \in 0..Len(short) : c[k].error = "none" => \E j \in 0..k : c[k] = r[j]
<1>1. long \in Seq(Bytes) /\ short \in Seq(Bytes) /\ Len(short) <= Len(long)
  BY DEF Extends
<1>2. Len(long) \in Nat /\ Len(short) \in Nat
  BY <1>1, BytesAre
<1>3. r[0] = Begun(d) /\ \A k \in 1..Len(long) : r[k] = Round(r[k - 1], long)
  BY DEF LoopRun
<1>4. /\ c \in [0..Len(short) -> LoopStates(short)] /\ c[0] = Begun(d)
      /\ \A k \in 1..Len(short) : c[k] = Round(c[k - 1], short)
  BY DEF LoopRun
<1> DEFINE T == {k \in 0..Len(short) : c[k].error = "none" => \E j \in 0..k : c[k] = r[j]}
<1>5. 0 \in T
  BY <1>2, <1>3, <1>4
<1>6. ASSUME NEW k \in 1..Len(short), k - 1 \in T
      PROVE  k \in T
  <2> SUFFICES ASSUME c[k].error = "none"
               PROVE  \E j \in 0..k : c[k] = r[j]
    BY <1>2
  <2> DEFINE s == c[k - 1]
  <2>1. c[k] = Round(s, short) /\ s \in LoopStates(short)
    <3>1. k - 1 \in 0..Len(short)
      BY <1>2
    <3> QED
      BY <1>4, <3>1
  <2>2. s.error = "none" => \E j \in 0..(k - 1) : s = r[j]
    BY <1>6
  <2> HIDE DEF s
  <2>3. CASE Over(s, short)
    <3>1. c[k] = s
      BY <2>1, <2>3 DEF Round
    <3>2. PICK j \in 0..(k - 1) : s = r[j]
      BY <2>2, <3>1
    <3>3. j \in 0..k
      BY <1>2
    <3> QED
      BY <3>1, <3>2, <3>3
  <2>4. CASE ~Over(s, short)
    <3>1. c[k] = Field(s, short) /\ s.error = "none"
      BY <2>1, <2>4 DEF Round, Over
    <3>2. PICK j \in 0..(k - 1) : s = r[j]
      BY <2>2, <3>1
    <3>3. ~Over(s, long) /\ Field(s, long) = Field(s, short)
      <4>1. Field(s, short).error = "none"
        BY <3>1
      <4> QED
        BY <2>1, <2>4, <4>1, FieldStable
    <3>4. j + 1 \in 0..k /\ j + 1 \in 1..Len(long) /\ (j + 1) - 1 = j
      BY <1>1, <1>2
    <3>5. r[j + 1] = Round(s, long)
      BY <1>3, <3>2, <3>4
    <3>6. r[j + 1] = c[k]
      BY <3>1, <3>3, <3>5 DEF Round
    <3> QED
      BY <3>4, <3>6
  <2> QED
    BY <2>3, <2>4
<1>7. 0..Len(short) \subseteq T
  <2> HIDE DEF T
  <2> QED
    BY <1>2, <1>5, <1>6, UpTo
<1> QED
  BY <1>7

LEMMA CutBack ==
    ASSUME NEW P, NEW ops, NEW n, LegalRun(P, ops, n), NEW f, NEW l, Sends(P, f, ops, n, l),
           l < n => Raises(P[l], ops[l + 1]) /\ Represents(f[l + 1], ops[l + 1]), NEW d, Follows(d, P[0]),
           NEW short, Extends(Concat(f), short), DecodeHeaders(d, short).error = "none"
    PROVE  IsPrefix(DecodeHeaders(d, short).out, Concat(Meanings(P, ops, n)))
<1> DEFINE block == Concat(f)
           m == Meanings(P, ops, n)
<1>1. f \in Seq(Seq(Bytes)) /\ m \in Seq(Seq(Entries)) /\ Len(m) = n /\ Bounded(d)
  BY PeersAre DEF Sends, Follows
<1>2. block \in Seq(Bytes) /\ short \in Seq(Bytes) /\ Extends(block, short) /\ Len(short) <= Len(block)
  BY DEF Extends
<1>3. PICK q : ConcatRun(q, f, Bytes)
  BY <1>1, ConcatRuns
<1>4. PICK outs : ConcatRun(outs, m, Entries)
  <2> HIDE DEF m
  <2> QED
    BY <1>1, ConcatRuns
<1> HIDE DEF block
<1>5. block = Concat(f) /\ Len(block) \in Nat /\ Len(short) \in Nat
  BY <1>2, BytesAre DEF block
<1>6. PICK r : LoopRun(r, d, block)
  BY <1>1, <1>2, DecodeRuns
<1>7. PICK c : LoopRun(c, d, short) /\ DecodeHeaders(d, short) = c[Len(short)]
  BY <1>1, <1>2, DecodeRuns
<1>8. l \in 0..n /\ n \in Nat
  BY DEF Sends, LegalRun
<1>9. \A i \in 0..l : InStep(r, block, q, outs, P, i)
  BY <1>3, <1>4, <1>5, <1>6, BlockSteps
<1>10. PICK j \in 0..Len(short) : c[Len(short)] = r[j]
  <2>1. Len(short) \in 0..Len(short) /\ c[Len(short)].error = "none"
    BY <1>5, <1>7
  <2>2. \A k \in 0..Len(short) : c[k].error = "none" => \E j \in 0..k : c[k] = r[j]
    BY <1>2, <1>6, <1>7, CutSteps
  <2> QED
    BY <2>1, <2>2
<1> DEFINE i == IF j <= l THEN j ELSE l
<1>11. r[j] = r[i] /\ i \in 0..l
  <2>1. CASE j <= l
    BY <1>8, <2>1
  <2>2. CASE ~(j <= l) /\ l = n
    <3>1. n \in 0..Len(block) /\ Over(r[n], block)
      BY <1>2, <1>3, <1>4, <1>5, <1>6, <2>2, BlockEnd
    <3>2. j \in n..Len(block)
      BY <1>2, <1>5, <1>8, <2>2
    <3>3. r[j] = r[n]
      BY <1>2, <1>6, <3>1, <3>2, OverStays
    <3> QED
      BY <1>8, <2>2, <3>3
  <2>3. CASE ~(j <= l) /\ l # n
    <3>1. l < n
      BY <1>8, <2>3
    <3>2. /\ l + 1 \in 1..Len(block) /\ r[l + 1].error = "table_size_too_large"
          /\ Over(r[l + 1], block)
      BY <1>3, <1>4, <1>5, <1>6, <3>1, BlockStops
    <3>3. j \in (l + 1)..Len(block) /\ l + 1 \in 0..Len(block)
      BY <1>2, <1>5, <1>8, <2>3, <3>2
    <3>4. r[j] = r[l + 1]
      BY <1>2, <1>6, <3>2, <3>3, OverStays
    <3>5. r[j].error = "none"
      BY <1>7, <1>10
    <3> QED
      BY <3>2, <3>4, <3>5
  <2> QED
    BY <2>1, <2>2, <2>3
<1>0. i \in 0..n
  BY <1>8, <1>11
<1> HIDE DEF i
<1>12. r[i].out = outs[i]
  BY <1>9, <1>11 DEF InStep, Comes
<1>13. IsPrefix(outs[i], Concat(m))
  <2> HIDE DEF m
  <2> QED
    BY <1>0, <1>1, <1>4, PrefixRun
<1> QED
  BY <1>7, <1>10, <1>11, <1>12, <1>13

\* What is left of a block when bytes are missing.
LEMMA CutIs ==
    ASSUME NEW block \in Seq(Bytes), NEW missing \in Nat
    PROVE  Extends(block, Cut(block, missing)) /\ (missing = 0 => Cut(block, missing) = block)
<1> DEFINE n == Len(block)
           u == SubSeq(block, 1, n - missing)
<1>1. n \in Nat
  OBVIOUS
<1>2. Cut(block, missing) = u
  BY DEF Cut
<1>3. CASE missing <= n
  <2> DEFINE k == n - missing
  <2>1. k \in Nat /\ k <= Len(block)
    BY <1>1, <1>3
  <2> HIDE DEF k
  <2> DEFINE v == SubSeq(block, 1, k)
  <2>2. v \in Seq(Bytes) /\ Len(v) = k /\ \A i \in 1..k : block[i] = v[i]
    BY <2>1
  <2> HIDE DEF v
  <2>3. Extends(block, v)
    BY <2>1, <2>2 DEF Extends
  <2>4. missing = 0 => v = block
    <3>1. missing = 0 => k = Len(block)
      BY <1>1 DEF k
    <3> QED
      BY <3>1, WholePrefix DEF v
  <2>5. u = v
    BY DEF u, v, k
  <2> QED
    BY <1>2, <2>3, <2>4, <2>5
<1>4. CASE ~(missing <= n)
  <2>1. n - missing \in Int /\ n - missing < 1 /\ missing # 0
    BY <1>1, <1>4
  <2>2. u = << >>
    <3> DEFINE k == n - missing
    <3>1. k \in Int /\ k < 1
      BY <2>1
    <3> HIDE DEF k
    <3>2. SubSeq(block, 1, k) = << >>
      BY <3>1
    <3> QED
      BY <3>2 DEF k
  <2>3. Extends(block, << >>)
    BY <1>1 DEF Extends
  <2> QED
    BY <1>2, <2>1, <2>2, <2>3
<1> QED
  BY <1>1, <1>3, <1>4

-----------------------------------------------------------------------------
(* What the peer and the encoder write.                                    *)

LEMMA SmallNumbers == 0 \in Numbers
<1>1. Width \in Nat /\ 2 ^ Width \in Nat /\ 2 ^ Width >= 1
  BY SizesAssumption, Doubling
<1> QED
  BY <1>1 DEF Numbers

\* A literal, put together from its parts.
LEMMA LiteralMade ==
    ASSUME NEW op \in {"with", "without", "never"}, NEW index \in Numbers,
           NEW nb \in Seq(Bytes), NEW vb \in Seq(Bytes)
    PROVE  LET b == (WriteInteger(index, Prefix(op).bits, Prefix(op).pattern, 0) \o nb) \o vb
           IN  /\ b \in Seq(Bytes)
               /\ \A name, value :
                     (Spells(vb, value) /\ (index = 0 => Spells(nb, name)) /\ (index # 0 => nb = << >>))
                     => LiteralBytes(b, Prefix(op).bits, Prefix(op).pattern, index, name, value)
<1> DEFINE n == Prefix(op).bits
           pattern == Prefix(op).pattern
           w == WriteInteger(index, n, pattern, 0)
<1>1. IsPattern(n, pattern) /\ index \in Nat /\ 0 \in Nat
  BY PrefixIs, LengthNumber DEF IsPattern
<1> HIDE DEF n, pattern
<1>2. w \in Seq(Bytes)
  BY <1>1, IntegerWritten
<1>3. (w \o nb) \o vb \in Seq(Bytes)
  <2> HIDE DEF w
  <2>1. w \o nb \in Seq(Bytes)
    BY <1>2, ConcatAt
  <2> QED
    BY <2>1, ConcatAt
<1>4. ASSUME NEW name, NEW value, Spells(vb, value), index = 0 => Spells(nb, name), index # 0 => nb = << >>
      PROVE  LiteralBytes((w \o nb) \o vb, n, pattern, index, name, value)
  BY <1>4, Zenon DEF LiteralBytes
<1> QED
  BY <1>3, <1>4, Zenon DEF n, pattern

LEMMA PeerWrites ==
    ASSUME NEW o, IsOperation(o)
    PROVE  PeerBytes(o) \in Seq(Bytes) /\ Represents(PeerBytes(o), o)
<1>1. CASE o.op = "indexed"
  <2>1. PeerBytes(o) = WriteInteger(o.index, 7, 128, 0)
    BY <1>1 DEF PeerBytes
  <2>2. o.index \in Numbers /\ IsPattern(7, 128)
    BY <1>1 DEF IsOperation, IsPattern
  <2>3. WriteInteger(o.index, 7, 128, 0) \in Seq(Bytes)
    <3>1. o.index \in Nat /\ 0 \in Nat
      BY <2>2, LengthNumber
    <3> QED
      BY <2>2, <3>1, IntegerWritten
  <2> QED
    BY <1>1, <2>1, <2>3 DEF Represents
<1>2. CASE o.op = "update"
  <2>1. PeerBytes(o) = WriteInteger(o.size, 5, 32, 0)
    BY <1>2 DEF PeerBytes
  <2>2. o.size \in Numbers /\ IsPattern(5, 32)
    BY <1>2 DEF IsOperation, IsPattern
  <2>3. WriteInteger(o.size, 5, 32, 0) \in Seq(Bytes)
    <3>1. o.size \in Nat /\ 0 \in Nat
      BY <2>2, LengthNumber
    <3> QED
      BY <2>2, <3>1, IntegerWritten
  <2> QED
    BY <1>2, <2>1, <2>3 DEF Represents
<1>3. CASE o.op \in {"with", "without", "never"}
  <2> DEFINE index == o.index
             op == o.op
             nb == IF index = 0 THEN WriteString(o.name, None, 0) ELSE << >>
             vb == WriteString(o.value, None, 0)
             b == (WriteInteger(index, Prefix(op).bits, Prefix(op).pattern, 0) \o nb) \o vb
  <2>1. PeerBytes(o) = b
    BY <1>3 DEF PeerBytes
  <2>2. index \in Numbers /\ IsString(o.name) /\ IsString(o.value) /\ op \in {"with", "without", "never"}
    BY <1>3 DEF IsOperation
  <2>3. 0 \in Nat /\ LengthFits(Len(Coded(o.name, None)), 0) /\ LengthFits(Len(Coded(o.value, None)), 0)
    BY DEF LengthFits
  <2>4. WriteString(o.name, None, 0) \in Seq(Bytes) /\ Spells(WriteString(o.name, None, 0), o.name)
    BY <2>2, <2>3, StringBack
  <2>5. vb \in Seq(Bytes) /\ Spells(vb, o.value)
    BY <2>2, <2>3, StringBack
  <2>6. nb \in Seq(Bytes) /\ (index = 0 => Spells(nb, o.name)) /\ (index # 0 => nb = << >>)
    BY <2>4
  <2> HIDE DEF nb, vb, index, op
  <2>7. b \in Seq(Bytes) /\ LiteralBytes(b, Prefix(op).bits, Prefix(op).pattern, index, o.name, o.value)
    BY <2>2, <2>5, <2>6, LiteralMade
  <2> HIDE DEF b
  <2>8. Represents(b, o)
    BY <1>3, <2>7 DEF Represents, index, op
  <2> QED
    BY <2>1, <2>7, <2>8
<1> QED
  BY <1>1, <1>2, <1>3 DEF IsOperation

\* The header passed the checks of encode_one.
LEMMA ErrorFree ==
    ASSUME NEW h, EncodeError(h) = "none"
    PROVE  h.force_static_index = None \/ h.force_static_index \in 1..Len(StaticTable)
<1> SUFFICES ASSUME h.force_static_index # None, h.force_static_index \notin 1..Len(StaticTable)
             PROVE  FALSE
  BY Zenon
<1> DEFINE named == h.force_static_index = None
           checks == << <<"empty_name", named /\ h.name = << >> >>,
                        <<"bloat_out_of_range", h.length_bloat_name > 3>>,
                        <<"bloat_out_of_range", h.length_bloat_value > 3>>,
                        <<"invalid_name", named /\ ~h.allow_invalid_name /\ ~IsNameValid(h.name)>>,
                        <<"invalid_value", ~h.allow_invalid_value /\ ~IsValueValid(h.value)>>,
                        <<"static_index_out_of_range",
                          ~named /\ h.force_static_index \notin 1..Len(StaticTable)>> >>
           I == {i \in 1..Len(checks) : checks[i][2]}
           first == IF I # {} THEN Min(I) ELSE 0
<1>1. EncodeError(h) = IF first = 0 THEN "none" ELSE checks[first][1]
  BY DEF EncodeError, SelectInSeq
<1>2. Len(checks) = 6 /\ \A i \in 1..6 : checks[i][1] # "none"
  OBVIOUS
<1>3. checks[6][2]
  OBVIOUS
<1> HIDE DEF checks
<1>4. 6 \in I /\ I \subseteq 1..6
  BY <1>2, <1>3
<1> HIDE DEF I
<1>5. Min(I) \in 1..6
  <2>1. I \in SUBSET Nat /\ I # {}
    BY <1>4
  <2> QED
    BY <1>4, <2>1, Least
<1> QED
  BY <1>1, <1>2, <1>4, <1>5

\* A block that was encoded has a header in none of its places that is refused.
Encodes(headers) == [i \in 1..Len(headers) |-> EncodeOne(headers[i])]

LEMMA BlockEncoded ==
    ASSUME NEW headers, Len(headers) \in Nat, EncodeHeaders(headers).error = "none"
    PROVE  /\ \A i \in 1..Len(headers) : EncodeError(headers[i]) = "none"
           /\ EncodeHeaders(headers).block = Concat(Encodes(headers))
<1> DEFINE I == {i \in 1..Len(headers) : EncodeError(headers[i]) # "none"}
           bad == IF I # {} THEN Min(I) ELSE 0
           e == Encodes(headers)
<1>1. EncodeHeaders(headers) = IF bad # 0 THEN [error |-> EncodeError(headers[bad]), block |-> << >>]
                               ELSE [error |-> "none", block |-> Concat(e)]
  BY DEF EncodeHeaders, SelectInSeq, Encodes
<1>2. I \subseteq Nat /\ 0 \notin I
  OBVIOUS
<1>3. CASE I = {}
  <2>1. bad = 0
    BY <1>3
  <2> HIDE DEF bad, e
  <2>2. EncodeHeaders(headers) = [error |-> "none", block |-> Concat(e)]
    BY <1>1, <2>1
  <2>3. EncodeHeaders(headers).block = Concat(e)
    BY <2>2
  <2> QED
    BY <1>3, <2>3 DEF e
<1>4. CASE I # {}
  <2>1. bad \in I
    <3> HIDE DEF I
    <3> QED
      BY <1>2, <1>4, Least
  <2>2. EncodeError(headers[bad]) # "none" /\ bad # 0
    BY <1>2, <2>1
  <2> HIDE DEF bad, I
  <2>3. EncodeHeaders(headers).error = EncodeError(headers[bad])
    BY <1>1, <2>2
  <2> QED
    BY <2>2, <2>3
<1> QED
  BY <1>3, <1>4

\* The bytes of a header are those of the operation it stands for, unless the
\* filler of a long length moved its last group.
LEMMA HeaderWritten ==
    ASSUME NEW h, IsHeader(h), EncodeError(h) = "none"
    PROVE  /\ EncodeOne(h) \in Seq(Bytes) /\ IsOperation(AsOperation(h))
           /\ Readable(h) => Represents(EncodeOne(h), AsOperation(h))
<1> DEFINE force == h.force_static_index
           index == IF force = None THEN 0 ELSE force
           op == h.indexing
           ns == WriteString(h.name, h.huffman_name, h.length_bloat_name)
           nb == IF index = 0 THEN ns ELSE << >>
           vb == WriteString(h.value, h.huffman_value, h.length_bloat_value)
           b == (WriteInteger(index, Prefix(op).bits, Prefix(op).pattern, 0) \o nb) \o vb
           o == AsOperation(h)
<1>1. EncodeOne(h) = b
  BY DEF EncodeOne
<1>2. /\ IsString(h.name) /\ IsString(h.value) /\ op \in {"with", "without", "never"}
      /\ h.length_bloat_name \in Nat /\ h.length_bloat_value \in Nat
      /\ force = None \/ force \in Numbers
  BY DEF IsHeader
<1>3. force = None \/ force \in 1..Len(StaticTable)
  BY ErrorFree
<1>4. index \in Numbers
  BY <1>2, SmallNumbers
<1>5. index = 0 => force = None
  <2>1. 0 \notin 1..Len(StaticTable)
    OBVIOUS
  <2> HIDE DEF force
  <2> QED
    BY <1>3, <2>1
<1>6. o.op = op /\ o.index = index /\ o.name = h.name /\ o.value = h.value
  BY DEF AsOperation
<1>7. /\ ns \in Seq(Bytes)
      /\ LengthFits(Len(Coded(h.name, h.huffman_name)), h.length_bloat_name) => Spells(ns, h.name)
  BY <1>2, StringBack
<1>8. /\ vb \in Seq(Bytes)
      /\ LengthFits(Len(Coded(h.value, h.huffman_value)), h.length_bloat_value) => Spells(vb, h.value)
  BY <1>2, StringBack
<1>9. Readable(h) => /\ LengthFits(Len(Coded(h.value, h.huffman_value)), h.length_bloat_value)
                     /\ force # None \/ LengthFits(Len(Coded(h.name, h.huffman_name)), h.length_bloat_name)
  BY DEF Readable, Coded
<1>10. nb \in Seq(Bytes) /\ (index # 0 => nb = << >>) /\ (index = 0 => nb = ns)
  BY <1>7
<1> HIDE DEF ns, vb, nb, index, force, op, o
<1>11. /\ b \in Seq(Bytes)
       /\ (Spells(vb, h.value) /\ (index = 0 => Spells(nb, h.name)) /\ (index # 0 => nb = << >>))
          => LiteralBytes(b, Prefix(op).bits, Prefix(op).pattern, index, h.name, h.value)
  BY <1>2, <1>4, <1>8, <1>10, LiteralMade
<1> HIDE DEF b
<1>12. IsOperation(o)
  BY <1>2, <1>4, <1>6 DEF IsOperation
<1>13. ASSUME Readable(h)
       PROVE  Represents(b, o)
  <2>1. Spells(vb, h.value) /\ (index = 0 => Spells(nb, h.name))
    BY <1>5, <1>7, <1>8, <1>9, <1>10, <1>13
  <2>2. LiteralBytes(b, Prefix(op).bits, Prefix(op).pattern, index, h.name, h.value)
    BY <1>10, <1>11, <2>1
  <2> QED
    BY <1>2, <1>6, <2>2 DEF Represents
<1> QED
  BY <1>1, <1>11, <1>12, <1>13 DEF o

\* What a conforming peer may do, and what it means.
LEMMA HeaderMeans ==
    ASSUME NEW h, IsHeader(h), EncodeError(h) = "none", NEW p, PeerIs(p)
    PROVE  /\ PeerMay(p, AsOperation(h))
           /\ Meaning(p, AsOperation(h)) = << [name |-> NameOf(h), value |-> h.value] >>
<1> DEFINE force == h.force_static_index
           index == IF force = None THEN 0 ELSE force
           o == AsOperation(h)
<1>1. o.op \in {"with", "without", "never"} /\ o.index = index /\ o.name = h.name /\ o.value = h.value
  BY DEF AsOperation, IsHeader
<1>2. force = None \/ force \in 1..Len(StaticTable)
  BY ErrorFree
<1>3. Len(p.table) \in Nat /\ Len(StaticTable) \in Nat
  <2>1. p.table \in Seq(Entries)
    BY FollowsIs DEF PeerIs
  <2> QED
    BY <2>1, StaticAssumption
<1>4. NameOf(h) = IF force = None THEN h.name ELSE StaticTable[force].name
  BY DEF NameOf
<1> HIDE DEF o, force
<1>5. CASE force = None
  <2>1. o.index = 0
    BY <1>1, <1>5
  <2>2. PeerMay(p, o)
    BY <1>1, <2>1 DEF PeerMay
  <2>3. PeerField(p, o) = [name |-> h.name, value |-> h.value]
    BY <1>1, <2>1 DEF PeerField
  <2> QED
    BY <1>1, <1>4, <1>5, <2>2, <2>3 DEF Meaning, o
<1>6. CASE force # None
  <2>1. o.index = force /\ force \in 1..Len(StaticTable)
    BY <1>1, <1>2, <1>6
  <2>2. force # 0 /\ force <= Len(StaticTable) /\ force \in 1..(Len(StaticTable) + Len(p.table))
    BY <1>3, <2>1
  <2>3. PeerMay(p, o)
    BY <1>1, <2>1, <2>2 DEF PeerMay, PeerKnows
  <2>4. PeerEntry(p, force) = StaticTable[force]
    BY <2>2 DEF PeerEntry
  <2>5. PeerField(p, o) = [name |-> StaticTable[force].name, value |-> h.value]
    BY <1>1, <2>1, <2>2, <2>4 DEF PeerField
  <2> QED
    BY <1>1, <1>4, <1>6, <2>3, <2>5 DEF Meaning, o
<1> QED
  BY <1>5, <1>6

-----------------------------------------------------------------------------
(* Headers that are never read back: what the filler moved stays wrong.    *)

\* The bytes of a literal of which the decoder misreads the name or the value.
GarbledBytes(b, n, pattern, index, name, value) ==
    \E nb \in Seq(Bytes), vb \in Seq(Bytes) :
        /\ b = (WriteInteger(index, n, pattern, 0) \o nb) \o vb
        /\ \/ index = 0 /\ Garbles(nb, name)
           \/ /\ index = 0 => Spells(nb, name)
              /\ index # 0 => nb = << >>
              /\ Garbles(vb, value)

\* A literal, a round that fails or gives another entry than e.
WrongLiteral(s, block, lit, e) ==
    \/ \E x \in Errors : x # "none" /\ lit = Failed(s, x)
    \/ \E pos \in 1..(Len(block) + 1) : \E h \in Entries : h # e /\ lit = Advanced(s, pos, h)
Wrong(s, f, e) == f.error # "none" \/ \E h \in Entries : h # e /\ f.out = Append(s.out, h)

LEMMA GarblesThere ==
    ASSUME NEW b, NEW data, Garbles(b, data), NEW buf \in Seq(Bytes), NEW pos \in Nat, pos >= 1,
           At(buf, pos, b)
    PROVE  Misread(ReadString(buf, pos), data)
<1>1. pos \in Nat \ {0}
  OBVIOUS
<1>2. GarbledAt(buf, pos, b, data)
  BY <1>1 DEF Garbles
<1> QED
  BY <1>2 DEF GarbledAt

LEMMA OtherEntry ==
    ASSUME NEW name, NEW value, NEW nm, NEW val, nm # name \/ val # value
    PROVE  [name |-> nm, value |-> val] # [name |-> name, value |-> value]
<1> DEFINE x == [name |-> nm, value |-> val]
           y == [name |-> name, value |-> value]
<1>1. x.name = nm /\ x.value = val /\ y.name = name /\ y.value = value
  OBVIOUS
<1> HIDE DEF x, y
<1>2. x # y
  BY <1>1
<1> QED
  BY <1>2 DEF x, y

\* A literal with a wrong name or value is a wrong entry, or no entry.
LEMMA WrongParts ==
    ASSUME NEW block \in Seq(Bytes), NEW s \in LoopStates(block), NEW nm, NEW name, NEW value,
           nm.error = "none" => /\ nm.v \in Seq(Bytes) /\ nm.pos \in Nat /\ nm.pos >= 1
                                /\ nm.v # name \/ Misread(ReadString(block, nm.pos), value),
           s.error = "none", LiteralEnds(s, block, WithName(s, block, nm))
    PROVE  WrongLiteral(s, block, WithName(s, block, nm), [name |-> name, value |-> value])
<1> DEFINE e == [name |-> name, value |-> value]
           lit == WithName(s, block, nm)
           val == ReadString(block, nm.pos)
           h == [name |-> nm.v, value |-> val.v]
<1>0. s.pos \in Nat /\ s.pos >= 1 /\ Len(block) \in Nat
  BY StatesAre
<1>1. CASE \E x \in Errors : x # "none" /\ lit = Failed(s, x)
  BY <1>1 DEF WrongLiteral
<1>2. CASE \E pos \in (s.pos + 1)..(Len(block) + 1) : \E k \in Entries : lit = Advanced(s, pos, k)
  <2>1. PICK pos \in (s.pos + 1)..(Len(block) + 1), k \in Entries : lit = Advanced(s, pos, k)
    BY <1>2
  <2>2. pos \in 1..(Len(block) + 1)
    BY <1>0, <2>1
  <2>3. Advanced(s, pos, k) = [d |-> s.d, pos |-> pos, out |-> Append(s.out, k), error |-> s.error]
    BY <2>2, AdvancedIs
  <2>4. lit.error = "none" /\ lit.out = Append(s.out, k)
    <3> HIDE DEF lit
    <3> QED
      BY <2>1, <2>3
  <2>5. \A x : Failed(s, x).error = x
    <3>1. s = [d |-> s.d, pos |-> s.pos, out |-> s.out, error |-> s.error]
      BY StatesAre
    <3> QED
      BY <3>1 DEF Failed
  <2>6. nm.error = "none"
    <3> SUFFICES ASSUME nm.error # "none"
                 PROVE  FALSE
      OBVIOUS
    <3>1. lit = Failed(s, nm.error)
      BY DEF WithName
    <3> HIDE DEF lit
    <3> QED
      BY <2>4, <2>5, <3>1
  <2>7. lit = WithValue(s, nm, val)
    BY <2>6 DEF WithName
  <2>8. nm.v \in Seq(Bytes) /\ nm.pos \in Nat /\ nm.pos >= 1 /\ (nm.v # name \/ Misread(val, value))
    BY <2>6
  <2>9. val.error = "none" => val.v \in Seq(Bytes)
    BY <2>8, ReadStringIs
  <2> HIDE DEF lit, val
  <2>10. val.error = "none"
    <3> SUFFICES ASSUME val.error # "none"
                 PROVE  FALSE
      OBVIOUS
    <3>1. lit = Failed(s, val.error)
      BY <2>7 DEF WithValue
    <3> QED
      BY <2>4, <2>5, <3>1
  <2>11. h \in Entries
    BY <2>8, <2>9, <2>10 DEF Entries
  <2>12. h # e
    <3>1. nm.v # name \/ val.v # value
      BY <2>8, <2>10 DEF Misread
    <3> QED
      BY <3>1, OtherEntry
  <2>13. lit.out = Append(s.out, h)
    <3>1. lit = [s EXCEPT !.pos = val.pos, !.out = Append(@, [name |-> nm.v, value |-> val.v])]
      BY <2>7, <2>10 DEF WithValue
    <3> HIDE DEF h
    <3>2. PICK d1, p1, o1, e1 : s = [d |-> d1, pos |-> p1, out |-> o1, error |-> e1]
      BY StatesAre
    <3> DEFINE o == Append(s.out, h)
               r == [s EXCEPT !.pos = val.pos]
    <3>3. r = [d |-> d1, pos |-> val.pos, out |-> o1, error |-> e1] /\ s.out = o1
      BY <3>2
    <3>4. lit = [s EXCEPT !.pos = val.pos, !.out = o]
      BY <3>1, <3>2 DEF h
    <3> HIDE DEF o, r
    <3>5. [r EXCEPT !.out = o] = [d |-> d1, pos |-> val.pos, out |-> o, error |-> e1]
      BY <3>3
    <3>6. lit = [r EXCEPT !.out = o]
      BY <3>4 DEF r
    <3>7. lit.out = o
      BY <3>5, <3>6
    <3> QED
      BY <3>7 DEF o
  <2> HIDE DEF h, e
  <2>14. k = h
    <3>1. s.out \in Seq(Entries)
      BY StatesAre
    <3>2. Last(Append(s.out, k)) = k /\ Last(Append(s.out, h)) = h
      BY <2>11, <3>1, LastAppended
    <3> QED
      BY <2>4, <2>13, <3>2
  <2> QED
    BY <2>1, <2>2, <2>12, <2>14 DEF lit, e, WrongLiteral
<1> QED
  BY <1>1, <1>2 DEF LiteralEnds

\* A literal round over such bytes.
LiteralWrong(s, block, n, pattern, e) ==
    /\ WrongLiteral(s, block, Literal(s, block, n), e)
    /\ block[s.pos] \in pattern..(pattern + (2 ^ n - 1)) /\ ~Over(s, block)

LEMMA LiteralMisread ==
    ASSUME NEW block \in Seq(Bytes), NEW s \in LoopStates(block), s.error = "none", NEW p, Follows(s.d, p),
           NEW n, NEW pattern, IsPattern(n, pattern), NEW index \in Numbers, index = 0 \/ PeerKnows(p, index),
           NEW name \in Seq(Bytes), NEW value \in Seq(Bytes), NEW b,
           GarbledBytes(b, n, pattern, index, name, value), At(block, s.pos, b)
    PROVE  LiteralWrong(s, block, n, pattern, LiteralEntry(p, index, name, value))
<1> DEFINE w == WriteInteger(index, n, pattern, 0)
           e == LiteralEntry(p, index, name, value)
<1>1. PICK nb \in Seq(Bytes), vb \in Seq(Bytes) :
         /\ b = (w \o nb) \o vb
         /\ \/ index = 0 /\ Garbles(nb, name)
            \/ /\ index = 0 => Spells(nb, name)
               /\ index # 0 => nb = << >>
               /\ Garbles(vb, value)
  BY Zenon DEF GarbledBytes
<1>2. s.pos \in Nat /\ s.pos >= 1 /\ Len(block) \in Nat /\ n \in Nat
  BY StatesAre, PatternIs
<1>3. w \in Seq(Bytes) /\ index \in Nat
  BY LengthNumber, IntegerWritten
<1>4. At(block, s.pos, w \o nb) /\ At(block, s.pos + Len(w \o nb), vb)
      /\ Len(w \o nb) = Len(w) + Len(nb) /\ Len(w) \in Nat /\ Len(nb) \in Nat
  <2> HIDE DEF w
  <2>1. w \o nb \in Seq(Bytes) /\ Len(w \o nb) = Len(w) + Len(nb) /\ Len(w) \in Nat /\ Len(nb) \in Nat
    BY <1>3, ConcatAt
  <2> DEFINE a == w \o nb
  <2>2. a \in Seq(Bytes) /\ At(block, s.pos, a \o vb)
    BY <1>1, <2>1
  <2> HIDE DEF a
  <2>3. At(block, s.pos, a) /\ At(block, s.pos + Len(a), vb)
    BY <1>2, <2>2, AtParts
  <2> QED
    BY <2>1, <2>3 DEF a
<1>5. At(block, s.pos, w) /\ At(block, s.pos + Len(w), nb)
  <2>1. At(block, s.pos, w \o nb)
    BY <1>4
  <2> HIDE DEF w
  <2> QED
    BY <1>2, <1>3, <2>1, AtParts
<1>6. Starts(s, block, n, w, index, pattern)
  BY <1>5, StartsWith
<1> DEFINE read == ReadInteger(block, s.pos, n)
           at == s.pos + Len(w)
           vat == s.pos + Len(w \o nb)
           nm == NameOfLiteral(s, block, read)
           known == PeerEntry(p, index)
           got == IF index = 0 THEN name ELSE known.name
<1> HIDE DEF w
<1>7. /\ read = Got(index, at) /\ at \in 1..(Len(block) + 1) /\ ~Over(s, block) /\ at \in Nat /\ at >= 1
      /\ block[s.pos] \in pattern..(pattern + (2 ^ n - 1))
  BY <1>2, <1>4, <1>6, SMTT(40) DEF Starts
<1>8. vat = at + Len(nb) /\ vat \in Nat /\ vat >= 1
  BY <1>2, <1>4
<1> HIDE DEF read, at, vat
<1>9. read.error = "none" /\ read.v = index /\ read.pos = at
  BY <1>7 DEF Got
<1>10. nm.error = "none" => nm.v \in Seq(Bytes) /\ nm.pos \in Nat /\ nm.pos >= 1
  <2>1. read.v \in Nat /\ read.pos \in 1..(Len(block) + 1) /\ read.pos = at
    BY <1>3, <1>7, <1>9
  <2>2. nm.error = "none" => nm.v \in Seq(Bytes) /\ nm.pos \in read.pos..(Len(block) + 1)
    BY <2>1, NameIs
  <2> HIDE DEF nm
  <2> QED
    BY <1>2, <1>7, <2>1, <2>2
<1>11. e = [name |-> got, value |-> value]
  BY DEF LiteralEntry
<1>12. nm.error = "none" => nm.v # got \/ Misread(ReadString(block, nm.pos), value)
  <2>1. CASE index = 0 /\ Garbles(nb, name)
    <3>1. nm = ReadString(block, at)
      BY <1>9, <2>1 DEF NameOfLiteral
    <3>2. Misread(ReadString(block, at), name)
      <4>1. At(block, at, nb)
        BY <1>5 DEF at
      <4> QED
        BY <1>7, <2>1, <4>1, GarblesThere
    <3> HIDE DEF nm
    <3> QED
      BY <2>1, <3>1, <3>2 DEF Misread
  <2>2. CASE (index = 0 => Spells(nb, name)) /\ (index # 0 => nb = << >>) /\ Garbles(vb, value)
    <3>1. nm.pos = vat
      <4>1. CASE index = 0
        <5>1. nm = ReadString(block, at)
          BY <1>9, <4>1 DEF NameOfLiteral
        <5>2. Spells(nb, name) /\ At(block, at, nb)
          BY <1>5, <2>2, <4>1 DEF at
        <5>3. ReadString(block, at) = Got(name, at + Len(nb))
          BY <1>7, <5>2, SpellsThere
        <5>4. nm = [error |-> "none", v |-> name, pos |-> vat]
          BY <1>8, <5>1, <5>3 DEF Got
        <5> HIDE DEF nm
        <5> QED
          BY <5>4
      <4>2. CASE index # 0
        <5>1. nm = NameAt(Lookup(s.d, index), at)
          BY <1>9, <4>2 DEF NameOfLiteral
        <5>2. nb = << >>
          BY <2>2, <4>2
        <5>3. Len(nb) = 0
          BY <5>2
        <5>4. vat = at
          BY <1>7, <1>8, <5>3
        <5> HIDE DEF nm
        <5>5. nm = [error |-> Lookup(s.d, index).error, v |-> Lookup(s.d, index).entry.name, pos |-> at]
          BY <5>1 DEF NameAt
        <5>6. nm.pos = at
          BY <5>5
        <5> QED
          BY <5>4, <5>6
      <4> QED
        BY <4>1, <4>2
    <3>2. At(block, vat, vb)
      BY <1>4 DEF vat
    <3>3. Misread(ReadString(block, vat), value)
      BY <1>8, <2>2, <3>2, GarblesThere
    <3> HIDE DEF nm
    <3> QED
      BY <3>1, <3>3
  <2> QED
    BY <1>1, <2>1, <2>2
<1>13. Literal(s, block, n) = WithName(s, block, nm)
  <2>1. Literal(s, block, n) = WithIndex(s, block, read)
    BY DEF Literal, read
  <2> QED
    BY <1>9, <2>1 DEF WithIndex, NameOfLiteral
<1>14. LiteralEnds(s, block, Literal(s, block, n))
  BY <1>2, LiteralIs
<1> HIDE DEF nm, got, e
<1>15. WrongLiteral(s, block, WithName(s, block, nm), [name |-> got, value |-> value])
  <2>1. LiteralEnds(s, block, WithName(s, block, nm))
    BY <1>13, <1>14
  <2>2. nm.error = "none" => /\ nm.v \in Seq(Bytes) /\ nm.pos \in Nat /\ nm.pos >= 1
                             /\ nm.v # got \/ Misread(ReadString(block, nm.pos), value)
    BY <1>10, <1>12
  <2> QED
    BY <2>1, <2>2, WrongParts
<1> QED
  BY <1>7, <1>11, <1>13, <1>15 DEF LiteralWrong, e

\* The round, with the table it leaves.
LEMMA RememberedWrong ==
    ASSUME NEW block \in Seq(Bytes), NEW s \in LoopStates(block), s.error = "none", NEW e, NEW lit,
           WrongLiteral(s, block, lit, e)
    PROVE  Wrong(s, lit, e) /\ Wrong(s, Remembered(lit), e)
<1>1. ASSUME NEW x \in Errors, x # "none", lit = Failed(s, x)
      PROVE  Wrong(s, lit, e) /\ Wrong(s, Remembered(lit), e)
  <2>1. lit.error = x
    BY <1>1, FailedIs
  <2>2. Remembered(lit) = lit
    BY <1>1, <2>1 DEF Remembered
  <2> QED
    BY <1>1, <2>1, <2>2 DEF Wrong
<1>2. ASSUME NEW pos \in 1..(Len(block) + 1), NEW h \in Entries, h # e, lit = Advanced(s, pos, h)
      PROVE  Wrong(s, lit, e) /\ Wrong(s, Remembered(lit), e)
  <2> DEFINE o == Append(s.out, h)
             d == Having(Fitting(<<h>> \o s.d.table, s.d.max), s.d.max)
             f == Remembered(lit)
  <2>1. lit = [d |-> s.d, pos |-> pos, out |-> o, error |-> s.error]
    BY <1>2, AdvancedIs
  <2>2. f = [d |-> d, pos |-> pos, out |-> o, error |-> "none"]
    BY <1>2, RememberedIs
  <2> HIDE DEF o, d, f
  <2>3. lit.out = o /\ f.out = o
    BY <2>1, <2>2
  <2> QED
    BY <1>2, <2>3 DEF Wrong, o, f
<1> QED
  BY <1>1, <1>2 DEF WrongLiteral

LEMMA FieldMisread ==
    ASSUME NEW block \in Seq(Bytes), NEW s \in LoopStates(block), s.error = "none", NEW p, Follows(s.d, p),
           NEW o, IsOperation(o), PeerMay(p, o), o.op \in {"with", "without", "never"}, NEW b,
           GarbledBytes(b, Prefix(o.op).bits, Prefix(o.op).pattern, o.index, o.name, o.value),
           At(block, s.pos, b)
    PROVE  ~Over(s, block) /\ Wrong(s, Field(s, block), PeerField(p, o))
<1> DEFINE n == Prefix(o.op).bits
           pattern == Prefix(o.op).pattern
           i == o.index
           nm == o.name
           val == o.value
           e == LiteralEntry(p, i, nm, val)
<1>1. i \in Numbers /\ IsString(nm) /\ IsString(val)
  BY DEF IsOperation
<1>2. nm \in Seq(Bytes) /\ val \in Seq(Bytes)
  BY <1>1, StringBytes
<1>3. i = 0 \/ PeerKnows(p, i)
  BY DEF PeerMay
<1>4. GarbledBytes(b, n, pattern, i, nm, val)
  OBVIOUS
<1>5. PeerField(p, o) = e
  BY DEF PeerField, LiteralEntry
<1>6. IsPattern(n, pattern) /\ (o.op = "with" => n = 6 /\ pattern = 64)
      /\ (o.op # "with" => n = 4 /\ pattern \in {0, 16})
  <2>1. CASE o.op = "with"
    BY <2>1, PrefixIs DEF IsPattern
  <2>2. CASE o.op = "without"
    BY <2>2, PrefixIs DEF IsPattern
  <2>3. CASE o.op = "never"
    BY <2>3, PrefixIs DEF IsPattern
  <2> QED
    BY <2>1, <2>2, <2>3
<1> HIDE DEF n, pattern, i, nm, val
<1>7. LiteralWrong(s, block, n, pattern, e)
  BY <1>1, <1>2, <1>3, <1>4, <1>6, LiteralMisread
<1> HIDE DEF e
<1>8. /\ Wrong(s, Literal(s, block, n), e) /\ Wrong(s, Remembered(Literal(s, block, n)), e)
      /\ block[s.pos] \in pattern..(pattern + (2 ^ n - 1)) /\ ~Over(s, block)
  BY <1>7, RememberedWrong DEF LiteralWrong
<1> DEFINE x == block[s.pos]
<1>9. CASE o.op = "with"
  <2>1. n = 6 /\ pattern = 64
    BY <1>6, <1>9
  <2>2. x \in 64..127
    <3>1. x \in 64..(64 + (2 ^ 6 - 1))
      BY <1>8, <2>1
    <3> HIDE DEF x
    <3> QED
      BY <3>1
  <2>3. Field(s, block) = Remembered(Literal(s, block, 6))
    BY <1>8, <2>2, FieldCases
  <2> QED
    BY <1>5, <1>8, <2>1, <2>3
<1>10. CASE o.op # "with"
  <2>1. n = 4 /\ pattern \in {0, 16}
    BY <1>6, <1>10
  <2>2. x < 32
    <3>1. 2 ^ 4 - 1 = 15
      OBVIOUS
    <3>2. x \in pattern..(pattern + 15)
      BY <1>8, <2>1, <3>1
    <3> HIDE DEF x
    <3> QED
      BY <2>1, <3>2
  <2>3. Field(s, block) = Literal(s, block, 4)
    BY <1>8, <2>2, FieldCases
  <2> QED
    BY <1>5, <1>8, <2>1, <2>3
<1> QED
  BY <1>9, <1>10

\* The bytes of a header that cannot be read are such bytes.
LEMMA HeaderGarbled ==
    ASSUME NEW h, IsHeader(h), EncodeError(h) = "none", ~Readable(h)
    PROVE  LET o == AsOperation(h)
           IN  GarbledBytes(EncodeOne(h), Prefix(o.op).bits, Prefix(o.op).pattern, o.index, o.name, o.value)
<1> DEFINE force == h.force_static_index
           index == IF force = None THEN 0 ELSE force
           op == h.indexing
           ns == WriteString(h.name, h.huffman_name, h.length_bloat_name)
           nb == IF index = 0 THEN ns ELSE << >>
           vb == WriteString(h.value, h.huffman_value, h.length_bloat_value)
           nfits == LengthFits(Len(Coded(h.name, h.huffman_name)), h.length_bloat_name)
           vfits == LengthFits(Len(Coded(h.value, h.huffman_value)), h.length_bloat_value)
           b == (WriteInteger(index, Prefix(op).bits, Prefix(op).pattern, 0) \o nb) \o vb
           o == AsOperation(h)
<1>1. EncodeOne(h) = b
  BY DEF EncodeOne
<1>2. /\ IsString(h.name) /\ IsString(h.value)
      /\ h.length_bloat_name \in Nat /\ h.length_bloat_value \in Nat
  BY DEF IsHeader
<1>3. force = None \/ force \in 1..Len(StaticTable)
  BY ErrorFree
<1>4. (index = 0 => force = None) /\ (index # 0 => force # None)
  <2>1. 0 \notin 1..Len(StaticTable)
    OBVIOUS
  <2> HIDE DEF force
  <2> QED
    BY <1>3, <2>1
<1>5. o.op = op /\ o.index = index /\ o.name = h.name /\ o.value = h.value
  BY DEF AsOperation
<1>6. ns \in Seq(Bytes) /\ (nfits => Spells(ns, h.name)) /\ (~nfits => Garbles(ns, h.name))
  BY <1>2, StringBack, StringGarbled
<1>7. vb \in Seq(Bytes) /\ (~vfits => Garbles(vb, h.value))
  BY <1>2, StringBack, StringGarbled
<1>8. ~vfits \/ (force = None /\ ~nfits)
  BY DEF Readable
<1>9. nb \in Seq(Bytes) /\ (index # 0 => nb = << >>) /\ (index = 0 => nb = ns)
  BY <1>6
<1> HIDE DEF ns, vb, nb, index, force, op, o, nfits, vfits
<1>10. ASSUME index = 0 /\ ~nfits
       PROVE  GarbledBytes(b, Prefix(op).bits, Prefix(op).pattern, index, h.name, h.value)
  BY <1>6, <1>7, <1>9, <1>10, Zenon DEF GarbledBytes, b
<1>11. ASSUME ~(index = 0 /\ ~nfits)
       PROVE  GarbledBytes(b, Prefix(op).bits, Prefix(op).pattern, index, h.name, h.value)
  <2>1. (index = 0 => Spells(nb, h.name)) /\ Garbles(vb, h.value)
    BY <1>4, <1>6, <1>7, <1>8, <1>9, <1>11
  <2> QED
    BY <1>7, <1>9, <2>1, Zenon DEF GarbledBytes, b
<1> HIDE DEF b
<1>12. GarbledBytes(b, Prefix(op).bits, Prefix(op).pattern, index, h.name, h.value)
  BY <1>10, <1>11
<1> QED
  BY <1>1, <1>5, <1>12 DEF o

\* The headers read so far only grow, so a wrong one stays.
Off(f, i, x) == f.error # "none" \/ (f.out \in Seq(Entries) /\ i \in 1..Len(f.out) /\ f.out[i] # x)

LEMMA AppendsOff ==
    ASSUME NEW s, NEW f, NEW i, NEW x, Off(s, i, x), s.error = "none", NEW h \in Entries,
           f.out = Append(s.out, h)
    PROVE  Off(f, i, x)
<1> DEFINE u == s.out
           o == Append(u, h)
<1>1. u \in Seq(Entries) /\ i \in 1..Len(u) /\ u[i] # x
  BY DEF Off
<1> HIDE DEF u
<1>2. o \in Seq(Entries) /\ Len(o) = Len(u) + 1 /\ (\A k \in 1..Len(u) : o[k] = u[k]) /\ Len(u) \in Nat
  BY <1>1
<1> HIDE DEF o
<1>3. i \in 1..Len(o) /\ o[i] # x
  BY <1>1, <1>2
<1>4. f.out = o
  BY DEF o, u
<1> QED
  BY <1>2, <1>3, <1>4 DEF Off

LEMMA LiteralOff ==
    ASSUME NEW block \in Seq(Bytes), NEW s \in LoopStates(block), s.error = "none", NEW i, NEW x,
           Off(s, i, x), NEW lit, LiteralEnds(s, block, lit)
    PROVE  Off(lit, i, x) /\ Off(Remembered(lit), i, x)
<1>0. s.pos \in Nat /\ s.pos >= 1 /\ Len(block) \in Nat
  BY StatesAre
<1>1. ASSUME NEW e \in Errors, e # "none", lit = Failed(s, e)
      PROVE  Off(lit, i, x) /\ Off(Remembered(lit), i, x)
  <2>1. lit.error # "none"
    BY <1>1, FailedIs
  <2>2. Remembered(lit) = lit
    BY <2>1 DEF Remembered
  <2> QED
    BY <2>1, <2>2 DEF Off
<1>2. ASSUME NEW pos \in (s.pos + 1)..(Len(block) + 1), NEW h \in Entries, lit = Advanced(s, pos, h)
      PROVE  Off(lit, i, x) /\ Off(Remembered(lit), i, x)
  <2> DEFINE o == Append(s.out, h)
             d == Having(Fitting(<<h>> \o s.d.table, s.d.max), s.d.max)
             f == Remembered(lit)
  <2>0. pos \in 1..(Len(block) + 1)
    BY <1>0
  <2>1. lit = [d |-> s.d, pos |-> pos, out |-> o, error |-> s.error]
    BY <1>2, <2>0, AdvancedIs
  <2>2. f = [d |-> d, pos |-> pos, out |-> o, error |-> "none"]
    BY <1>2, <2>0, RememberedIs
  <2> HIDE DEF o, d, f
  <2>3. lit.out = o /\ f.out = o
    BY <2>1, <2>2
  <2>4. Off(lit, i, x) /\ Off(f, i, x)
    BY <2>3, AppendsOff DEF o
  <2> QED
    BY <2>4 DEF f
<1> QED
  BY <1>1, <1>2 DEF LiteralEnds

LEMMA OffStays ==
    ASSUME NEW block \in Seq(Bytes), NEW s \in LoopStates(block), NEW i, NEW x, Off(s, i, x)
    PROVE  Off(Round(s, block), i, x)
<1>1. CASE Over(s, block)
  BY <1>1 DEF Round
<1>2. CASE ~Over(s, block)
  <2> DEFINE b == block[s.pos]
             f == Field(s, block)
  <2>1. /\ s.error = "none" /\ b \in 0..255
        /\ b >= 128 => f = Indexed(s, block)
        /\ b \in 64..127 => f = Remembered(Literal(s, block, 6))
        /\ b \in 32..63 => f = SizeUpdate(s, block)
        /\ b < 32 => f = Literal(s, block, 4)
    BY <1>2, FieldCases
  <2>2. LiteralEnds(s, block, Indexed(s, block))
    BY IndexedIs
  <2>3. LiteralEnds(s, block, Literal(s, block, 6)) /\ LiteralEnds(s, block, Literal(s, block, 4))
    <3>1. 6 \in Nat /\ 4 \in Nat
      OBVIOUS
    <3> QED
      BY <3>1, LiteralIs
  <2>4. Round(s, block) = f
    BY <1>2 DEF Round
  <2> HIDE DEF b, f
  <2>5. CASE b >= 128
    BY <2>1, <2>2, <2>4, <2>5, LiteralOff
  <2>6. CASE b \in 64..127
    BY <2>1, <2>3, <2>4, <2>6, LiteralOff
  <2>7. CASE b < 32
    BY <2>1, <2>3, <2>4, <2>7, LiteralOff
  <2>8. CASE b \in 32..63
    <3> DEFINE size == ReadInteger(block, s.pos, 5)
    <3>1. f = Resized(s, size)
      BY <2>1, <2>8 DEF SizeUpdate
    <3>2. f.error # "none" \/ f.out = s.out
      <4>1. s = [d |-> s.d, pos |-> s.pos, out |-> s.out, error |-> s.error]
        BY StatesAre
      <4>2. \A e : Failed(s, e).error = e
        BY <4>1 DEF Failed
      <4> HIDE DEF size
      <4>3. CASE size.error # "none" \/ size.v > s.d.max
        <5>1. (f = Failed(s, size.error) /\ size.error # "none") \/ f = Failed(s, "table_size_too_large")
          BY <3>1, <4>3 DEF Resized
        <5>2. Failed(s, size.error).error = size.error
              /\ Failed(s, "table_size_too_large").error = "table_size_too_large"
          BY <4>2
        <5>3. "table_size_too_large" # "none"
          OBVIOUS
        <5> QED
          BY <5>1, <5>2, <5>3
      <4>4. CASE ~(size.error # "none" \/ size.v > s.d.max)
        <5> DEFINE z == Resize(s.d, size.v)
        <5>1. f = [s EXCEPT !.pos = size.pos, !.d = z]
          BY <3>1, <4>4 DEF Resized
        <5> HIDE DEF z
        <5>2. f.out = s.out
          <6>1. PICK d1, p1, o1, e1 : s = [d |-> d1, pos |-> p1, out |-> o1, error |-> e1]
            BY <4>1
          <6> DEFINE r == [s EXCEPT !.pos = size.pos]
          <6>2. r = [d |-> d1, pos |-> size.pos, out |-> o1, error |-> e1] /\ s.out = o1
            BY <6>1
          <6>3. f = [r EXCEPT !.d = z]
            BY <5>1, <6>1
          <6> HIDE DEF r
          <6>4. [r EXCEPT !.d = z] = [d |-> z, pos |-> size.pos, out |-> o1, error |-> e1]
            BY <6>2
          <6> QED
            BY <6>2, <6>3, <6>4
        <5> QED
          BY <5>2
      <4> QED
        BY <4>3, <4>4
    <3> QED
      BY <2>1, <2>4, <3>2 DEF Off
  <2> QED
    BY <2>1, <2>5, <2>6, <2>7, <2>8
<1> QED
  BY <1>1, <1>2

\* Fields only: each operation of the block gives one.
OnlyFields(ops, n) == \A i \in 1..n : ops[i].op \in {"with", "without", "never"}

LEMMA OutLengths ==
    ASSUME NEW P, NEW ops, NEW n, LegalRun(P, ops, n), OnlyFields(ops, n),
           NEW outs, ConcatRun(outs, Meanings(P, ops, n), Entries)
    PROVE  \A i \in 0..n : outs[i] \in Seq(Entries) /\ Len(outs[i]) = i
<1> DEFINE m == Meanings(P, ops, n)
           U == Seq(Entries)
           T == {i \in 0..n : outs[i] \in U /\ Len(outs[i]) = i}
<1>1. n \in Nat /\ Len(m) = n /\ m \in Seq(U)
  BY PeersAre DEF LegalRun
<1>2. /\ outs \in [0..n -> U] /\ outs[0] = << >>
      /\ \A i \in 1..n : outs[i] = outs[i - 1] \o m[i]
  <2> HIDE DEF m
  <2> QED
    BY <1>1 DEF ConcatRun, m
<1>3. \A i \in 1..n : m[i] = <<PeerField(P[i - 1], ops[i])>>
  <2>1. ASSUME NEW i \in 1..n
        PROVE  m[i] = <<PeerField(P[i - 1], ops[i])>>
    <3>1. m[i] = Meaning(P[i - 1], ops[i])
      BY DEF Meanings
    <3>2. ops[i].op # "update"
      <4>1. ops[i].op \in {"with", "without", "never"}
        BY DEF OnlyFields
      <4> QED
        BY <4>1
    <3> HIDE DEF m
    <3> QED
      BY <3>1, <3>2 DEF Meaning
  <2> QED
    BY <2>1
<1> HIDE DEF m
<1>4. 0 \in T
  <2>1. << >> \in U /\ Len(<< >>) = 0 /\ 0 \in 0..n
    BY <1>1
  <2> QED
    BY <1>2, <2>1
<1>5. ASSUME NEW i \in 1..n, i - 1 \in T
      PROVE  i \in T
  <2> DEFINE x == PeerField(P[i - 1], ops[i])
             a == outs[i - 1]
  <2>0. i \in 0..n
    BY <1>1
  <2>1. outs[i] = a \o m[i] /\ m[i] = <<x>>
    <3> HIDE DEF x
    <3> QED
      BY <1>2, <1>3 DEF x
  <2>2. a \in U /\ Len(a) = i - 1
    BY <1>5
  <2>3. outs[i] \in U
    <3> HIDE DEF U
    <3> QED
      BY <1>2, <2>0
  <2> HIDE DEF x, a
  <2>4. Len(a \o <<x>>) = Len(a) + 1
    BY <2>2
  <2> DEFINE z == outs[i]
  <2> HIDE DEF z
  <2>5. Len(z) = i
    BY <1>1, <2>1, <2>2, <2>4 DEF z
  <2> QED
    BY <2>0, <2>3, <2>5 DEF z
<1> HIDE DEF T
<1>6. 0..n \subseteq T
  BY <1>1, <1>4, <1>5, UpTo
<1> QED
  BY <1>6 DEF T

\* A block of which the part behind the first l is garbled is refused or read
\* with another header in that place.
LEMMA BlockOff ==
    ASSUME NEW P, NEW ops, NEW n, LegalRun(P, ops, n), OnlyFields(ops, n),
           NEW f, NEW l, Sends(P, f, ops, n, l), l < n, NEW d, Follows(d, P[0]), NEW o, o = ops[l + 1],
           GarbledBytes(f[l + 1], Prefix(o.op).bits, Prefix(o.op).pattern, o.index, o.name, o.value)
    PROVE  Off(DecodeHeaders(d, Concat(f)), l + 1, PeerField(P[l], o))
<1> DEFINE block == Concat(f)
           m == Meanings(P, ops, n)
           x == PeerField(P[l], o)
           N == Len(block)
<1>1. f \in Seq(Seq(Bytes)) /\ m \in Seq(Seq(Entries)) /\ Bounded(d)
  BY PeersAre DEF Sends, Follows
<1>2. block \in Seq(Bytes)
  BY <1>1, SentBytes
<1>3. PICK q : ConcatRun(q, f, Bytes)
  BY <1>1, ConcatRuns
<1>4. PICK outs : ConcatRun(outs, m, Entries)
  <2> HIDE DEF m
  <2> QED
    BY <1>1, ConcatRuns
<1> HIDE DEF block
<1>5. block = Concat(f)
  BY DEF block
<1>6. PICK r : LoopRun(r, d, block) /\ DecodeHeaders(d, block) = r[N]
  BY <1>1, <1>2, DecodeRuns
<1>7. NextRound(r, block, P, outs, f, l)
  BY <1>3, <1>4, <1>5, <1>6, BlockNext
<1> DEFINE s == r[l]
<1>8. /\ s \in LoopStates(block) /\ s.error = "none" /\ Follows(s.d, P[l]) /\ s.out = outs[l]
      /\ At(block, s.pos, f[l + 1])
      /\ ~Over(s, block) => l + 1 \in 1..N /\ r[l + 1] = Field(s, block)
  BY <1>7 DEF NextRound
<1>9. l \in Nat /\ l \in 0..n /\ l + 1 \in 1..n /\ n \in Nat
  BY DEF Sends, LegalRun
<1>10. IsOperation(o) /\ PeerMay(P[l], o) /\ o.op \in {"with", "without", "never"}
  <2>1. RunsBy(P, ops, l + 1)
    BY <1>9 DEF LegalRun
  <2>2. (l + 1) - 1 = l
    BY <1>9
  <2> QED
    BY <1>9, <2>1, <2>2 DEF RunsBy, OnlyFields
<1>11. s.out \in Seq(Entries) /\ Len(s.out) = l
  <2>1. \A i \in 0..n : outs[i] \in Seq(Entries) /\ Len(outs[i]) = i
    BY <1>4, OutLengths
  <2> QED
    BY <1>8, <1>9, <2>1
<1> HIDE DEF s
<1>12. ~Over(s, block) /\ Wrong(s, Field(s, block), x)
  BY <1>2, <1>8, <1>10, FieldMisread
<1> HIDE DEF x
<1>13. Off(r[l + 1], l + 1, x)
  <2> DEFINE g == Field(s, block)
  <2>1. r[l + 1] = g
    BY <1>8, <1>12
  <2>2. ASSUME NEW h \in Entries, h # x, g.out = Append(s.out, h)
        PROVE  Off(g, l + 1, x)
    <3> DEFINE u == s.out
               a == Append(u, h)
    <3>1. u \in Seq(Entries) /\ Len(u) = l
      BY <1>11
    <3> HIDE DEF u
    <3>2. a \in Seq(Entries) /\ l + 1 \in 1..Len(a) /\ a[l + 1] = h
      BY <1>9, <3>1
    <3>3. g.out = a
      BY <2>2 DEF u
    <3> HIDE DEF a, g
    <3> QED
      BY <2>2, <3>2, <3>3 DEF Off
  <2>3. Wrong(s, g, x)
    BY <1>12
  <2> HIDE DEF g
  <2>4. Off(g, l + 1, x)
    BY <2>2, <2>3 DEF Wrong, Off
  <2> QED
    BY <2>1, <2>4
<1>14. N \in Nat /\ l + 1 \in 1..N
  BY <1>2, <1>8, <1>12, BytesAre
<1> DEFINE T == {k \in Nat : (l + 1) + k <= N => Off(r[(l + 1) + k], l + 1, x)}
<1>15. 0 \in T
  <2>1. (l + 1) + 0 = l + 1
    BY <1>9
  <2> QED
    BY <1>13, <2>1
<1>16. ASSUME NEW k \in 1..(N - (l + 1)), k - 1 \in T
       PROVE  k \in T
  <2> DEFINE j == (l + 1) + k
  <2>1. j \in 1..N /\ j - 1 = (l + 1) + (k - 1) /\ j - 1 <= N /\ j - 1 \in 0..N /\ k \in Nat
    BY <1>9, <1>14
  <2>2. Off(r[j - 1], l + 1, x)
    BY <1>16, <2>1
  <2>3. r[j] = Round(r[j - 1], block) /\ r[j - 1] \in LoopStates(block)
    BY <1>6, <2>1 DEF LoopRun
  <2>4. Off(r[j], l + 1, x)
    BY <1>2, <2>2, <2>3, OffStays
  <2> QED
    BY <2>1, <2>4
<1> HIDE DEF T
<1>17. N - (l + 1) \in T
  <2>1. N - (l + 1) \in Nat /\ N - (l + 1) \in 0..(N - (l + 1))
    BY <1>9, <1>14
  <2>2. 0..(N - (l + 1)) \subseteq T
    BY <1>15, <1>16, <2>1, UpTo
  <2> QED
    BY <2>1, <2>2
<1>18. Off(r[N], l + 1, x)
  <2>1. (l + 1) + (N - (l + 1)) = N /\ N <= N
    BY <1>9, <1>14
  <2> QED
    BY <1>17, <2>1 DEF T
<1> QED
  BY <1>6, <1>18 DEF block, x

LEMMA Singles ==
    ASSUME NEW e \in Seq(Entries)
    PROVE  Concat([i \in 1..Len(e) |-> <<e[i]>>]) = e
<1> DEFINE n == Len(e)
           S == Seq(Entries)
           m == [i \in 1..n |-> <<e[i]>>]
<1>1. n \in Nat /\ \A i \in 1..n : e[i] \in Entries
  OBVIOUS
<1>2. \A i \in 1..n : <<e[i]>> \in S
  BY <1>1
<1> HIDE DEF S
<1>3. m \in Seq(S) /\ Len(m) = n
  <2>1. m \in [1..n -> S]
    BY <1>2
  <2> HIDE DEF m
  <2> QED
    BY <1>1, <2>1
<1>4. \A i \in 1..n : m[i] = <<e[i]>>
  OBVIOUS
<1> HIDE DEF m
<1>5. PICK outs : ConcatRun(outs, m, Entries)
  BY <1>3, ConcatRuns DEF S
<1>6. outs[0] = << >> /\ Concat(m) = outs[n] /\ \A i \in 1..n : outs[i] = outs[i - 1] \o <<e[i]>>
  BY <1>3, <1>4, <1>5 DEF ConcatRun
<1> DEFINE u == [i \in 0..n |-> SubSeq(e, 1, i)]
<1>7. \A i \in 0..n : u[i] = SubSeq(e, 1, i)
  OBVIOUS
<1> HIDE DEF u
<1>8. u[0] = << >> /\ u[n] = e
  <2>1. 0 \in 0..n /\ n \in 0..n
    BY <1>1
  <2>2. SubSeq(e, 1, 0) = << >> /\ SubSeq(e, 1, Len(e)) = e
    BY WholePrefix
  <2> QED
    BY <1>7, <2>1, <2>2
<1>9. ASSUME NEW i \in 1..n
      PROVE  u[i] = u[i - 1] \o <<e[i]>>
  <2>1. i \in 0..n /\ i - 1 \in 0..n
    BY <1>1
  <2> DEFINE a == SubSeq(e, 1, i - 1)
             x == e[i]
  <2>2. a \in Seq(Entries) /\ x \in Entries /\ SubSeq(e, 1, i) = Append(a, x)
    BY PrefixStep
  <2>3. u[i] = SubSeq(e, 1, i) /\ u[i - 1] = a
    BY <1>7, <2>1
  <2> HIDE DEF a, x
  <2>4. Append(a, x) = a \o <<x>>
    BY <2>2, AppendIsConcat
  <2> QED
    BY <2>2, <2>3, <2>4 DEF x
<1>10. Alike(outs, u, n)
  BY <1>1, <1>6, <1>8, <1>9 DEF Alike
<1>11. \A i \in 0..n : outs[i] = u[i]
  BY <1>10, Agree
<1>12. outs[n] = e
  BY <1>1, <1>8, <1>11
<1> QED
  BY <1>6, <1>12 DEF m

\* The books, the peer, and whether the two know the same table: what every
\* call keeps.
SyncInv ==
    /\ Bounded(Decoder) /\ PeerIs(peer)
    /\ blocks \in Nat /\ (blocks = 0 => synced)
    /\ synced => dynamic_table = peer.table /\ max_table_size = peer.max

LEMMA SyncedFollows ==
    ASSUME SyncInv, synced
    PROVE  Follows(Decoder, peer)
<1>1. Decoder.table = dynamic_table /\ Decoder.max = max_table_size
  BY DEF Decoder
<1>2. peer \in Peers
  BY DEF SyncInv, PeerIs, Follows
<1> QED
  BY <1>1, <1>2 DEF SyncInv, Follows

\* The run of the peer over a block it may send.
LEMMA PeerStarts ==
    ASSUME SyncInv, NEW ops, NEW n \in Nat, NEW P, PeerRun(P, ops, n), \A i \in 1..n : IsOperation(ops[i]),
           \A i \in 1..n : PeerMay(P[i - 1], ops[i])
    PROVE  LegalRun(P, ops, n) /\ P[0] = peer /\ PeerIs(PeerThrough(ops, n)) /\ PeerThrough(ops, n) = P[n]
<1>1. /\ P[0] = peer /\ \A i \in 1..n : P[i] = PeerAfter(P[i - 1], ops[i])
      /\ \A i \in 0..n : PeerThrough(ops, i) = P[i]
  BY DEF PeerRun
<1>2. PeerIs(P[0])
  BY <1>1 DEF SyncInv
<1>3. LegalRun(P, ops, n)
  BY <1>1, <1>2 DEF LegalRun, RunsBy
<1>4. \A i \in 0..n : PeerIs(P[i])
  BY <1>3, PeersAre
<1>5. n \in 0..n
  OBVIOUS
<1> QED
  BY <1>1, <1>3, <1>4, <1>5

\* The decoder after a block, whatever its bytes.
LEMMA DecodeKeeps ==
    ASSUME NEW d, Bounded(d), NEW block \in Seq(Bytes)
    PROVE  DecodeHeaders(d, block) \in LoopStates(block)
<1>1. PICK r : LoopRun(r, d, block) /\ DecodeHeaders(d, block) = r[Len(block)]
  BY DecodeRuns
<1>2. Len(block) \in 0..Len(block)
  <2>1. Len(block) \in Nat
    BY BytesAre
  <2> QED
    BY <2>1
<1> QED
  BY <1>1, <1>2 DEF LoopRun

\* A block of the peer, from which bytes may be missing.
PeerBlock(ops) == Concat([i \in 1..Len(ops) |-> PeerBytes(ops[i])])
GotAll(read, p, fields) ==
    read.error = "none" /\ read.out = fields /\ read.d.table = p.table /\ read.d.max = p.max

LEMMA PeerReceived ==
    ASSUME SyncInv, NEW ops \in PeerBlocks, Legal(ops), NEW missing \in Nat,
           NEW read, read = DecodeHeaders(Decoder, Cut(PeerBlock(ops), missing))
    PROVE  /\ Bounded(read.d) /\ PeerIs(PeerThrough(ops, Len(ops)))
           /\ (synced /\ missing = 0 /\ ~RaisesIn(ops)) => GotAll(read, PeerThrough(ops, Len(ops)), Fields(ops))
           /\ (synced /\ missing = 0 /\ RaisesIn(ops)) => read.error = "table_size_too_large"
           /\ (synced /\ read.error = "none") => IsPrefix(read.out, Fields(ops))
<1> DEFINE n == Len(ops)
           S == Seq(Bytes)
           f == [i \in 1..n |-> PeerBytes(ops[i])]
           block == Concat(f)
           short == Cut(block, missing)
<1>1. n \in Nat /\ \A i \in 1..n : IsOperation(ops[i])
  BY BlocksAssumption
<1>2. \A i \in 1..n : PeerBytes(ops[i]) \in S /\ Represents(PeerBytes(ops[i]), ops[i])
  BY <1>1, PeerWrites
<1> HIDE DEF n
<1>3. f \in Seq(S) /\ Len(f) = n
  <2> HIDE DEF S
  <2>1. f \in [1..n -> S]
    BY <1>2
  <2> HIDE DEF f
  <2> QED
    BY <1>1, <2>1
<1>4. \A i \in 1..n : Represents(f[i], ops[i])
  <2>1. \A i \in 1..n : f[i] = PeerBytes(ops[i])
    OBVIOUS
  <2> HIDE DEF f
  <2> QED
    BY <1>2, <2>1
<1> HIDE DEF f
<1>5. block \in Seq(Bytes)
  BY <1>3, SentBytes
<1>6. read = DecodeHeaders(Decoder, short)
  BY DEF PeerBlock, f, n
<1> HIDE DEF short
<1>7. Extends(block, short) /\ (missing = 0 => short = block) /\ short \in Seq(Bytes)
  <2>1. Extends(block, short) /\ (missing = 0 => short = block)
    <3> HIDE DEF block
    <3> QED
      BY <1>5, CutIs DEF short
  <2> QED
    BY <2>1 DEF Extends
<1>8. Bounded(read.d)
  <2>1. read \in LoopStates(short)
    BY <1>6, <1>7, DecodeKeeps DEF SyncInv
  <2> QED
    BY <1>7, <2>1, StatesAre
<1>9. PICK P : PeerRun(P, ops, n)
  BY <1>1, PeerRuns
<1>10. \A i \in 0..n : PeerThrough(ops, i) = P[i]
  BY <1>9 DEF PeerRun
<1>11. \A i \in 1..n : PeerThrough(ops, i - 1) = P[i - 1]
  <2>1. \A i \in 1..n : i - 1 \in 0..n
    BY <1>1
  <2> QED
    BY <1>10, <2>1
<1>12. \A i \in 1..n : PeerMay(P[i - 1], ops[i])
  <2>1. \A i \in 1..n : PeerMay(PeerThrough(ops, i - 1), ops[i])
    BY DEF Legal, n
  <2> QED
    BY <1>11, <2>1
<1>13. /\ LegalRun(P, ops, n) /\ P[0] = peer /\ PeerIs(PeerThrough(ops, n)) /\ PeerThrough(ops, n) = P[n]
  BY <1>1, <1>9, <1>12, PeerStarts
<1>14. Fields(ops) = Concat(Meanings(P, ops, n))
  <2> DEFINE g == [i \in 1..n |-> IF ops[i].op = "update" THEN << >>
                                  ELSE <<PeerField(PeerThrough(ops, i - 1), ops[i])>>]
  <2>1. Fields(ops) = Concat(g)
    BY DEF Fields, n
  <2>2. g = Meanings(P, ops, n)
    BY <1>11 DEF Meanings, Meaning
  <2> QED
    BY <2>1, <2>2
<1>15. synced => Follows(Decoder, P[0])
  BY <1>13, SyncedFollows
<1> DEFINE R == {i \in 1..n : Raises(P[i - 1], ops[i])}
<1>16. RaisesIn(ops) <=> R # {}
  BY <1>11 DEF RaisesIn, n
<1>17. PICK l \in 0..n : /\ \A i \in 1..l : ~Raises(P[i - 1], ops[i])
                         /\ R = {} => l = n
                         /\ R # {} => l < n /\ Raises(P[l], ops[l + 1])
  <2>1. CASE R = {}
    BY <1>1, <2>1
  <2>2. CASE R # {}
    <3> DEFINE m == Min(R)
    <3>1. m \in R /\ \A j \in R : m <= j
      <4>1. R \subseteq Nat
        OBVIOUS
      <4> HIDE DEF R
      <4> QED
        BY <2>2, <4>1, Least
    <3> HIDE DEF m
    <3>2. m \in 1..n /\ Raises(P[m - 1], ops[m])
      BY <3>1
    <3>3. m - 1 \in 0..n /\ m - 1 < n /\ (m - 1) + 1 = m
      BY <1>1, <3>2
    <3>4. ASSUME NEW i \in 1..(m - 1)
          PROVE  ~Raises(P[i - 1], ops[i])
      <4>1. i \in 1..n /\ ~(m <= i)
        BY <1>1, <3>2
      <4> QED
        BY <3>1, <4>1
    <3>5. Raises(P[m - 1], ops[(m - 1) + 1])
      BY <3>2, <3>3
    <3> QED
      BY <2>2, <3>3, <3>4, <3>5
  <2> QED
    BY <2>1, <2>2
<1> HIDE DEF R
<1>18. l <= n /\ \A i \in 1..l : i \in 1..n
  BY <1>1, <1>17
<1>19. Sends(P, f, ops, n, l)
  BY <1>3, <1>4, <1>17, <1>18 DEF Sends, IsSaid, S
<1>20. l < n => Raises(P[l], ops[l + 1]) /\ Represents(f[l + 1], ops[l + 1])
  <2>1. ASSUME l < n
        PROVE  Raises(P[l], ops[l + 1]) /\ l + 1 \in 1..n
    BY <1>1, <1>17, <2>1
  <2> QED
    BY <1>4, <2>1
<1>21. ASSUME synced, missing = 0, ~RaisesIn(ops)
       PROVE  GotAll(read, PeerThrough(ops, n), Fields(ops))
  <2>1. Sends(P, f, ops, n, n)
    BY <1>16, <1>17, <1>19, <1>21
  <2>2. Comes(DecodeHeaders(Decoder, block), block, Len(block) + 1, Concat(Meanings(P, ops, n)), P[n])
    BY <1>13, <1>15, <1>21, <2>1, BlockBack
  <2>3. Comes(read, block, Len(block) + 1, Fields(ops), P[n])
    BY <1>6, <1>7, <1>14, <1>21, <2>2
  <2>4. read.error = "none" /\ read.out = Fields(ops) /\ read.d.table = P[n].table /\ read.d.max = P[n].max
    BY <2>3 DEF Comes, Follows
  <2> QED
    BY <1>13, <2>4 DEF GotAll
<1>22. ASSUME synced, missing = 0, RaisesIn(ops)
       PROVE  read.error = "table_size_too_large"
  <2>1. l < n /\ Raises(P[l], ops[l + 1]) /\ Represents(f[l + 1], ops[l + 1])
    BY <1>16, <1>17, <1>20, <1>22
  <2>2. Follows(Decoder, P[0])
    BY <1>15, <1>22
  <2>3. DecodeHeaders(Decoder, Concat(f)).error = "table_size_too_large"
    BY <1>13, <1>19, <2>1, <2>2, BlockRefused
  <2> QED
    BY <1>6, <1>7, <1>22, <2>3
<1>23. ASSUME synced, read.error = "none"
       PROVE  IsPrefix(read.out, Fields(ops))
  BY <1>6, <1>7, <1>13, <1>14, <1>15, <1>19, <1>20, <1>23, CutBack
<1> QED
  BY <1>8, <1>13, <1>21, <1>22, <1>23 DEF n

\* A block of the encoder, read back as given if and only if each header is readable.
Ops(headers) == [i \in 1..Len(headers) |-> AsOperation(headers[i])]

LEMMA OwnReceived ==
    ASSUME SyncInv, synced, NEW headers \in HeaderLists, EncodeHeaders(headers).error = "none",
           NEW read, read = DecodeHeaders(Decoder, EncodeHeaders(headers).block)
    PROVE  /\ Bounded(read.d) /\ PeerIs(PeerThrough(Ops(headers), Len(Ops(headers))))
           /\ (\A i \in 1..Len(headers) : Readable(headers[i])) =>
                 GotAll(read, PeerThrough(Ops(headers), Len(Ops(headers))), Given(headers))
           /\ ~(\A i \in 1..Len(headers) : Readable(headers[i])) =>
                 read.error # "none" \/ read.out # Given(headers)
<1> DEFINE n == Len(headers)
           S == Seq(Bytes)
           f == Encodes(headers)
           block == Concat(f)
           ops == Ops(headers)
<1>1. n \in Nat /\ \A i \in 1..n : IsHeader(headers[i])
  BY HeadersAssumption
<1>2. (\A i \in 1..n : EncodeError(headers[i]) = "none") /\ EncodeHeaders(headers).block = block
  BY <1>1, BlockEncoded
<1>3. ASSUME NEW i \in 1..n
      PROVE  /\ EncodeOne(headers[i]) \in S /\ IsOperation(AsOperation(headers[i]))
             /\ Readable(headers[i]) => Represents(EncodeOne(headers[i]), AsOperation(headers[i]))
  BY <1>1, <1>2, HeaderWritten
<1>4. (\A i \in 1..n : ops[i] = AsOperation(headers[i])) /\ Len(ops) = n
  <2>1. ops = [i \in 1..n |-> AsOperation(headers[i])]
    BY DEF Ops
  <2> HIDE DEF ops, n
  <2> QED
    BY <1>1, <2>1
<1>5. f = [i \in 1..n |-> EncodeOne(headers[i])]
  BY DEF Encodes
<1> HIDE DEF n, ops, f
<1>6. f \in Seq(S) /\ Len(f) = n /\ \A i \in 1..n : f[i] = EncodeOne(headers[i])
  <2> HIDE DEF S
  <2>1. f \in [1..n -> S] /\ \A i \in 1..n : f[i] = EncodeOne(headers[i])
    BY <1>3, <1>5
  <2> QED
    BY <1>1, <2>1
<1>7. block \in Seq(Bytes)
  BY <1>6, SentBytes
<1>8. read = DecodeHeaders(Decoder, block)
  BY <1>2
<1>9. Bounded(read.d)
  <2>1. read \in LoopStates(block)
    <3> HIDE DEF block
    <3> QED
      BY <1>7, <1>8, DecodeKeeps DEF SyncInv
  <2> HIDE DEF block
  <2> QED
    BY <1>7, <2>1, StatesAre
<1>10. PICK P : PeerRun(P, ops, n)
  BY <1>1, PeerRuns
<1>11. P[0] = peer /\ \A i \in 1..n : P[i] = PeerAfter(P[i - 1], ops[i])
  BY <1>10 DEF PeerRun
<1> DEFINE T == {i \in 0..n : PeerIs(P[i])}
<1>12. 0..n \subseteq T
  <2>1. 0 \in T
    BY <1>1, <1>11 DEF SyncInv
  <2>2. ASSUME NEW i \in 1..n, i - 1 \in T
        PROVE  i \in T
    <3>1. PeerIs(P[i - 1]) /\ IsHeader(headers[i]) /\ EncodeError(headers[i]) = "none"
      BY <1>1, <1>2, <2>2 DEF n
    <3>2. PeerMay(P[i - 1], ops[i]) /\ IsOperation(ops[i])
      BY <1>3, <1>4, <3>1, HeaderMeans
    <3>3. PeerIs(P[i])
      BY <1>11, <3>1, <3>2, PeerKeeps
    <3> QED
      BY <3>3
  <2> HIDE DEF T
  <2> QED
    BY <1>1, <2>1, <2>2, UpTo
<1>13. ASSUME NEW i \in 1..n
       PROVE  /\ PeerMay(P[i - 1], ops[i])
              /\ Meaning(P[i - 1], ops[i]) = << [name |-> NameOf(headers[i]), value |-> headers[i].value] >>
  <2>1. i - 1 \in 0..n
    BY <1>1
  <2>2. PeerIs(P[i - 1]) /\ IsHeader(headers[i]) /\ EncodeError(headers[i]) = "none"
    BY <1>1, <1>2, <1>12, <2>1 DEF n
  <2> QED
    BY <1>4, <2>2, HeaderMeans
<1>14. LegalRun(P, ops, n) /\ P[0] = peer /\ PeerIs(PeerThrough(ops, n)) /\ PeerThrough(ops, n) = P[n]
  <2>1. (\A i \in 1..n : PeerMay(P[i - 1], ops[i])) /\ \A i \in 1..n : IsOperation(ops[i])
    BY <1>3, <1>4, <1>13
  <2> QED
    BY <1>1, <1>10, <2>1, PeerStarts
<1> DEFINE e == Given(headers)
<1>15. Concat(Meanings(P, ops, n)) = e
  <2> DEFINE m == Meanings(P, ops, n)
  <2>1. e = [i \in 1..n |-> [name |-> NameOf(headers[i]), value |-> headers[i].value]]
    BY DEF Given, n
  <2> HIDE DEF e
  <2>2. m = [i \in 1..n |-> <<e[i]>>]
    BY <1>13, <2>1 DEF Meanings
  <2>3. e \in Seq(Entries) /\ Len(e) = n
    <3>1. ASSUME NEW i \in 1..n
          PROVE  e[i] \in Entries
      <4>1. m \in Seq(Seq(Entries)) /\ Len(m) = n
        BY <1>14, PeersAre
      <4> DEFINE U == Seq(Entries)
      <4> HIDE DEF U, m
      <4>2. m[i] \in U
        BY <1>1, <4>1, ElementOfSeq DEF U
      <4>3. <<e[i]>> \in Seq(Entries)
        BY <2>2, <4>2 DEF U
      <4> DEFINE x == e[i]
      <4> HIDE DEF x
      <4>4. <<x>> \in Seq(Entries)
        BY <4>3 DEF x
      <4>5. x \in Entries
        BY <4>4
      <4> QED
        BY <4>5 DEF x
    <3>2. e \in [1..n -> Entries]
      BY <2>1, <3>1
    <3> QED
      BY <1>1, <3>2
  <2>4. Concat([i \in 1..Len(e) |-> <<e[i]>>]) = e
    BY <2>3, Singles
  <2> QED
    BY <2>2, <2>3, <2>4
<1>18. \A i \in 1..n : e[i] = PeerField(P[i - 1], ops[i])
  <2>1. ASSUME NEW i \in 1..n
        PROVE  e[i] = PeerField(P[i - 1], ops[i])
    <3> DEFINE x == [name |-> NameOf(headers[i]), value |-> headers[i].value]
               y == PeerField(P[i - 1], ops[i])
    <3>1. e[i] = x
      BY DEF Given, n
    <3>2. Meaning(P[i - 1], ops[i]) = <<x>>
      BY <1>13
    <3>3. Meaning(P[i - 1], ops[i]) = <<y>>
      <4>1. AsOperation(headers[i]).op \in {"with", "without", "never"}
        BY <1>1 DEF AsOperation, IsHeader, n
      <4>2. ops[i].op # "update"
        BY <1>4, <4>1
      <4> QED
        BY <4>2 DEF Meaning
    <3> HIDE DEF e, x, y
    <3>4. x = y
      BY <3>2, <3>3
    <3> QED
      BY <3>1, <3>4 DEF y
  <2> QED
    BY <2>1
<1> HIDE DEF e
<1>19. OnlyFields(ops, n)
  <2>1. \A i \in 1..n : AsOperation(headers[i]).op \in {"with", "without", "never"}
    BY <1>1 DEF AsOperation, IsHeader, n
  <2> QED
    BY <1>4, <2>1 DEF OnlyFields
<1>17. \A i \in 1..n : ~Raises(P[i - 1], ops[i])
  <2>1. \A i \in 1..n : ops[i].op # "update"
    <3>1. "update" \notin {"with", "without", "never"}
      OBVIOUS
    <3> QED
      BY <1>19, <3>1 DEF OnlyFields
  <2> QED
    BY <2>1 DEF Raises
<1>16. ASSUME \A i \in 1..n : Readable(headers[i])
       PROVE  GotAll(read, PeerThrough(ops, n), e)
  <2>0. n \in 0..n /\ \A i \in 1..n : f[i] = EncodeOne(headers[i]) /\ ops[i] = AsOperation(headers[i])
    BY <1>1, <1>4, <1>6
  <2>1. Sends(P, f, ops, n, n)
    BY <1>3, <1>6, <1>16, <1>17, <2>0 DEF Sends, IsSaid, S
  <2>2. Follows(Decoder, P[0])
    BY <1>14, SyncedFollows
  <2>3. Comes(DecodeHeaders(Decoder, block), block, Len(block) + 1, Concat(Meanings(P, ops, n)), P[n])
    BY <1>14, <2>1, <2>2, BlockBack
  <2>4. Comes(read, block, Len(block) + 1, e, P[n])
    BY <1>8, <1>15, <2>3
  <2>5. read.error = "none" /\ read.out = e /\ read.d.table = P[n].table /\ read.d.max = P[n].max
    BY <2>4 DEF Comes, Follows
  <2> QED
    BY <1>14, <2>5 DEF GotAll
<1>20. ASSUME ~(\A i \in 1..n : Readable(headers[i]))
       PROVE  read.error # "none" \/ read.out # e
  <2> DEFINE I == {i \in 1..n : ~Readable(headers[i])}
             i == Min(I)
             l == i - 1
             o == ops[l + 1]
  <2>1. i \in I /\ \A j \in I : i <= j
    <3>1. I \subseteq Nat /\ I # {}
      BY <1>20
    <3> HIDE DEF I
    <3> QED
      BY <3>1, Least
  <2> HIDE DEF i
  <2>2. /\ i \in 1..n /\ ~Readable(headers[i]) /\ l \in 0..n /\ l < n /\ l + 1 = i
        /\ \A j \in 1..l : j \in 1..n /\ Readable(headers[j])
    <3>1. i \in 1..n /\ ~Readable(headers[i])
      BY <2>1
    <3>2. l \in 0..n /\ l < n /\ l + 1 = i
      BY <1>1, <3>1
    <3>3. ASSUME NEW j \in 1..l
          PROVE  j \in 1..n /\ Readable(headers[j])
      <4>1. j \in 1..n /\ ~(i <= j)
        BY <1>1, <3>1
      <4> QED
        BY <2>1, <4>1
    <3> QED
      BY <3>1, <3>2, <3>3
  <2> HIDE DEF l, I
  <2>3. \A j \in 1..n : f[j] = EncodeOne(headers[j]) /\ ops[j] = AsOperation(headers[j])
    BY <1>4, <1>6
  <2>4. Sends(P, f, ops, n, l)
    <3>1. ASSUME NEW j \in 1..l
          PROVE  IsSaid(P, f, ops, j)
      BY <1>3, <1>17, <2>2, <2>3 DEF IsSaid
    <3> QED
      BY <1>6, <2>2, <3>1 DEF Sends, S
  <2>5. Follows(Decoder, P[0])
    BY <1>14, SyncedFollows
  <2>6. GarbledBytes(f[l + 1], Prefix(o.op).bits, Prefix(o.op).pattern, o.index, o.name, o.value)
    <3> DEFINE h == headers[i]
               u == AsOperation(h)
    <3>1. IsHeader(h) /\ EncodeError(h) = "none" /\ ~Readable(h)
      BY <1>1, <1>2, <2>2 DEF n
    <3>2. f[l + 1] = EncodeOne(h) /\ o = u
      BY <2>2, <2>3
    <3> HIDE DEF h, o
    <3>3. GarbledBytes(EncodeOne(h), Prefix(u.op).bits, Prefix(u.op).pattern, u.index, u.name, u.value)
      BY <3>1, HeaderGarbled
    <3> QED
      BY <3>2, <3>3
  <2>7. Off(DecodeHeaders(Decoder, Concat(f)), l + 1, PeerField(P[l], o))
    <3>1. o = ops[l + 1]
      OBVIOUS
    <3> HIDE DEF o
    <3> QED
      BY <1>14, <1>19, <2>2, <2>4, <2>5, <2>6, <3>1, BlockOff
  <2>8. e[i] = PeerField(P[l], o) /\ l + 1 = i
    BY <1>18, <2>2 DEF l
  <2>9. Off(read, i, e[i])
    BY <1>8, <2>7, <2>8
  <2> QED
    BY <2>9 DEF Off
<1> QED
  BY <1>4, <1>9, <1>14, <1>16, <1>20 DEF n, ops, e

-----------------------------------------------------------------------------
(* The connection.                                                         *)

LEMMA SyncInit ==
    Init => SyncInv
<1> SUFFICES ASSUME Init
             PROVE  SyncInv
  OBVIOUS
<1> USE DEF Init, DecoderInit
<1> DEFINE t == << >>
<1>1. t \in Seq(Entries) /\ Announced \in Nat /\ Announced <= Announced
  BY SizesAssumption
<1>2. TableSize(t) = 0
  BY SizeIs
<1>3. Decoder = Having(t, Announced)
  BY <1>2 DEF Decoder, Having
<1>4. Fitting(t, Announced) = t
  <2>1. Len(t) = 0
    OBVIOUS
  <2> HIDE DEF t
  <2>2. PICK k \in 0..Len(t) : Fits(t, Announced, k)
    BY <1>1, SomeFit
  <2>3. Fitting(t, Announced) = SubSeq(t, 1, k)
    BY <1>1, <2>2, FittingIs
  <2>4. k = Len(t)
    BY <2>1, <2>2
  <2> QED
    BY <1>1, <2>3, <2>4, WholePrefix
<1>5. Follows(Having(Fitting(t, Announced), Announced), [table |-> Fitting(t, Announced), max |-> Announced])
  BY <1>1, HavingFollows
<1>6. Follows(Decoder, peer)
  BY <1>3, <1>4, <1>5
<1>7. Bounded(Decoder) /\ PeerIs(peer)
  BY <1>6, FollowedIs DEF Follows
<1> QED
  BY <1>7 DEF SyncInv

LEMMA SyncUnmoved ==
    SyncInv /\ UNCHANGED <<decoderVars, peer, blocks, synced>> => SyncInv'
  BY DEF SyncInv, Decoder, decoderVars

\* After a block.
LEMMA DecodedIs ==
    ASSUME NEW read, Bounded(read.d), Decode(read)
    PROVE  Bounded(Decoder)' /\ dynamic_table' = read.d.table /\ max_table_size' = read.d.max
<1>1. read.d = [table |-> read.d.table, size |-> read.d.size, max |-> read.d.max]
  BY DEF Bounded, Kept, Decoders
<1>2. Decoder' = read.d
  BY <1>1 DEF Decode, Decoder
<1> QED
  BY <1>2 DEF Decode

LEMMA SyncSends ==
    ASSUME SyncInv, NEW ops \in PeerBlocks, NEW missing \in 0..MaxMissing, PeerSends(ops, missing)
    PROVE  SyncInv'
<1> DEFINE read == DecodeHeaders(Decoder, Cut(PeerBlock(ops), missing))
           p == PeerThrough(ops, Len(ops))
<1>1. Legal(ops) /\ Received(ops, missing, read)
  BY DEF PeerSends, PeerBlock
<1>2. missing \in Nat
  BY BlocksAssumption
<1>3. /\ Bounded(read.d) /\ PeerIs(p)
      /\ (synced /\ missing = 0 /\ ~RaisesIn(ops)) => GotAll(read, p, Fields(ops))
  BY <1>1, <1>2, PeerReceived
<1> HIDE DEF read, p
<1>4. /\ Decode(read) /\ blocks' = blocks + 1 /\ peer' = p
      /\ synced' = (synced /\ missing = 0 /\ ~RaisesIn(ops))
  BY <1>1 DEF Received, DecodeBlock, p
<1>5. Bounded(Decoder)' /\ dynamic_table' = read.d.table /\ max_table_size' = read.d.max
  BY <1>3, <1>4, DecodedIs
<1>6. blocks' \in Nat /\ blocks' # 0
  BY <1>4 DEF SyncInv
<1>7. synced' => dynamic_table' = peer'.table /\ max_table_size' = peer'.max
  BY <1>3, <1>4, <1>5, Zenon DEF GotAll
<1> QED
  BY <1>3, <1>4, <1>5, <1>6, <1>7, Zenon DEF SyncInv

LEMMA SyncOwn ==
    ASSUME SyncInv, NEW headers \in HeaderLists, EncodeOwn(headers)
    PROVE  SyncInv'
<1> DEFINE encoded == EncodeHeaders(headers)
           read == DecodeHeaders(Decoder, encoded.block)
           ops == Ops(headers)
           p == PeerThrough(ops, Len(ops))
<1>1. blocks = 0 /\ encoded.error = "none" /\ Loopback(headers, ops, read)
  BY DEF EncodeOwn, Encoded, Ops
<1>2. synced
  BY <1>1, Zenon DEF SyncInv
<1>3. /\ Bounded(read.d) /\ PeerIs(p)
      /\ (\A i \in 1..Len(headers) : Readable(headers[i])) => GotAll(read, p, Given(headers))
  BY <1>1, <1>2, OwnReceived
<1> HIDE DEF read, p
<1>4. /\ Decode(read) /\ blocks' = MaxBlocks /\ peer' = p
      /\ synced' = (synced /\ \A i \in 1..Len(headers) : Readable(headers[i]))
  BY <1>1 DEF Loopback, DecodeBlock, p
<1>5. Bounded(Decoder)' /\ dynamic_table' = read.d.table /\ max_table_size' = read.d.max
  BY <1>3, <1>4, DecodedIs
<1>6. blocks' \in Nat /\ blocks' # 0
  BY <1>4, BlocksAssumption
<1>7. synced' => dynamic_table' = peer'.table /\ max_table_size' = peer'.max
  BY <1>3, <1>4, <1>5, Zenon DEF GotAll
<1> QED
  BY <1>3, <1>4, <1>5, <1>6, <1>7, Zenon DEF SyncInv

LEMMA SyncNext ==
    SyncInv /\ [Next]_vars => SyncInv'
<1> SUFFICES ASSUME SyncInv, [Next]_vars
             PROVE  SyncInv'
  OBVIOUS
<1>1. CASE Return
  BY <1>1, SyncUnmoved DEF Return
<1>2. ASSUME NEW ops \in PeerBlocks, NEW missing \in 0..MaxMissing, PeerSends(ops, missing)
      PROVE  SyncInv'
  BY <1>2, SyncSends
<1>3. ASSUME NEW headers \in HeaderLists, EncodeOwn(headers)
      PROVE  SyncInv'
  BY <1>3, SyncOwn
<1>4. ASSUME Stateless
      PROVE  SyncInv'
  BY <1>4, SyncUnmoved DEF Stateless
<1>5. CASE UNCHANGED vars
  BY <1>5, SyncUnmoved DEF vars, decoderVars
<1>6. CASE Next
  BY <1>1, <1>2, <1>3, <1>4, <1>6
     DEF Next, RefuseHeaders, DecodeString, DecodeInteger, Probe, BuildFrame
<1> QED
  BY <1>5, <1>6

\* What the last call of decode left.
ReadInSync ==
    /\ (synced /\ last.call = "decode") => last.refused = "none" /\ last.read = last.fields
    /\ (last.call = "decode" /\ last.raised) => last.refused = "table_size_too_large"
    /\ (last.call = "decode" /\ last.cut /\ last.refused = "none") => IsPrefix(last.read, last.fields)

LEMMA SyncedBooks ==
    SyncInv /\ ReadInSync => PeerInSync
<1> SUFFICES ASSUME SyncInv, ReadInSync
             PROVE  PeerInSync
  OBVIOUS
<1>1. Decoder.table = dynamic_table /\ Decoder.size = dynamic_table_size /\ Decoder.max = max_table_size
  BY DEF Decoder
<1>2. /\ Decoder.size = TableSize(Decoder.table)
      /\ Decoder.size <= Decoder.max /\ Decoder.max <= Announced
  BY DEF SyncInv, Bounded, Kept
<1>3. /\ dynamic_table_size = TableSize(dynamic_table)
      /\ dynamic_table_size <= max_table_size /\ max_table_size <= Announced
  BY <1>1, <1>2
<1> QED
  BY <1>3, Zenon DEF PeerInSync, ReadInSync, SyncInv

LEMMA ReadSends ==
    ASSUME SyncInv, NEW ops \in PeerBlocks, NEW missing \in 0..MaxMissing, PeerSends(ops, missing)
    PROVE  ReadInSync'
<1> DEFINE read == DecodeHeaders(Decoder, Cut(PeerBlock(ops), missing))
           p == PeerThrough(ops, Len(ops))
<1>1. Legal(ops) /\ Received(ops, missing, read)
  BY DEF PeerSends, PeerBlock
<1>2. missing \in Nat
  BY BlocksAssumption
<1>3. /\ (synced /\ missing = 0 /\ ~RaisesIn(ops)) => GotAll(read, p, Fields(ops))
      /\ (synced /\ missing = 0 /\ RaisesIn(ops)) => read.error = "table_size_too_large"
      /\ (synced /\ read.error = "none") => IsPrefix(read.out, Fields(ops))
  BY <1>1, <1>2, PeerReceived
<1> HIDE DEF read, p
<1> DEFINE cut == synced /\ missing > 0
           raised == synced /\ missing = 0 /\ RaisesIn(ops)
<1>4. /\ synced' = (synced /\ missing = 0 /\ ~RaisesIn(ops))
      /\ last' = [call |-> "decode", fields |-> Fields(ops), read |-> read.out,
                  refused |-> read.error, cut |-> cut, raised |-> raised]
  BY <1>1 DEF Received
<1>5. (cut => synced) /\ (raised => read.error = "table_size_too_large")
  BY <1>3, Zenon
<1> HIDE DEF cut, raised
<1>6. last'.fields = Fields(ops) /\ last'.read = read.out /\ last'.refused = read.error
  BY <1>4
<1>7. last'.cut = cut /\ last'.raised = raised
  BY <1>4, Zenon
<1>8. synced' => last'.refused = "none" /\ last'.read = last'.fields
  BY <1>3, <1>4, <1>6, Zenon DEF GotAll
<1>9. (last'.cut /\ last'.refused = "none") => IsPrefix(last'.read, last'.fields)
  BY <1>3, <1>5, <1>6, <1>7, Zenon
<1>10. last'.raised => last'.refused = "table_size_too_large"
  BY <1>5, <1>6, <1>7, Zenon
<1> QED
  BY <1>8, <1>9, <1>10, Zenon DEF ReadInSync

LEMMA ReadNext ==
    SyncInv /\ ReadInSync /\ [Next]_vars => ReadInSync'
<1> SUFFICES ASSUME SyncInv, ReadInSync, [Next]_vars
             PROVE  ReadInSync'
  OBVIOUS
<1>1. ASSUME last'.call # "decode"
      PROVE  ReadInSync'
  BY <1>1, Zenon DEF ReadInSync
<1>2. CASE Return
  BY <1>1, <1>2 DEF Return, Nothing
<1>3. ASSUME NEW ops \in PeerBlocks, NEW missing \in 0..MaxMissing, PeerSends(ops, missing)
      PROVE  ReadInSync'
  BY <1>3, ReadSends
<1>4. ASSUME NEW headers \in HeaderLists, EncodeOwn(headers)
      PROVE  ReadInSync'
  BY <1>1, <1>4 DEF EncodeOwn, Encoded, Loopback
<1>5. ASSUME NEW headers \in HeaderLists, RefuseHeaders(headers)
      PROVE  ReadInSync'
  BY <1>1, <1>5 DEF RefuseHeaders
<1>6. ASSUME NEW input \in Inputs, DecodeString(input)
      PROVE  ReadInSync'
  BY <1>1, <1>6 DEF DecodeString
<1>7. ASSUME NEW bytes \in Integers7, DecodeInteger(bytes)
      PROVE  ReadInSync'
  BY <1>1, <1>7 DEF DecodeInteger
<1>8. ASSUME NEW p \in Probes, Probe(p)
      PROVE  ReadInSync'
  BY <1>1, <1>8 DEF Probe, ProbeResult
<1>9. ASSUME NEW f \in Frame, BuildFrame(f)
      PROVE  ReadInSync'
  BY <1>1, <1>9 DEF BuildFrame
<1>10. CASE UNCHANGED vars
  BY <1>10, Zenon DEF vars, ReadInSync
<1> QED
  BY <1>2, <1>3, <1>4, <1>5, <1>6, <1>7, <1>8, <1>9, <1>10 DEF Next

LEMMA OwnNext ==
    SyncInv /\ EncodedReadsBack /\ [Next]_vars => EncodedReadsBack'
<1> SUFFICES ASSUME SyncInv, EncodedReadsBack, [Next]_vars
             PROVE  EncodedReadsBack'
  OBVIOUS
<1>1. ASSUME last'.call # "encode_headers"
      PROVE  EncodedReadsBack'
  BY <1>1, Zenon DEF EncodedReadsBack
<1>2. CASE Return
  BY <1>1, <1>2 DEF Return, Nothing
<1>3. ASSUME NEW ops \in PeerBlocks, NEW missing \in 0..MaxMissing, PeerSends(ops, missing)
      PROVE  EncodedReadsBack'
  BY <1>1, <1>3 DEF PeerSends, Received
<1>4. ASSUME NEW headers \in HeaderLists, EncodeOwn(headers)
      PROVE  EncodedReadsBack'
  <2> DEFINE encoded == EncodeHeaders(headers)
             read == DecodeHeaders(Decoder, encoded.block)
             ops == Ops(headers)
             p == PeerThrough(ops, Len(ops))
  <2>1. blocks = 0 /\ encoded.error = "none" /\ Loopback(headers, ops, read)
    BY <1>4 DEF EncodeOwn, Encoded, Ops
  <2>2. synced
    BY <2>1, Zenon DEF SyncInv
  <2>3. /\ (\A i \in 1..Len(headers) : Readable(headers[i])) => GotAll(read, p, Given(headers))
        /\ ~(\A i \in 1..Len(headers) : Readable(headers[i])) =>
              read.error # "none" \/ read.out # Given(headers)
    BY <2>1, <2>2, OwnReceived
  <2> HIDE DEF read, p
  <2>4. last' = [call |-> "encode_headers", headers |-> headers, read |-> read.out, refused |-> read.error]
    BY <2>1 DEF Loopback
  <2>5. last'.headers = headers /\ last'.read = read.out /\ last'.refused = read.error
    BY <2>4
  <2> QED
    BY <2>3, <2>5, Zenon DEF EncodedReadsBack, GotAll, Given
<1>5. ASSUME NEW headers \in HeaderLists, RefuseHeaders(headers)
      PROVE  EncodedReadsBack'
  BY <1>1, <1>5 DEF RefuseHeaders
<1>6. ASSUME NEW input \in Inputs, DecodeString(input)
      PROVE  EncodedReadsBack'
  BY <1>1, <1>6 DEF DecodeString
<1>7. ASSUME NEW bytes \in Integers7, DecodeInteger(bytes)
      PROVE  EncodedReadsBack'
  BY <1>1, <1>7 DEF DecodeInteger
<1>8. ASSUME NEW p \in Probes, Probe(p)
      PROVE  EncodedReadsBack'
  BY <1>1, <1>8 DEF Probe, ProbeResult
<1>9. ASSUME NEW f \in Frame, BuildFrame(f)
      PROVE  EncodedReadsBack'
  BY <1>1, <1>9 DEF BuildFrame
<1>10. CASE UNCHANGED vars
  BY <1>10, Zenon DEF vars, EncodedReadsBack
<1> QED
  BY <1>2, <1>3, <1>4, <1>5, <1>6, <1>7, <1>8, <1>9, <1>10 DEF Next

\* The decoder keeps in step with every conforming peer of its connection until
\* the peer makes its table larger again, which the decoder refuses aloud: it
\* reads the fields the peer meant and has the peer's table, its books
\* (add_to_dynamic_table, resize_table of src/h2/hpack.rs) are the true size
\* and within the limit whatever reached it, and a cut block gives a beginning
\* of what was meant or an error.
THEOREM DecoderKeepsInStep == Spec => []PeerInSync
<1>1. Init => ReadInSync
  <2>1. Init => last.call # "decode"
    BY DEF Init, Nothing
  <2> QED
    BY <2>1, Zenon DEF ReadInSync
<1> QED
  BY <1>1, SyncInit, SyncNext, ReadNext, SyncedBooks, PTL DEF Spec

\* What encode_headers writes for headers that pass its checks, decode reads back
\* as given, whatever their representation, Huffman choice, invalid bytes, static
\* index and length_bloat, if and only if no filler of write_integer moves a
\* length: every other overlong length ends in an error or a wrong header.
THEOREM HeadersReadBack == Spec => []EncodedReadsBack
<1>1. Init => EncodedReadsBack
  <2>1. Init => last.call # "encode_headers"
    BY DEF Init, Nothing
  <2> QED
    BY <2>1, Zenon DEF EncodedReadsBack
<1> QED
  BY <1>1, SyncInit, SyncNext, OwnNext, PTL DEF Spec

-----------------------------------------------------------------------------
(* The toolkit: what a call of the stateless readers left in last.         *)

\* Every string the Huffman decoder accepts is the one encoding of what it
\* read (Decoder of src/h2/huffman.rs against encode), whatever the code.
THEOREM HuffmanIsCanonical == Spec => []HuffmanCanonical
<1>1. Init => HuffmanCanonical
  BY DEF Init, Nothing, HuffmanCanonical
<1>2. HuffmanCanonical /\ [Next]_vars => HuffmanCanonical'
  <2> SUFFICES ASSUME HuffmanCanonical, [Next]_vars
               PROVE  HuffmanCanonical'
    OBVIOUS
  <2> USE DEF HuffmanCanonical
  <2>1. CASE Return
    BY <2>1 DEF Return, Nothing
  <2>2. ASSUME NEW ops \in PeerBlocks, NEW missing \in 0..MaxMissing, PeerSends(ops, missing)
        PROVE  HuffmanCanonical'
    BY <2>2 DEF PeerSends, Received
  <2>3. ASSUME NEW headers \in HeaderLists, EncodeOwn(headers)
        PROVE  HuffmanCanonical'
    BY <2>3 DEF EncodeOwn, Encoded, Loopback
  <2>4. ASSUME NEW headers \in HeaderLists, RefuseHeaders(headers)
        PROVE  HuffmanCanonical'
    BY <2>4 DEF RefuseHeaders
  <2>5. ASSUME NEW input \in Inputs, DecodeString(input)
        PROVE  HuffmanCanonical'
    <3> DEFINE read == HuffmanDecode(input)
    <3>1. last' = [call |-> "huffman", input |-> input, result |-> read]
      BY <2>5 DEF DecodeString
    <3>2. input \in Seq(Bytes)
      BY BytesAssumption
    <3>3. read \in HuffmanResults
          /\ (read.error = "none" => \E m \in 0..7 : InputBits(input) = CodeBits(read.out) \o Ones(m))
      BY <3>2, HuffmanReads
    <3> HIDE DEF read
    <3>4. read.out \in Seq(Alphabet)
      BY <3>3 DEF HuffmanResults
    <3>5. read.error = "none" => HuffmanEncode(read.out) = input
      BY <3>2, <3>3, <3>4, EncodeGives
    <3> QED
      BY <3>1, <3>5
  <2>6. ASSUME NEW bytes \in Integers7, DecodeInteger(bytes)
        PROVE  HuffmanCanonical'
    BY <2>6 DEF DecodeInteger
  <2>7. ASSUME NEW p \in Probes, Probe(p)
        PROVE  HuffmanCanonical'
    BY <2>7 DEF Probe, ProbeResult
  <2>8. ASSUME NEW f \in Frame, BuildFrame(f)
        PROVE  HuffmanCanonical'
    BY <2>8 DEF BuildFrame
  <2>9. CASE UNCHANGED vars
    BY <2>9 DEF vars
  <2> QED
    BY <2>1, <2>2, <2>3, <2>4, <2>5, <2>6, <2>7, <2>8, <2>9 DEF Next
<1> QED
  BY <1>1, <1>2, PTL DEF Spec

\* An integer of up to the width is read as it is, a longer one is refused or
\* loses the bits above the width (read_integer of src/h2/hpack.rs).
THEOREM IntegersAreExact == Spec => []IntegerExact
<1>1. Init => IntegerExact
  <2>1. Init => last.call # "integer"
    BY DEF Init, Nothing
  <2> QED
    BY <2>1 DEF IntegerExact
<1>2. IntegerExact /\ [Next]_vars => IntegerExact'
  <2> SUFFICES ASSUME IntegerExact, [Next]_vars
               PROVE  IntegerExact'
    OBVIOUS
  <2>0. IntegerExact' = (last'.call = "integer" => Exactly(last'.input, last'.result))
    BY DEF IntegerExact, Exactly
  <2>1. CASE Return
    BY <2>0, <2>1 DEF Return, Nothing
  <2>2. ASSUME NEW ops \in PeerBlocks, NEW missing \in 0..MaxMissing, PeerSends(ops, missing)
        PROVE  IntegerExact'
    BY <2>0, <2>2 DEF PeerSends, Received
  <2>3. ASSUME NEW headers \in HeaderLists, EncodeOwn(headers)
        PROVE  IntegerExact'
    BY <2>0, <2>3 DEF EncodeOwn, Encoded, Loopback
  <2>4. ASSUME NEW headers \in HeaderLists, RefuseHeaders(headers)
        PROVE  IntegerExact'
    BY <2>0, <2>4 DEF RefuseHeaders
  <2>5. ASSUME NEW input \in Inputs, DecodeString(input)
        PROVE  IntegerExact'
    BY <2>0, <2>5 DEF DecodeString
  <2>6. ASSUME NEW bytes \in Integers7, DecodeInteger(bytes)
        PROVE  IntegerExact'
    <3> DEFINE read == ReadInteger(bytes, 1, 7)
    <3>1. last' = [call |-> "integer", input |-> bytes, result |-> read]
      BY <2>6 DEF DecodeInteger
    <3>2. Exactly(bytes, read)
      BY BytesAssumption, WholeIntegers
    <3> HIDE DEF read
    <3> QED
      BY <2>0, <3>1, <3>2
  <2>7. ASSUME NEW p \in Probes, Probe(p)
        PROVE  IntegerExact'
    BY <2>0, <2>7 DEF Probe, ProbeResult
  <2>8. ASSUME NEW f \in Frame, BuildFrame(f)
        PROVE  IntegerExact'
    BY <2>0, <2>8 DEF BuildFrame
  <2>9. CASE UNCHANGED vars
    BY <2>9 DEF vars, IntegerExact
  <2> QED
    BY <2>1, <2>2, <2>3, <2>4, <2>5, <2>6, <2>7, <2>8, <2>9 DEF Next
<1> QED
  BY <1>1, <1>2, PTL DEF Spec
=============================================================================
