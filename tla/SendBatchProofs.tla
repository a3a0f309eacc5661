--------------------------- MODULE SendBatchProofs ---------------------------
(***************************************************************************)
(* send_batch's safety properties, for batches of every length and every   *)
(* number of permits.                                                      *)
(***************************************************************************)
EXTENDS SendBatch, FiniteSetTheorems, TLAPS

USE NAssumption, ConcurrencyAssumption

(***************************************************************************)
(* The inductive invariant.  Requests from next on have no task yet, so     *)
(* that a spawn disturbs nobody; the semaphore's queue holds each waiting   *)
(* task once, so that a permit handed over finds a task without one; and    *)
(* the permits are conserved.                                               *)
(***************************************************************************)
Typed ==
    /\ driver \in {"pace", "spawn", "join", "returned", "cancelled"}
    /\ next \in 1..(N + 1)
    /\ task \in [Requests -> TaskStates]
    /\ permits \in Nat
    /\ waiters \in Seq(Requests)
    /\ results \in Seq(Result)

Undispatched ==
    /\ driver \in {"pace", "spawn"} => next \in Requests
    /\ \A i \in Requests : i >= next => task[i] = "absent"

WaitersQueued ==
    /\ \A k \in 1..Len(waiters) : task[waiters[k]] = "queued"
    /\ \A j, k \in 1..Len(waiters) : j # k => waiters[j] # waiters[k]

Conserved ==
    /\ permits + Cardinality(Holders) = Concurrency
    /\ waiters # << >> => permits = 0

IInv ==
    /\ Typed
    /\ Undispatched
    /\ WaitersQueued
    /\ Conserved
    /\ Len(results) <= N
    /\ ResultsInInputOrder

\* The tasks are finitely many, so those holding a permit can be counted.
LEMMA HoldersFinite == IsFiniteSet(Holders) /\ Cardinality(Holders) \in Nat
<1>1. IsFiniteSet(Requests)
  BY FS_Interval DEF Requests
<1>2. Holders \in SUBSET Requests
  BY DEF Holders
<1> QED
  BY <1>1, <1>2, FS_Subset, FS_CardinalityType

\* The inductive invariant implies what is claimed of the permits.
LEMMA InvariantSuffices == IInv => TypeOK /\ PermitsConserved
<1> SUFFICES ASSUME IInv PROVE TypeOK /\ PermitsConserved
  OBVIOUS
<1>1. IsFiniteSet(Holders) /\ Cardinality(Holders) \in Nat
  BY HoldersFinite
<1>2. Sending \in SUBSET Holders
  BY DEF Sending, Holders
<1>3. Cardinality(Sending) <= Cardinality(Holders) /\ Cardinality(Sending) \in Nat
  BY <1>1, <1>2, FS_Subset, FS_CardinalityType
<1>4. permits \in 0..Concurrency
  BY <1>1 DEF IInv, Typed, Conserved
<1>5. TypeOK
  BY <1>4 DEF IInv, Typed, TypeOK
<1>6. PermitsConserved
  BY <1>1, <1>3, <1>4 DEF IInv, Conserved, PermitsConserved
<1> QED
  BY <1>5, <1>6

LEMMA InitHolds == Init => IInv
<1> SUFFICES ASSUME Init PROVE IInv
  OBVIOUS
<1>1. Typed /\ Undispatched /\ WaitersQueued
  BY DEF Init, Typed, Undispatched, WaitersQueued, Requests, TaskStates
<1>2. Holders = {}
  BY DEF Init, Holders
<1>3. Conserved
  BY <1>2, FS_EmptySet DEF Init, Conserved
<1>4. Len(results) <= N /\ ResultsInInputOrder
  BY DEF Init, ResultsInInputOrder
<1> QED
  BY <1>1, <1>3, <1>4 DEF IInv

\* A step of the caller's future that leaves the tasks and the semaphore alone.
LEMMA DriverStep ==
    ASSUME IInv, Pace \/ Join \/ Return \/ Cancel
    PROVE  IInv'
<1>1. task' = task /\ permits' = permits /\ waiters' = waiters /\ next' = next
  BY DEF Pace, Join, Return, Cancel
<1>2. Holders' = Holders
  BY <1>1 DEF Holders
<1>3. WaitersQueued' /\ Conserved'
  BY <1>1, <1>2 DEF IInv, WaitersQueued, Conserved
<1>4. CASE Pace \/ Return \/ Cancel
  <2>1. results' = results
    BY <1>4 DEF Pace, Return, Cancel
  <2>2. Typed' /\ Undispatched'
    BY <1>1, <1>4, <2>1 DEF Pace, Return, Cancel, IInv, Typed, Undispatched
  <2>3. ResultsInInputOrder'
    BY <1>1, <1>4, <2>1 DEF Pace, Return, Cancel, IInv, ResultsInInputOrder
  <2> QED
    BY <1>3, <2>1, <2>2, <2>3 DEF IInv
<1>5. CASE Join
  <2> DEFINE i == Len(results) + 1
             r == [of |-> i, panicked |-> task[i] = "panicked"]
  <2>1. results \in Seq(Result) /\ Len(results) < N /\ i \in Requests
    BY <1>5 DEF Join, IInv, Typed, Requests
  <2>2. results' = Append(results, r) /\ task[i] \in {"finished", "panicked"} /\ driver' = driver
    BY <1>5 DEF Join
  <2>3. r \in Result
    BY <2>1 DEF Result
  <2>3a. r.of = i /\ r.panicked = (task[i] = "panicked")
    OBVIOUS
  <2> HIDE DEF r
  <2>4. results' \in Seq(Result) /\ Len(results') = i
    BY <2>1, <2>2, <2>3
  <2>5. \A k \in 1..Len(results) : results'[k] = results[k]
    BY <2>1, <2>2
  <2>6. results'[i] = r
    BY <2>1, <2>2
  <2>7. Typed' /\ Undispatched'
    BY <1>1, <2>2, <2>4 DEF IInv, Typed, Undispatched
  <2>8. driver' # "returned"
    BY <1>5 DEF Join
  <2>9. ASSUME NEW k \in 1..i
        PROVE  /\ results'[k].of = k
               /\ task[k] \in {"finished", "panicked"}
               /\ results'[k].panicked <=> task[k] = "panicked"
    <3>1. CASE k = i
      <4> HIDE DEF i
      <4> QED
        BY <3>1, <2>2, <2>3a, <2>6
    <3>2. CASE k # i
      <4>1. k \in 1..Len(results)
        BY <3>2, <2>1
      <4> QED
        BY <4>1, <2>5 DEF IInv, ResultsInInputOrder
    <3> QED
      BY <3>1, <3>2
  <2>10. ResultsInInputOrder'
    BY <1>1, <2>4, <2>8, <2>9 DEF ResultsInInputOrder
  <2> QED
    BY <1>3, <2>1, <2>4, <2>7, <2>10 DEF IInv
<1> QED
  BY <1>4, <1>5

\* A step that leaves the caller's future alone and changes no finished task
\* leaves the results as they should be.
LEMMA ResultsKept ==
    ASSUME IInv, results' = results, driver' = "returned" => driver = "returned",
           \A k \in Requests : task[k] \in {"finished", "panicked"} => task'[k] = task[k]
    PROVE  Len(results') <= N /\ ResultsInInputOrder'
<1>1. \A k \in 1..Len(results) : k \in Requests
  BY DEF IInv, Typed, Requests
<1> QED
  BY <1>1 DEF IInv, ResultsInInputOrder

LEMMA SpawnStep == ASSUME IInv, Spawn PROVE IInv'
<1>1. next \in Requests /\ task[next] = "absent"
  BY DEF Spawn, IInv, Typed, Undispatched
<1>2. /\ task' = [task EXCEPT ![next] = "spawned"]
      /\ next' = next + 1
      /\ permits' = permits /\ waiters' = waiters /\ results' = results
      /\ driver' = IF next = N THEN "join" ELSE "pace"
  BY DEF Spawn
<1>3. \A k \in Requests : k # next => task'[k] = task[k]
  BY <1>2 DEF IInv, Typed
<1>4. task'[next] = "spawned"
  BY <1>1, <1>2 DEF IInv, Typed
<1>5. Typed'
  BY <1>1, <1>2 DEF IInv, Typed, TaskStates, Requests
<1>6. Undispatched'
  BY <1>1, <1>2, <1>3 DEF IInv, Typed, Undispatched, Requests
<1>7. WaitersQueued'
  <2>1. \A k \in 1..Len(waiters) : waiters[k] \in Requests /\ task[waiters[k]] = "queued"
    BY DEF IInv, Typed, WaitersQueued
  <2>2. \A k \in 1..Len(waiters) : waiters[k] # next
    BY <2>1, <1>1
  <2> QED
    BY <2>1, <2>2, <1>2, <1>3 DEF IInv, WaitersQueued
<1>8. Holders' = Holders
  BY <1>1, <1>3, <1>4 DEF Holders
<1>9. Conserved'
  BY <1>2, <1>8 DEF IInv, Conserved
<1>10. Len(results') <= N /\ ResultsInInputOrder'
  BY <1>1, <1>2, <1>3, ResultsKept
<1> QED
  BY <1>5, <1>6, <1>7, <1>9, <1>10 DEF IInv

\* A task takes a free permit.
LEMMA AcquireFreeStep ==
    ASSUME IInv, NEW i \in Requests, AcquireFree(i)
    PROVE  IInv'
<1>1. /\ task[i] = "spawned" /\ permits > 0 /\ permits' = permits - 1
      /\ task' = [task EXCEPT ![i] = "sending"]
      /\ driver' = driver /\ next' = next /\ waiters' = waiters /\ results' = results
  BY DEF AcquireFree
<1>2. /\ task'[i] = "sending"
      /\ \A k \in Requests : k # i => task'[k] = task[k]
  BY <1>1 DEF IInv, Typed
<1>3. Typed'
  BY <1>1 DEF IInv, Typed, TaskStates
<1>4. Undispatched'
  BY <1>1, <1>2 DEF IInv, Undispatched
<1>5. waiters = << >>
  BY <1>1 DEF IInv, Conserved
<1>6. WaitersQueued'
  BY <1>1, <1>5 DEF WaitersQueued
<1>7. Holders' = Holders \cup {i} /\ i \notin Holders
  BY <1>1, <1>2 DEF Holders
<1>8. Cardinality(Holders') = Cardinality(Holders) + 1
  BY <1>7, HoldersFinite, FS_AddElement
<1>9. Conserved'
  BY <1>1, <1>5, <1>8, HoldersFinite DEF IInv, Typed, Conserved
<1>10. Len(results') <= N /\ ResultsInInputOrder'
  BY <1>1, <1>2, ResultsKept
<1> QED
  BY <1>3, <1>4, <1>6, <1>9, <1>10 DEF IInv

\* A task queues for a permit.
LEMMA AcquireQueuesStep ==
    ASSUME IInv, NEW i \in Requests, AcquireQueues(i)
    PROVE  IInv'
<1>1. /\ task[i] = "spawned" /\ permits = 0 /\ permits' = permits
      /\ task' = [task EXCEPT ![i] = "queued"]
      /\ waiters' = Append(waiters, i)
      /\ driver' = driver /\ next' = next /\ results' = results
  BY DEF AcquireQueues
<1>2. /\ task'[i] = "queued"
      /\ \A k \in Requests : k # i => task'[k] = task[k]
  BY <1>1 DEF IInv, Typed
<1>3. Typed'
  BY <1>1 DEF IInv, Typed, TaskStates
<1>4. Undispatched'
  BY <1>1, <1>2 DEF IInv, Undispatched
<1>5. WaitersQueued'
  <2>1. waiters \in Seq(Requests)
    BY DEF IInv, Typed
  <2>2. \A k \in 1..Len(waiters) :
          waiters[k] \in Requests /\ task[waiters[k]] = "queued" /\ waiters[k] # i
    BY <1>1, <2>1 DEF IInv, WaitersQueued
  <2>3. /\ Len(waiters') = Len(waiters) + 1
        /\ waiters'[Len(waiters) + 1] = i
        /\ \A k \in 1..Len(waiters) : waiters'[k] = waiters[k]
    BY <1>1, <2>1
  <2>4. \A k \in 1..Len(waiters') : k \in 1..Len(waiters) \/ k = Len(waiters) + 1
    BY <2>1, <2>3
  <2> QED
    BY <1>2, <2>2, <2>3, <2>4 DEF IInv, WaitersQueued
<1>6. Holders' = Holders
  BY <1>1, <1>2 DEF Holders
<1>7. Conserved'
  BY <1>1, <1>6 DEF IInv, Conserved
<1>8. Len(results') <= N /\ ResultsInInputOrder'
  BY <1>1, <1>2, ResultsKept
<1> QED
  BY <1>3, <1>4, <1>5, <1>7, <1>8 DEF IInv

\* A task that was handed a permit goes on.
LEMMA ResumeStep ==
    ASSUME IInv, NEW i \in Requests, Resume(i)
    PROVE  IInv'
<1>1. /\ task[i] = "granted" /\ permits' = permits
      /\ task' = [task EXCEPT ![i] = "sending"]
      /\ driver' = driver /\ next' = next /\ waiters' = waiters /\ results' = results
  BY DEF Resume
<1>2. /\ task'[i] = "sending"
      /\ \A k \in Requests : k # i => task'[k] = task[k]
  BY <1>1 DEF IInv, Typed
<1>3. Typed'
  BY <1>1 DEF IInv, Typed, TaskStates
<1>4. Undispatched'
  BY <1>1, <1>2 DEF IInv, Undispatched
<1>5. WaitersQueued'
  <2>1. \A k \in 1..Len(waiters) :
          waiters[k] \in Requests /\ task[waiters[k]] = "queued" /\ waiters[k] # i
    BY <1>1 DEF IInv, Typed, WaitersQueued
  <2> QED
    BY <1>1, <1>2, <2>1 DEF IInv, WaitersQueued
<1>6. Holders' = Holders
  BY <1>1, <1>2 DEF Holders
<1>7. Conserved'
  BY <1>1, <1>6 DEF IInv, Conserved
<1>8. Len(results') <= N /\ ResultsInInputOrder'
  BY <1>1, <1>2, ResultsKept
<1> QED
  BY <1>3, <1>4, <1>5, <1>7, <1>8 DEF IInv

\* A task ends or panics: its permit becomes free, or changes hands.
LEMMA EndStep ==
    ASSUME IInv, NEW i \in Requests, NEW how \in {"finished", "panicked"}, End(i, how)
    PROVE  IInv'
<1>1. /\ task[i] = "sending"
      /\ driver' = driver /\ next' = next /\ results' = results
  BY DEF End
<1>2. waiters \in Seq(Requests) /\ task \in [Requests -> TaskStates]
  BY DEF IInv, Typed
<1>3. i \in Holders
  BY <1>1 DEF Holders
<1>4. CASE waiters = << >>
  <2>1. /\ task' = [task EXCEPT ![i] = how]
        /\ permits' = permits + 1 /\ waiters' = waiters
    BY <1>4 DEF End
  <2>2. task'[i] = how /\ \A k \in Requests : k # i => task'[k] = task[k]
    BY <1>2, <2>1
  <2>3. Typed'
    BY <1>1, <2>1 DEF IInv, Typed, TaskStates
  <2>4. Undispatched'
    BY <1>1, <2>2 DEF IInv, Undispatched
  <2>5. WaitersQueued'
    BY <1>4, <2>1 DEF WaitersQueued
  <2>6. Holders' = Holders \ {i}
    BY <1>1, <2>2 DEF Holders
  <2>7. Cardinality(Holders') = Cardinality(Holders) - 1
    BY <1>3, <2>6, HoldersFinite, FS_RemoveElement
  <2>8. Conserved'
    BY <1>4, <2>1, <2>7, HoldersFinite DEF IInv, Typed, Conserved
  <2>9. Len(results') <= N /\ ResultsInInputOrder'
    BY <1>1, <2>2, ResultsKept
  <2> QED
    BY <2>3, <2>4, <2>5, <2>8, <2>9 DEF IInv
<1>5. CASE waiters # << >>
  <2> DEFINE w == Head(waiters)
  <2>1. /\ task' = [task EXCEPT ![i] = how, ![w] = "granted"]
        /\ permits' = permits /\ waiters' = Tail(waiters)
    BY <1>5 DEF End
  <2>2. w \in Requests /\ w = waiters[1] /\ task[w] = "queued" /\ w # i
    BY <1>1, <1>2, <1>5 DEF IInv, WaitersQueued
  <2>3. /\ Len(waiters') = Len(waiters) - 1
        /\ \A k \in 1..Len(waiters') : waiters'[k] = waiters[k + 1] /\ k + 1 \in 1..Len(waiters)
    BY <1>2, <1>5, <2>1
  <2> HIDE DEF w
  <2>4. /\ task'[i] = how /\ task'[w] = "granted"
        /\ \A k \in Requests : k # i /\ k # w => task'[k] = task[k]
    BY <1>2, <2>1, <2>2
  <2>5. Typed'
    <3>1. task' \in [Requests -> TaskStates]
      BY <1>2, <2>1, <2>2 DEF TaskStates
    <3>2. waiters' \in Seq(Requests)
      BY <1>2, <1>5, <2>1
    <3> QED
      BY <1>1, <2>1, <3>1, <3>2 DEF IInv, Typed
  <2>6. Undispatched'
    BY <1>1, <2>2, <2>4 DEF IInv, Undispatched
  <2>7. WaitersQueued'
    <3>1. ASSUME NEW k \in 1..Len(waiters')
          PROVE  task'[waiters'[k]] = "queued"
      <4>1. k + 1 \in 1..Len(waiters) /\ waiters'[k] = waiters[k + 1] /\ k + 1 # 1
        BY <2>3
      <4>2. waiters[k + 1] \in Requests /\ task[waiters[k + 1]] = "queued"
        BY <4>1, <1>2 DEF IInv, WaitersQueued
      <4>3. waiters[k + 1] # w
        BY <4>1, <2>2, <1>5, <1>2 DEF IInv, WaitersQueued
      <4> QED
        BY <1>1, <2>4, <4>1, <4>2, <4>3
    <3>2. ASSUME NEW j \in 1..Len(waiters'), NEW k \in 1..Len(waiters'), j # k
          PROVE  waiters'[j] # waiters'[k]
      BY <2>3, <3>2 DEF IInv, WaitersQueued
    <3> QED
      BY <3>1, <3>2 DEF WaitersQueued
  <2>8. Holders' = (Holders \ {i}) \cup {w} /\ w \notin Holders \ {i}
    BY <1>1, <2>2, <2>4 DEF Holders
  <2>9. Cardinality(Holders \ {i}) = Cardinality(Holders) - 1 /\ IsFiniteSet(Holders \ {i})
    BY <1>3, HoldersFinite, FS_RemoveElement
  <2>10. Cardinality(Holders') = Cardinality(Holders \ {i}) + 1
    BY <2>8, <2>9, FS_AddElement
  <2>11. Conserved'
    BY <1>5, <2>1, <2>9, <2>10, HoldersFinite DEF IInv, Typed, Conserved
  <2>12. Len(results') <= N /\ ResultsInInputOrder'
    BY <1>1, <2>2, <2>4, ResultsKept
  <2> QED
    BY <2>5, <2>6, <2>7, <2>11, <2>12 DEF IInv
<1> QED
  BY <1>4, <1>5

LEMMA StutterStep == ASSUME IInv, UNCHANGED vars PROVE IInv'
<1>1. Holders' = Holders
  BY DEF vars, Holders
<1> QED
  BY <1>1 DEF vars, IInv, Typed, Undispatched, WaitersQueued, Conserved, ResultsInInputOrder

LEMMA InductiveInvariant == Spec => []IInv
<1>1. Init => IInv
  BY InitHolds
<1>2. IInv /\ [Next]_vars => IInv'
  <2> SUFFICES ASSUME IInv, [Next]_vars PROVE IInv'
    OBVIOUS
  <2>1. CASE Driver \/ Cancel
    BY <2>1, DriverStep, SpawnStep DEF Driver
  <2>2. ASSUME NEW i \in Requests, Task(i) PROVE IInv'
    BY <2>2, AcquireFreeStep, AcquireQueuesStep, ResumeStep, EndStep DEF Task
  <2>3. CASE UNCHANGED vars
    BY <2>3, StutterStep
  <2> QED
    BY <2>1, <2>2, <2>3 DEF Next
<1> QED
  BY <1>1, <1>2, PTL DEF Spec

\* Every reachable state of send_batch is well typed.
THEOREM TypeCorrect == Spec => []TypeOK
BY InductiveInvariant, InvariantSuffices, PTL

\* send_batch never has more than `concurrency` requests in flight and never
\* loses or makes up a permit, for every length of batch and every number of
\* permits, although tasks panic and the caller may give up.
THEOREM PermitsAreConserved == Spec => []PermitsConserved
BY InductiveInvariant, InvariantSuffices, PTL

\* The result vector is filled in input order and complete when send_batch
\* returns, panicking tasks included.
THEOREM ResultsComeInInputOrder == Spec => []ResultsInInputOrder
<1>1. IInv => ResultsInInputOrder
  BY DEF IInv
<1> QED
  BY <1>1, InductiveInvariant, PTL

-----------------------------------------------------------------------------
(***************************************************************************)
(* send_batch implements BoundedDispatch.  A task that starts to send maps *)
(* to Start, whose bound holds because the task's own permit is not among  *)
(* the permits of those sending; one that ends maps to Finish; the return  *)
(* of the future maps to Deliver; every other step is a stutter.           *)
(***************************************************************************)
\* The abstract requests in flight are those whose task sends.
LEMMA InFlightIsSending == Promise!InFlight = Sending
BY DEF Promise!InFlight, Promise!Requests, Sending, Requests, Phase

\* The instance counts with a Cardinality of its own, which is the same.
LEMMA SameCardinality == \A S : Promise!Cardinality(S) = Cardinality(S)
BY DEF Promise!Cardinality, Cardinality

LEMMA InitRefines == Init => Promise!Init
BY DEF Init, Promise!Init, Promise!Requests, Requests, Phase, Output

\* A step that changes neither what is in flight nor what was delivered.
LEMMA QuietStep ==
    ASSUME Phase' = Phase, Output' = Output
    PROVE  UNCHANGED Promise!vars
BY DEF Promise!vars

\* Before the future has returned, and without a step of it, nothing is delivered.
LEMMA OutputKept ==
    ASSUME driver' = driver, results' = results
    PROVE  Output' = Output
BY DEF Output

\* A task that has just got hold of a permit finds fewer than Concurrency
\* others sending.
LEMMA StartRefines ==
    ASSUME IInv, IInv', NEW i \in Requests,
           task[i] \in {"spawned", "granted"}, task' = [task EXCEPT ![i] = "sending"],
           driver' = driver, results' = results
    PROVE  Promise!Start(i)
<1>1. task \in [Requests -> TaskStates]
  BY DEF IInv, Typed
<1>2. Sending' = Sending \cup {i} /\ i \notin Sending
  BY <1>1 DEF Sending
<1>3. IsFiniteSet(Sending)
  <2>1. IsFiniteSet(Requests) /\ Sending \in SUBSET Requests
    BY FS_Interval DEF Requests, Sending
  <2> QED
    BY <2>1, FS_Subset
<1>4. Cardinality(Sending') = Cardinality(Sending) + 1 /\ Cardinality(Sending) \in Nat
  BY <1>2, <1>3, FS_AddElement, FS_CardinalityType
<1>5. (Cardinality(Sending) <= Concurrency)'
  <2>1. IInv' => PermitsConserved'
    BY InvariantSuffices, PTL
  <2> QED
    BY <2>1 DEF PermitsConserved
<1>6. Promise!Cardinality(Promise!InFlight) < Concurrency
  BY <1>4, <1>5, InFlightIsSending, SameCardinality
<1>7. Phase[i] = "waiting" /\ Phase' = [Phase EXCEPT ![i] = "in flight"]
  BY <1>1 DEF Phase
<1>8. Output' = Output
  BY OutputKept
<1> QED
  BY <1>6, <1>7, <1>8 DEF Promise!Start

LEMMA EndRefines ==
    ASSUME IInv, NEW i \in Requests, NEW how \in {"finished", "panicked"}, End(i, how)
    PROVE  Promise!Finish(i)
<1>1. task \in [Requests -> TaskStates] /\ task[i] = "sending"
  BY DEF IInv, Typed, End
<1>2. Phase[i] = "in flight"
  BY <1>1 DEF Phase
<1>3. Phase' = [Phase EXCEPT ![i] = "over"]
  <2>1. CASE waiters = << >>
    BY <1>1, <2>1 DEF End, Phase
  <2>2. CASE waiters # << >>
    <3>1. Head(waiters) \in Requests /\ task[Head(waiters)] = "queued"
      BY <2>2 DEF IInv, Typed, WaitersQueued
    <3>2. task' = [task EXCEPT ![i] = how, ![Head(waiters)] = "granted"]
      BY <2>2 DEF End
    <3> QED
      BY <1>1, <3>1, <3>2 DEF Phase
  <2> QED
    BY <2>1, <2>2
<1>4. Output' = Output
  BY OutputKept DEF End
<1> QED
  BY <1>2, <1>3, <1>4 DEF Promise!Finish

\* The future returns: the whole vector is delivered at once.
LEMMA ReturnRefines ==
    ASSUME IInv, Return
    PROVE  Promise!Deliver \/ UNCHANGED Promise!vars
<1>1. results \in Seq(Result) /\ Len(results) = N /\ results' = results /\ task' = task
  BY DEF IInv, Typed, Return
<1>2. Output = << >> /\ Output' = [k \in 1..N |-> results[k].of]
  BY <1>1 DEF Return, Output
<1>3. Phase' = Phase
  BY <1>1 DEF Phase
<1>4. \A k \in 1..N : Output'[k] = k /\ Phase[k] = "over"
  BY <1>1, <1>2 DEF IInv, ResultsInInputOrder, Phase, Requests
<1>5. Output' \in Seq(Nat) /\ Len(Output') = N
  BY <1>2, <1>4
<1>6. CASE N = 0
  <2>1. Output' = << >>
    BY <1>5, <1>6
  <2> QED
    BY <1>2, <1>3, <2>1, QuietStep
<1>7. CASE N > 0
  <2>1. Len(Output') > Len(Output) /\ SubSeq(Output', 1, Len(Output)) = Output
    BY <1>2, <1>5, <1>7
  <2>2. \A k \in 1..Len(Output') : Output'[k] \in Requests /\ Phase[Output'[k]] = "over"
    BY <1>4, <1>5 DEF Requests
  <2>3. \A j, k \in 1..Len(Output') : j # k => Output'[j] # Output'[k]
    BY <1>4, <1>5
  <2> QED
    BY <1>3, <2>1, <2>2, <2>3 DEF Promise!Deliver, Promise!Requests, Requests
<1> QED
  BY <1>6, <1>7

LEMMA StepRefines ==
    ASSUME IInv, IInv', [Next]_vars
    PROVE  [Promise!Next]_(Promise!vars)
<1>0. task \in [Requests -> TaskStates]
  BY DEF IInv, Typed
<1>1. CASE Pace \/ Cancel \/ Join
  <2>1. Phase' = Phase /\ Output' = Output
    BY <1>1 DEF Pace, Cancel, Join, Phase, Output
  <2> QED
    BY <2>1, QuietStep
<1>2. CASE Spawn
  <2>1. next \in Requests /\ task[next] = "absent"
    BY <1>2 DEF Spawn, IInv, Undispatched, Requests
  <2>2. Phase' = Phase
    BY <1>0, <1>2, <2>1 DEF Spawn, Phase
  <2>3. Output' = Output
    BY <1>2 DEF Spawn, Output
  <2> QED
    BY <2>2, <2>3, QuietStep
<1>3. CASE Return
  BY <1>3, ReturnRefines DEF Promise!Next
<1>4. ASSUME NEW i \in Requests, Task(i)
      PROVE  [Promise!Next]_(Promise!vars)
  <2>1. CASE AcquireFree(i) \/ Resume(i)
    <3>1. Promise!Start(i)
      BY <2>1, StartRefines DEF AcquireFree, Resume
    <3> QED
      BY <3>1 DEF Promise!Next, Promise!Requests, Requests
  <2>2. CASE AcquireQueues(i)
    <3>1. Phase' = Phase
      BY <1>0, <2>2 DEF AcquireQueues, Phase
    <3>2. Output' = Output
      BY <2>2, OutputKept DEF AcquireQueues
    <3> QED
      BY <3>1, <3>2, QuietStep
  <2>3. CASE End(i, "finished") \/ End(i, "panicked")
    <3>1. Promise!Finish(i)
      BY <2>3, EndRefines
    <3> QED
      BY <3>1 DEF Promise!Next, Promise!Requests, Requests
  <2> QED
    BY <1>4, <2>1, <2>2, <2>3 DEF Task
<1>5. CASE UNCHANGED vars
  <2>1. Phase' = Phase /\ Output' = Output
    BY <1>5 DEF vars, Phase, Output
  <2> QED
    BY <2>1, QuietStep
<1> QED
  BY <1>1, <1>2, <1>3, <1>4, <1>5 DEF Next, Driver

\* send_batch keeps the promise of both batch functions, for every length of
\* batch and every number of permits: each request is sent at most once, never
\* more than `concurrency` at a time, and each result is delivered once and
\* only for a request that is over.
THEOREM SendBatchKeepsPromise == Spec => PromiseKept
<1>1. IInv /\ IInv' /\ [Next]_vars => [Promise!Next]_(Promise!vars)
  BY StepRefines
<1> QED
  BY <1>1, InitRefines, InductiveInvariant, PTL DEF Spec, PromiseKept, Promise!Spec
=============================================================================
