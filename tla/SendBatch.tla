------------------------------ MODULE SendBatch ------------------------------
(***************************************************************************)
(* send_batch of src/batch.rs: the caller's future paces and spawns one    *)
(* task per request; each task waits for a permit of one semaphore, sends, *)
(* and ends; the future then awaits the tasks' handles in input order.     *)
(* The semaphore is tokio's (external): a FIFO of waiters, and a released  *)
(* permit goes to the first of them.                                       *)
(***************************************************************************)
EXTENDS Naturals, Sequences, FiniteSets

CONSTANTS
    N,             \* configs.len()
    Concurrency    \* the semaphore's permits

ASSUME NAssumption == N \in Nat
ASSUME ConcurrencyAssumption == Concurrency \in Nat

VARIABLES
    driver,     \* where the caller's future is
    next,       \* the request it dispatches next
    task,       \* what became of each request's task
    permits,    \* free permits of the semaphore
    waiters,    \* tasks queued for a permit, in order
    results     \* the vector being collected

vars == <<driver, next, task, permits, waiters, results>>

Requests == 1..N

TaskStates == {"absent", "spawned", "queued", "granted", "sending", "finished", "panicked"}

Result == [of : Requests, panicked : BOOLEAN]

Sending == {i \in Requests : task[i] = "sending"}
Holders == {i \in Requests : task[i] \in {"granted", "sending"}}

-----------------------------------------------------------------------------
Init ==
    /\ driver = IF N = 0 THEN "join" ELSE "pace"
    /\ next = 1
    /\ task = [i \in Requests |-> "absent"]
    /\ permits = Concurrency
    /\ waiters = << >>
    /\ results = << >>

\* limiter.acquire().await returns (or there is no limiter).
Pace ==
    /\ driver = "pace"
    /\ driver' = "spawn"
    /\ UNCHANGED <<next, task, permits, waiters, results>>

\* tokio::spawn of the request's task, and on to the next config.
Spawn ==
    /\ driver = "spawn"
    /\ task' = [task EXCEPT ![next] = "spawned"]
    /\ next' = next + 1
    /\ driver' = IF next = N THEN "join" ELSE "pace"
    /\ UNCHANGED <<permits, waiters, results>>

\* Mutant: the task sends without having got a permit.
AcquireWithoutPermit(i) ==
    /\ task[i] = "spawned"
    /\ task' = [task EXCEPT ![i] = "sending"]
    /\ UNCHANGED <<driver, next, permits, waiters, results>>

\* permit.acquire().await finds a free permit ...
AcquireFree(i) ==
    /\ task[i] = "spawned"
    /\ permits > 0
    /\ permits' = permits - 1
    /\ task' = [task EXCEPT ![i] = "sending"]
    /\ UNCHANGED <<driver, next, waiters, results>>

\* ... or queues for one.
AcquireQueues(i) ==
    /\ task[i] = "spawned"
    /\ permits = 0
    /\ waiters' = Append(waiters, i)
    /\ task' = [task EXCEPT ![i] = "queued"]
    /\ UNCHANGED <<driver, next, permits, results>>

\* The task that was handed a permit is woken and calls client.send.
Resume(i) ==
    /\ task[i] = "granted"
    /\ task' = [task EXCEPT ![i] = "sending"]
    /\ UNCHANGED <<driver, next, permits, waiters, results>>

\* Mutant: a task that panics forgets its permit.
EndLeaks(i, how) ==
    /\ task[i] = "sending"
    /\ task' = [task EXCEPT ![i] = how]
    /\ IF how = "finished"
       THEN permits' = permits + 1
       ELSE UNCHANGED permits
    /\ UNCHANGED <<driver, next, waiters, results>>

\* The send is over, or panics; either way _permit is dropped before the
\* handle resolves, and the permit goes to the first waiter if there is one.
End(i, how) ==
    /\ task[i] = "sending"
    /\ IF waiters = << >>
       THEN /\ task' = [task EXCEPT ![i] = how]
            /\ permits' = permits + 1
            /\ UNCHANGED waiters
       ELSE /\ task' = [task EXCEPT ![i] = how, ![Head(waiters)] = "granted"]
            /\ waiters' = Tail(waiters)
            /\ UNCHANGED permits
    /\ UNCHANGED <<driver, next, results>>

\* Mutant: whichever task is over is collected (FuturesUnordered style).
JoinAny ==
    /\ driver = "join"
    /\ Len(results) < N
    /\ \E i \in Requests :
         /\ task[i] \in {"finished", "panicked"}
         /\ \A k \in 1..Len(results) : results[k].of # i
         /\ results' = Append(results, [of |-> i, panicked |-> task[i] = "panicked"])
    /\ UNCHANGED <<driver, next, task, permits, waiters>>

\* handle.await, in input order; a JoinError becomes an error result.
Join ==
    /\ driver = "join"
    /\ Len(results) < N
    /\ LET i == Len(results) + 1
       IN  /\ task[i] \in {"finished", "panicked"}
           /\ results' = Append(results, [of |-> i, panicked |-> task[i] = "panicked"])
    /\ UNCHANGED <<driver, next, task, permits, waiters>>

Return ==
    /\ driver = "join"
    /\ Len(results) = N
    /\ driver' = "returned"
    /\ UNCHANGED <<next, task, permits, waiters, results>>

\* The caller drops the future at one of its awaits (the Python task awaiting
\* request_batch is cancelled): the handles are dropped, which detaches the
\* tasks and does not stop them.
Cancel ==
    /\ driver \in {"pace", "join"}
    /\ driver' = "cancelled"
    /\ UNCHANGED <<next, task, permits, waiters, results>>

Driver == Pace \/ Spawn \/ Join \/ Return

Task(i) ==
    \/ AcquireFree(i)
    \/ AcquireQueues(i)
    \/ Resume(i)
    \/ End(i, "finished")
    \/ End(i, "panicked")

Next == Driver \/ Cancel \/ \E i \in Requests : Task(i)

Spec == Init /\ [][Next]_vars

(***************************************************************************)
(* The runtime polls every ready task and future; acquire() of the limiter *)
(* returns (RateLimiter!AcquireReturns); a send ends, since each attempt   *)
(* runs under a timeout and attempts are counted.                          *)
(***************************************************************************)
FairSpec == Spec /\ WF_vars(Driver) /\ \A i \in Requests : WF_vars(Task(i))

-----------------------------------------------------------------------------
\* The variables hold what their Rust types allow.
TypeOK ==
    /\ driver \in {"pace", "spawn", "join", "returned", "cancelled"}
    /\ next \in 1..(N + 1)
    /\ task \in [Requests -> TaskStates]
    /\ permits \in 0..Concurrency
    /\ waiters \in Seq(Requests)
    /\ results \in Seq(Result)

\* "Maximum simultaneous in-flight requests" (python.rs, request_batch): no
\* permit leaks or is made up, whether tasks finish, panic or outlive a
\* cancelled caller, and nobody queues while a permit is free.
PermitsConserved ==
    /\ permits + Cardinality(Holders) = Concurrency
    /\ Cardinality(Sending) <= Concurrency
    /\ waiters # << >> => permits = 0

\* "The list is in input order, regardless of which requests completed first"
\* (python.rs, request_batch), also when some tasks panicked; and it is
\* complete when the future returns.
ResultsInInputOrder ==
    /\ \A k \in 1..Len(results) :
         /\ results[k].of = k
         /\ task[k] \in {"finished", "panicked"}
         /\ results[k].panicked <=> task[k] = "panicked"
    /\ driver = "returned" => Len(results) = N

\* The batch returns unless its caller gives up, and a request once spawned runs
\* to its end also when the caller has gone.
BatchReturns ==
    /\ <>(driver \in {"returned", "cancelled"})
    /\ \A i \in Requests : task[i] = "spawned" ~> task[i] \in {"finished", "panicked"}

-----------------------------------------------------------------------------
\* A request is in flight while its task sends ...
Phase ==
    [i \in Requests |->
        IF task[i] = "sending" THEN "in flight"
        ELSE IF task[i] \in {"finished", "panicked"} THEN "over"
        ELSE "waiting"]

\* ... and the caller gets the whole vector when the future returns.
Output == IF driver = "returned" THEN [k \in 1..N |-> results[k].of] ELSE << >>

\* send_batch implements BoundedDispatch.
Promise == INSTANCE BoundedDispatch WITH phase <- Phase, output <- Output

PromiseKept == Promise!Spec
=============================================================================
