----------------------------- MODULE BatchStream -----------------------------
(***************************************************************************)
(* send_batch_stream of src/batch.rs and the Python iterator over it       *)
(* (PyBatchResultIterator of src/python.rs).                               *)
(*                                                                         *)
(* A driver task, spawned by the stream's first poll, takes a permit for   *)
(* each request before it spawns the request's task.  A task sends, puts   *)
(* its result on an unbounded channel and drops, in this order, its permit *)
(* and its sender.  The channel ends when the driver's sender and every    *)
(* task's sender are gone.  __anext__ drains the channel into chunks.      *)
(***************************************************************************)
EXTENDS Naturals, Sequences, FiniteSets, SequencesExt

CONSTANTS
    N,             \* configs.len()
    Concurrency,   \* the semaphore's permits
    ChunkMax,      \* the iterator's 1000
    MaxElapsed,    \* bound: 200ms periods counted while __anext__ is blocked
    MaxCancels     \* bound: __anext__ calls cancelled

ASSUME NAssumption == N \in Nat
ASSUME ConcurrencyAssumption == Concurrency \in Nat
ASSUME ChunkAssumption == ChunkMax \in Nat \ {0} /\ MaxElapsed \in Nat \ {0}
ASSUME CancelsAssumption == MaxCancels \in Nat

VARIABLES
    driver,      \* where the driver task is
    next,        \* the request it dispatches next
    task,        \* each request's task: "absent", "sending", "sent" its result,
                 \* "released" its permit too, "gone" with its sender
    permits,     \* free permits of the semaphore
    channel,     \* results in the channel
    consumer,    \* where the iterator is
    batch,       \* the chunk __anext__ is filling
    elapsed,     \* 200ms periods since this __anext__ started
    delivered,   \* the results returned to Python, chunk after chunk
    cancels,     \* __anext__ calls cancelled so far
    completed,   \* history: results in the order the tasks sent them
    lost         \* history: results nobody will ever receive

vars == <<driver, next, task, permits, channel, consumer, batch, elapsed, delivered,
          cancels, completed, lost>>
producerVars == <<driver, next, task, permits>>
consumerVars == <<consumer, batch, elapsed, delivered, cancels>>

Requests == 1..N

\* Mutant: the channel ends with the driver's own sender.
ChannelEndsWithDriver == driver = "finished"

\* The sender clones alive: the driver's own and one per live task.
ChannelEnded ==
    /\ driver = "finished"
    /\ \A i \in Requests : task[i] \in {"absent", "gone"}

-----------------------------------------------------------------------------
Init ==
    /\ driver = "deferred"
    /\ next = 1
    /\ task = [i \in Requests |-> "absent"]
    /\ permits = Concurrency
    /\ channel = << >>
    /\ consumer = "idle"
    /\ batch = << >>
    /\ elapsed = 0
    /\ delivered = << >>
    /\ cancels = 0
    /\ completed = << >>
    /\ lost = {}

AfterDispatch(i) == IF i > N THEN "finished" ELSE "pace"

\* limiter.acquire().await returns (or there is no limiter).
Pace ==
    /\ driver = "pace"
    /\ driver' = "permit"
    /\ UNCHANGED <<next, task, permits, channel, consumerVars, completed, lost>>

\* Mutant: the task is spawned without waiting for a permit.
DispatchUngated ==
    /\ driver = "permit"
    /\ task' = [task EXCEPT ![next] = "sending"]
    /\ next' = next + 1
    /\ driver' = AfterDispatch(next + 1)
    /\ UNCHANGED <<permits, channel, consumerVars, completed, lost>>

\* acquire_owned().await gets a permit, which moves into the spawned task;
\* after the last config the driver ends and drops its sender.
Dispatch ==
    /\ driver = "permit"
    /\ permits > 0
    /\ permits' = permits - 1
    /\ task' = [task EXCEPT ![next] = "sending"]
    /\ next' = next + 1
    /\ driver' = AfterDispatch(next + 1)
    /\ UNCHANGED <<channel, consumerVars, completed, lost>>

\* client.send is over and the result goes to the channel; unbounded_send to
\* a dropped receiver fails silently.
Send(i) ==
    /\ task[i] = "sending"
    /\ task' = [task EXCEPT ![i] = "sent"]
    /\ completed' = Append(completed, i)
    /\ IF consumer = "dropped"
       THEN /\ lost' = lost \cup {i}
            /\ UNCHANGED channel
       ELSE /\ channel' = Append(channel, i)
            /\ UNCHANGED lost
    /\ UNCHANGED <<driver, next, permits, consumerVars>>

\* Mutant: the permit is forgotten and only released after a send.
PanicLeaks(i) ==
    /\ task[i] = "sending"
    /\ task' = [task EXCEPT ![i] = "gone"]
    /\ UNCHANGED <<driver, next, permits, channel, consumerVars, completed, lost>>

\* client.send panics: nothing is sent, and unwinding drops the permit and the
\* sender just the same.
Panic(i) ==
    /\ task[i] = "sending"
    /\ task' = [task EXCEPT ![i] = "gone"]
    /\ permits' = permits + 1
    /\ UNCHANGED <<driver, next, channel, consumerVars, completed, lost>>

DropPermit(i) ==
    /\ task[i] = "sent"
    /\ task' = [task EXCEPT ![i] = "released"]
    /\ permits' = permits + 1
    /\ UNCHANGED <<driver, next, channel, consumerVars, completed, lost>>

DropSender(i) ==
    /\ task[i] = "released"
    /\ task' = [task EXCEPT ![i] = "gone"]
    /\ UNCHANGED <<driver, next, permits, channel, consumerVars, completed, lost>>

-----------------------------------------------------------------------------
(* The iterator.  Concurrent __anext__ calls are serialised by its mutex,    *)
(* so one consumer stands for all of them.                                   *)

\* Python calls __anext__.
Anext ==
    /\ consumer = "idle"
    /\ consumer' = "loop"
    /\ batch' = << >>
    /\ elapsed' = 0
    /\ UNCHANGED <<producerVars, channel, delivered, completed, lost, cancels>>

MustFlush == Len(batch) >= ChunkMax \/ (batch # << >> /\ elapsed >= 1)

Yield ==
    /\ delivered' = delivered \o batch
    /\ consumer' = "idle"
    /\ batch' = << >>
    /\ elapsed' = 0

\* The check at the top of the loop returns the chunk ...
Flush ==
    /\ consumer = "loop"
    /\ MustFlush
    /\ Yield
    /\ UNCHANGED <<producerVars, channel, completed, lost, cancels>>

\* ... or stream.next() is polled; the very first poll spawns the driver.
Await ==
    /\ consumer = "loop"
    /\ ~MustFlush
    /\ consumer' = "next"
    /\ driver' = IF driver = "deferred" THEN AfterDispatch(next) ELSE driver
    /\ UNCHANGED <<next, task, permits, channel, batch, elapsed, delivered, completed, lost, cancels>>

\* stream.next() yields a result: batch.push.
Receive ==
    /\ consumer = "next"
    /\ channel # << >>
    /\ batch' = Append(batch, Head(channel))
    /\ channel' = Tail(channel)
    /\ consumer' = "loop"
    /\ UNCHANGED <<producerVars, elapsed, delivered, completed, lost, cancels>>

\* stream.next() yields None: the partial chunk ...
EndFlushes ==
    /\ consumer = "next"
    /\ channel = << >> /\ ChannelEnded
    /\ batch # << >>
    /\ Yield
    /\ UNCHANGED <<producerVars, channel, completed, lost, cancels>>

\* ... and, in this or the next call, StopAsyncIteration.
EndStops ==
    /\ consumer = "next"
    /\ channel = << >> /\ ChannelEnded
    /\ batch = << >>
    /\ consumer' = "stopped"
    /\ UNCHANGED <<producerVars, channel, batch, elapsed, delivered, completed, lost, cancels>>

\* 200ms pass between two results or while __anext__ is blocked in
\* stream.next().await; a consumer with a result to take does so in time.
Elapse ==
    /\ \/ consumer = "loop"
       \/ consumer = "next" /\ channel = << >> /\ ~ChannelEnded
    /\ elapsed < MaxElapsed
    /\ elapsed' = elapsed + 1
    /\ UNCHANGED <<producerVars, channel, consumer, batch, delivered, completed, lost, cancels>>

\* The Python task awaiting __anext__ is cancelled: the future is dropped with
\* the chunk it was filling.
CancelAnext ==
    /\ consumer = "next"
    /\ cancels < MaxCancels
    /\ cancels' = cancels + 1
    /\ lost' = lost \cup ToSet(batch)
    /\ consumer' = "idle"
    /\ batch' = << >>
    /\ elapsed' = 0
    /\ UNCHANGED <<producerVars, channel, delivered, completed>>

\* Mutant: dropping the receiver stops the driver.
DropIteratorStopsDriver ==
    /\ consumer = "idle"
    /\ consumer' = "dropped"
    /\ lost' = lost \cup ToSet(channel)
    /\ channel' = << >>
    /\ driver' = "finished"
    /\ UNCHANGED <<next, task, permits, batch, elapsed, delivered, completed, cancels>>

\* The iterator is dropped with the receiver and what the channel holds.
DropIterator ==
    /\ consumer = "idle"
    /\ consumer' = "dropped"
    /\ lost' = lost \cup ToSet(channel)
    /\ channel' = << >>
    /\ UNCHANGED <<producerVars, batch, elapsed, delivered, completed, cancels>>

-----------------------------------------------------------------------------
Driver == Pace \/ Dispatch
Task(i) == Send(i) \/ Panic(i) \/ DropPermit(i) \/ DropSender(i)
Iterate == Anext \/ Flush \/ Await \/ Receive \/ EndFlushes \/ EndStops

Next ==
    \/ Driver
    \/ \E i \in Requests : Task(i)
    \/ Iterate
    \/ Elapse
    \/ CancelAnext
    \/ DropIterator

Spec == Init /\ [][Next]_vars

\* What the runtime owes its tasks: a ready one is polled, acquire() of the
\* limiter returns, a send ends (each attempt runs under a timeout).  Python
\* owes nothing: it may cancel, drop the iterator or stop calling.
FairSpec == Spec /\ WF_vars(Driver) /\ \A i \in Requests : WF_vars(Task(i))

-----------------------------------------------------------------------------
\* "Yields BatchResults in completion order" (batch.rs): what Python has, what
\* the iterator holds and what the channel holds, put end to end, are the
\* results in the order the tasks sent them, each once, less what a cancelled
\* __anext__ or a dropped iterator threw away; and StopAsyncIteration means
\* that every request was dispatched and is over and nothing is left to come.
CompletionOrder ==
    LET kept == delivered \o batch \o channel
    IN  /\ ToSet(kept) = ToSet(completed) \ lost
        /\ \A j, k \in 1..Len(kept), p, q \in 1..Len(completed) :
             j < k /\ kept[j] = completed[p] /\ kept[k] = completed[q] => p < q
        /\ \A p, q \in 1..Len(completed) : completed[p] = completed[q] => p = q
        /\ consumer = "stopped" =>
             /\ next = N + 1
             /\ \A i \in Requests : task[i] = "gone"
             /\ batch \o channel = << >>

\* "In-flight tasks are NOT cancelled if the consumer drops the stream, they
\* run to completion" (batch.rs): once the driver runs, every request gets
\* sent, whatever the consumer does.
DispatchRunsToCompletion ==
    driver = "pace" ~> (driver = "finished" /\ \A i \in Requests : task[i] = "gone")

\* "Partial batches flush after 200ms so the consumer is never starved"
\* (python.rs): __anext__ holds a non-empty chunk for at most one period.
NeverStarved == (consumer = "next" /\ batch # << >>) => elapsed <= 1

-----------------------------------------------------------------------------
\* A request is in flight while its task sends ...
Phase ==
    [i \in Requests |->
        IF task[i] = "sending" THEN "in flight"
        ELSE IF task[i] = "absent" THEN "waiting"
        ELSE "over"]

\* ... and the caller gets chunk after chunk: the stream implements
\* BoundedDispatch.
Promise == INSTANCE BoundedDispatch WITH phase <- Phase, output <- delivered

PromiseKept == Promise!Spec
=============================================================================
