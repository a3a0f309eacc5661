--------------------------- MODULE BoundedDispatch ---------------------------
(***************************************************************************)
(* What both batch functions of src/batch.rs promise their caller, without *)
(* tasks, semaphores or channels: every request is sent at most once, no   *)
(* more than Concurrency are in flight, and a result is delivered at most  *)
(* once and only for a request that is over.                               *)
(***************************************************************************)
EXTENDS Naturals, Sequences, FiniteSets

CONSTANTS
    N,             \* requests in the batch
    Concurrency    \* permits of the semaphore

VARIABLES
    phase,         \* where each request is
    output         \* the requests whose results the caller has, in order

vars == <<phase, output>>

Requests == 1..N

InFlight == {i \in Requests : phase[i] = "in flight"}

Init ==
    /\ phase = [i \in Requests |-> "waiting"]
    /\ output = << >>

Start(i) ==
    /\ phase[i] = "waiting"
    /\ Cardinality(InFlight) < Concurrency
    /\ phase' = [phase EXCEPT ![i] = "in flight"]
    /\ UNCHANGED output

Finish(i) ==
    /\ phase[i] = "in flight"
    /\ phase' = [phase EXCEPT ![i] = "over"]
    /\ UNCHANGED output

\* Some results reach the caller: the whole vector at once, or a chunk.
Deliver ==
    /\ Len(output') > Len(output)
    /\ SubSeq(output', 1, Len(output)) = output
    /\ \A k \in 1..Len(output') : output'[k] \in Requests /\ phase[output'[k]] = "over"
    /\ \A j, k \in 1..Len(output') : j # k => output'[j] # output'[k]
    /\ UNCHANGED phase

Next == Deliver \/ \E i \in Requests : Start(i) \/ Finish(i)

Spec == Init /\ [][Next]_vars
=============================================================================
