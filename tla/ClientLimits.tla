----------------------------- MODULE ClientLimits -----------------------------
(***************************************************************************)
(* The rate limits of one BlastHTTP client (src/python.rs) and its batches *)
(* (src/batch.rs): set_rate_limit replaces the shared limiter, every call  *)
(* captures the one in place when it is made, a batch merges it with its   *)
(* own rate, and a raw connection keeps it for each of its operations.     *)
(*                                                                         *)
(* A limiter's acquire() takes its slot in one step here (that concurrent  *)
(* acquires amount to this is SlotsSpaced of RateLimiter); it then reads   *)
(* the clock again, and sleeps unless its slot is less than the threshold  *)
(* away.  What send() does after its token, the redirects it follows and   *)
(* its retries, takes none and is left out.  Limiter 0 and rate 0 are None. *)
(***************************************************************************)
EXTENDS Naturals, Sequences, FiniteSets

CONSTANTS
    Calls,         \* the calls made on the client
    Intervals,     \* the intervals of the rates callers ask for
    Threshold,     \* SUB_MS_SKIP_THRESHOLD_NS: shorter sleeps are skipped
    BatchSize,     \* the requests of a batch, the operations of a connection
    MaxTime,       \* bound: the clock
    MaxLimits      \* bound: uses of set_rate_limit

ASSUME IntervalsAssumption == Intervals \subseteq Nat \ {0}
ASSUME ThresholdAssumption == Threshold \in Nat \ {0}
ASSUME CallsAssumption == IsFiniteSet(Calls)
ASSUME BoundsAssumption == BatchSize \in Nat \ {0} /\ MaxTime \in Nat

VARIABLES
    now,        \* the clock
    limiters,   \* every limiter made so far
    shared,     \* self.rate_limiter
    limits,     \* uses of set_rate_limit
    call,       \* the calls
    sent        \* history: requests or operations each call was let through

vars == <<now, limiters, shared, limits, call, sent>>

Later(a, b) == IF a > b THEN a ELSE b

\* RateLimiter::new, at this moment
NewLimiter(interval, owner) ==
    [interval |-> interval, next |-> now, born |-> now, owner |-> owner]

-----------------------------------------------------------------------------
Init ==
    /\ now = 0
    /\ limiters = << >>
    /\ shared = 0
    /\ limits = 0
    /\ call = [c \in Calls |-> [at |-> "idle", left |-> 0, slot |-> 0, limiter |-> 0,
                                shared |-> 0, rate |-> 0, since |-> 0]]
    /\ sent = [c \in Calls |-> 0]

Tick ==
    /\ now < MaxTime
    /\ now' = now + 1
    /\ UNCHANGED <<limiters, shared, limits, call, sent>>

\* set_rate_limit: a new limiter, or none for 0 and None; calls under way keep
\* the one they captured.
SetRateLimit(interval) ==
    /\ limits < MaxLimits
    /\ limits' = limits + 1
    /\ IF interval = 0
       THEN shared' = 0 /\ UNCHANGED limiters
       ELSE /\ limiters' = Append(limiters, NewLimiter(interval, "client"))
            /\ shared' = Len(limiters) + 1
    /\ UNCHANGED <<now, call, sent>>

\* The call starts, paced by a limiter.
Started(c, n, rate, limiter) ==
    /\ call[c].at = "idle"
    /\ call' = [call EXCEPT ![c] = [at |-> "acquire", left |-> n, slot |-> 0, limiter |-> limiter,
                                    shared |-> shared, rate |-> rate, since |-> now]]
    /\ UNCHANGED <<now, shared, limits, sent>>

\* Mutant: the less restrictive of the two is used.
PrivateWinsLooser(rate) == rate # 0 /\ (shared # 0 => limiters[shared].interval > rate)

\* Mutant: a batch given a rate always makes a limiter, of the stricter rate.
PrivateWinsTies(rate) == rate # 0 /\ (shared # 0 => rate >= limiters[shared].interval)

\* merge_limiters: whether a batch makes a limiter of its own.
PrivateWins(rate) == rate # 0 /\ (shared # 0 => rate > limiters[shared].interval)

\* request() and download(): one token of the shared limiter.
Request(c) ==
    /\ Started(c, 1, 0, shared)
    /\ UNCHANGED limiters

\* request_batch() and request_batch_stream(), at the given rate.
RequestBatch(c, rate) ==
    IF PrivateWins(rate)
    THEN /\ limiters' = Append(limiters, NewLimiter(rate, "batch"))
         /\ Started(c, BatchSize, rate, Len(limiters) + 1)
    ELSE /\ Started(c, BatchSize, rate, shared)
         /\ UNCHANGED limiters

\* raw_connect(), then send_bytes and read_raw on the connection.
RawConnect(c) ==
    /\ Started(c, BatchSize, 0, shared)
    /\ UNCHANGED limiters

\* limiter.acquire() takes the next slot, if there is a limiter ...
Acquire(c) ==
    LET l == call[c].limiter
        slot == IF l = 0 THEN now ELSE Later(limiters[l].next, now)
    IN  /\ call[c].at = "acquire"
        /\ call' = [call EXCEPT ![c].at = "check", ![c].slot = slot]
        /\ limiters' = IF l = 0
                       THEN limiters
                       ELSE [limiters EXCEPT ![l].next = slot + limiters[l].interval]
        /\ UNCHANGED <<now, shared, limits, sent>>

\* ... whose deficit is looked at next ...
SkipSleep(c) == call[c].slot < now + Threshold

\* ... and slept off if it reaches the threshold.
Sleep(c) ==
    /\ call[c].at = "check"
    /\ ~SkipSleep(c)
    /\ call' = [call EXCEPT ![c].at = "sleep"]
    /\ UNCHANGED <<now, limiters, shared, limits, sent>>

\* acquire() returns: the request is dispatched, the operation done.
Send(c) ==
    /\ \/ call[c].at = "check" /\ SkipSleep(c)
       \/ call[c].at = "sleep" /\ now >= call[c].slot
    /\ sent' = [sent EXCEPT ![c] = @ + 1]
    /\ call' = [call EXCEPT ![c].left = @ - 1, ![c].slot = 0,
                            ![c].at = IF call[c].left = 1 THEN "over" ELSE "acquire"]
    /\ UNCHANGED <<now, limiters, shared, limits>>

Next ==
    \/ Tick
    \/ \E i \in Intervals \cup {0} : SetRateLimit(i)
    \/ \E c \in Calls :
         \/ Request(c)
         \/ \E rate \in Intervals \cup {0} : RequestBatch(c, rate)
         \/ RawConnect(c)
         \/ Acquire(c)
         \/ Sleep(c)
         \/ Send(c)

Spec == Init /\ [][Next]_vars

-----------------------------------------------------------------------------
\* The limiters set_rate_limit made, and the calls made while l was in place.
ClientLimiters == {l \in 1..Len(limiters) : limiters[l].owner = "client"}
Under(l) == {c \in Calls : call[c].at # "idle" /\ call[c].shared = l}

\* The requests and operations of these calls that were let through, each call's
\* counted from one.
Through(calls) == {e \in calls \X (1..BatchSize) : e[2] <= sent[e[1]]}

\* Since a time, no more than one event per interval; the last of them may be
\* early by less than the threshold, its sleep having been skipped.
Within(events, interval, since) ==
    events > 0 => (events - 1) * interval < (now - since) + Threshold

\* "When both a client-level and per-call rate limit are set, use the more
\* restrictive (lower RPS) of the two" (batch.rs, merge_limiters): no call is let
\* through faster than the stricter of the client's rate when it was made and
\* its own, but for the skipped sleeps, however calls and changes of the limit
\* interleave.  README.md:406 promises instead that the client's limit "takes
\* precedence over" the per-call one; see BatchesCollectivelyUnderLimit.
StricterLimitWins ==
    \A c \in Calls :
        LET clients == IF call[c].shared = 0 THEN 0 ELSE limiters[call[c].shared].interval
        IN  Within(sent[c], Later(call[c].rate, clients), call[c].since)

\* Calls that ask for no stricter rate share the client's: requests, batches,
\* downloads and the operations on raw connections together stay under the
\* limit they were made under, once more but for the skipped sleeps ("can't
\* burst past the limit", README.md).
SharedLimitHolds ==
    \A l \in ClientLimiters :
        LET sharing == {c \in Under(l) : call[c].rate <= limiters[l].interval}
        IN  Within(Cardinality(Through(sharing)), limiters[l].interval, limiters[l].born)

\* "Two concurrent request_batch() (or request_batch_stream()) calls will
\* collectively stay under the limit" (README.md:404), whatever rate of its own
\* each of them asks for, since "the client-level rate limit takes precedence over
\* the per-call rate_limit parameter" (README.md:406).
BatchesCollectivelyUnderLimit ==
    \A l \in ClientLimiters :
        Within(Cardinality(Through(Under(l))), limiters[l].interval, limiters[l].born)
=============================================================================
