----------------------------- MODULE RateLimiter -----------------------------
(***************************************************************************)
(* The lock-free rate limiter of src/batch.rs: one atomic cursor, bumped   *)
(* by a compare-and-swap loop, hands every caller of acquire() a slot in   *)
(* time; the caller then sleeps until its slot, outside any lock.          *)
(*                                                                         *)
(* A caller's five shared accesses (load of the cursor, first clock read,  *)
(* CAS, second clock read, return from the sleep) are five actions, so     *)
(* callers interleave between any two of them.                             *)
(***************************************************************************)
EXTENDS Integers, Sequences

CONSTANTS
    Callers,      \* tasks that call acquire() on one shared limiter
    Interval,     \* interval_ns
    Threshold,    \* SUB_MS_SKIP_THRESHOLD_NS: shorter sleeps are skipped
    MaxNs,        \* u64::MAX, where saturating_add stops
    MaxTime,      \* bound: the clock runs this far with nobody asleep
    MaxGrants     \* bound: how many slots are handed out

ASSUME IntervalAssumption  == Interval \in Nat \ {0}   \* .max(1.0), batch.rs:57
ASSUME ThresholdAssumption == Threshold \in Nat \ {0}
ASSUME MaxNsAssumption     == MaxNs \in Nat
ASSUME BoundsAssumption    == MaxTime \in Nat /\ MaxGrants \in Nat

VARIABLES
    now,       \* start.elapsed() in ns: the monotonic clock all callers read
    next_ns,   \* the shared cursor
    pc,        \* where each caller is in acquire()
    current,   \* each caller's local: the cursor it loaded
    now_ns,    \* each caller's local: its first clock reading
    slot_ns,   \* each caller's local: the slot it claimed
    grants,    \* history: slot and time of each successful CAS, in order
    returned   \* history: how many acquires have returned

vars == <<now, next_ns, pc, current, now_ns, slot_ns, grants, returned>>

PcValues == {"idle", "load", "clock", "cas", "check", "sleep"}

Grant == [slot : 0..MaxNs, at : 0..MaxNs]

Larger(a, b) == IF a >= b THEN a ELSE b

\* Mutant: plain +, as if the cursor had no width.
UncheckedAdd(a, b) == a + b

\* Mutant: wrapping_add, which would send the cursor back to the past.
WrappingAdd(a, b) == (a + b) % (MaxNs + 1)

\* u64::saturating_add
SaturatingAdd(a, b) == IF a + b > MaxNs THEN MaxNs ELSE a + b

-----------------------------------------------------------------------------
\* RateLimiter::new: the cursor starts at 0 and so does the elapsed time.
Init ==
    /\ now = 0
    /\ next_ns = 0
    /\ pc = [c \in Callers |-> "idle"]
    /\ current = [c \in Callers |-> 0]
    /\ now_ns = [c \in Callers |-> 0]
    /\ slot_ns = [c \in Callers |-> 0]
    /\ grants = << >>
    /\ returned = 0

\* Time passes.  It stops at MaxTime unless somebody still sleeps towards a
\* slot, so that the bound never strands a sleeper.
Tick ==
    /\ \/ now < MaxTime
       \/ \E c \in Callers : pc[c] = "sleep" /\ now < slot_ns[c]
    /\ now < MaxNs
    /\ now' = now + 1
    /\ UNCHANGED <<next_ns, pc, current, now_ns, slot_ns, grants, returned>>

\* A task calls acquire().
Call(c) ==
    /\ pc[c] = "idle"
    /\ Len(grants) < MaxGrants
    /\ pc' = [pc EXCEPT ![c] = "load"]
    /\ UNCHANGED <<now, next_ns, current, now_ns, slot_ns, grants, returned>>

\* let current = self.next_ns.load(Relaxed)
Load(c) ==
    /\ pc[c] = "load"
    /\ current' = [current EXCEPT ![c] = next_ns]
    /\ pc' = [pc EXCEPT ![c] = "clock"]
    /\ UNCHANGED <<now, next_ns, now_ns, slot_ns, grants, returned>>

\* let now_ns = self.start.elapsed(), read after the load in every round
ReadClock(c) ==
    /\ pc[c] = "clock"
    /\ now_ns' = [now_ns EXCEPT ![c] = now]
    /\ pc' = [pc EXCEPT ![c] = "cas"]
    /\ UNCHANGED <<now, next_ns, current, slot_ns, grants, returned>>

\* base = max(current, now_ns): an idle limiter restarts from the present.
Base(c) == Larger(current[c], now_ns[c])

\* Mutant: the cursor is stored without comparing it (a load and a store).
StoreWithoutCompare(c) ==
    /\ pc[c] = "cas"
    /\ next_ns' = SaturatingAdd(Base(c), Interval)
    /\ slot_ns' = [slot_ns EXCEPT ![c] = Base(c)]
    /\ grants' = Append(grants, [slot |-> Base(c), at |-> now])
    /\ pc' = [pc EXCEPT ![c] = "check"]
    /\ UNCHANGED <<now, current, now_ns, returned>>

\* compare_exchange_weak(current, base + interval) succeeds: the slot is base.
CasOk(c) ==
    /\ pc[c] = "cas"
    /\ next_ns = current[c]
    /\ next_ns' = SaturatingAdd(Base(c), Interval)
    /\ slot_ns' = [slot_ns EXCEPT ![c] = Base(c)]
    /\ grants' = Append(grants, [slot |-> Base(c), at |-> now])
    /\ pc' = [pc EXCEPT ![c] = "check"]
    /\ UNCHANGED <<now, current, now_ns, returned>>

\* Mutant: a failed CAS retries with the value it returned, keeping the old
\* clock reading.
CasFailKeepsClock(c) ==
    /\ pc[c] = "cas"
    /\ current' = [current EXCEPT ![c] = next_ns]
    /\ UNCHANGED <<now, next_ns, pc, now_ns, slot_ns, grants, returned>>

\* Mutant: the cursor is loaded once, before the loop.
CasFailKeepsCursor(c) ==
    /\ pc[c] = "cas"
    /\ pc' = [pc EXCEPT ![c] = "clock"]
    /\ UNCHANGED <<now, next_ns, current, now_ns, slot_ns, grants, returned>>

\* compare_exchange_weak fails, because another caller moved the cursor or
\* spuriously: the loop starts over from the load.
CasFail(c) ==
    /\ pc[c] = "cas"
    /\ pc' = [pc EXCEPT ![c] = "load"]
    /\ UNCHANGED <<now, next_ns, current, now_ns, slot_ns, grants, returned>>

\* acquire() returns; its locals go out of scope.
Return(c) ==
    /\ pc' = [pc EXCEPT ![c] = "idle"]
    /\ returned' = returned + 1
    /\ current' = [current EXCEPT ![c] = 0]
    /\ now_ns' = [now_ns EXCEPT ![c] = 0]
    /\ slot_ns' = [slot_ns EXCEPT ![c] = 0]
    /\ UNCHANGED <<now, next_ns, grants>>

\* Mutant: the threshold is compared the wrong way round.
SkipSleepInverted(c) == slot_ns[c] - now >= Threshold

\* The clock is read again; a slot in the past (slot_ns <= now_ns) or less
\* than the threshold away (deficit_ns < SUB_MS_SKIP_THRESHOLD_NS) needs no
\* sleep.
SkipSleep(c) == slot_ns[c] - now < Threshold

CheckReturns(c) ==
    /\ pc[c] = "check"
    /\ SkipSleep(c)
    /\ Return(c)

\* Otherwise the caller sleeps for the deficit, that is until its slot.
CheckSleeps(c) ==
    /\ pc[c] = "check"
    /\ ~SkipSleep(c)
    /\ pc' = [pc EXCEPT ![c] = "sleep"]
    /\ UNCHANGED <<now, next_ns, current, now_ns, slot_ns, grants, returned>>

\* tokio::time::sleep returns at its deadline or any time later.
Wake(c) ==
    /\ pc[c] = "sleep"
    /\ now >= slot_ns[c]
    /\ Return(c)

Acquire(c) ==
    \/ Call(c)
    \/ Load(c)
    \/ ReadClock(c)
    \/ CasOk(c)
    \/ CasFail(c)
    \/ CheckReturns(c)
    \/ CheckSleeps(c)
    \/ Wake(c)

Next == Tick \/ \E c \in Callers : Acquire(c)

Spec == Init /\ [][Next]_vars

(***************************************************************************)
(* A task inside acquire() keeps being polled and the clock keeps running  *)
(* (weak fairness); a weak CAS that could succeed again and again does not *)
(* fail forever (strong fairness).                                         *)
(***************************************************************************)
Fairness ==
    /\ WF_vars(Tick)
    /\ \A c \in Callers :
         /\ WF_vars(Load(c))
         /\ WF_vars(ReadClock(c))
         /\ SF_vars(CasOk(c))
         /\ WF_vars(CasFail(c))
         /\ WF_vars(CheckReturns(c))
         /\ WF_vars(CheckSleeps(c))
         /\ WF_vars(Wake(c))

FairSpec == Spec /\ Fairness

-----------------------------------------------------------------------------
\* The variables hold what their Rust types and the bounds allow.
TypeOK ==
    /\ now \in 0..MaxNs
    /\ next_ns \in 0..MaxNs
    /\ pc \in [Callers -> PcValues]
    /\ current \in [Callers -> 0..MaxNs]
    /\ now_ns \in [Callers -> 0..MaxNs]
    /\ slot_ns \in [Callers -> 0..MaxNs]
    /\ grants \in Seq(Grant)
    /\ returned \in Nat

\* However the callers' CAS loops interleave, no two acquires get slots less
\* than interval_ns apart (until the cursor saturates at u64::MAX).
SlotsSpaced ==
    \A i, j \in 1..Len(grants) :
        i < j => \/ grants[j].slot >= grants[i].slot + Interval
                 \/ grants[j].slot = MaxNs

\* "An idle limiter resets to now rather than letting a stockpile of
\* back-dated slots leak out as a burst" (batch.rs:70-72): a slot never lies
\* before the moment the previous slot was claimed, so however long a caller
\* is descheduled between its clock read and its CAS, at most one
\* back-dated slot is outstanding.
NoStockpile ==
    \A i \in 1..(Len(grants) - 1) : grants[i + 1].slot >= grants[i].at

\* The aggregate rate is capped although sub-millisecond sleeps are skipped
\* (batch.rs:98-104): k acquires have returned only once k-1 intervals, less
\* the skipped threshold, have elapsed.
RateCap ==
    (returned > 0 /\ now + Threshold <= MaxNs) =>
        (returned - 1) * Interval < now + Threshold

\* The cursor only moves forward, by at least one interval a claim: no slot
\* is ever handed out again.
CursorAdvances ==
    [][next_ns' # next_ns => \/ next_ns' >= next_ns + Interval
                             \/ next_ns' = MaxNs]_vars

\* Every call of acquire() returns: lost CAS rounds, spurious failures and
\* sleeps all end.
AcquireReturns ==
    \A c \in Callers : pc[c] = "load" ~> pc[c] = "idle"
=============================================================================
