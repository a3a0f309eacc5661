------------------------------ MODULE RetryLoop ------------------------------
(***************************************************************************)
(* HyperClient::send of src/client/hyper.rs: attempts of send_inner, each  *)
(* under a timeout, with an exponential backoff between them.  An attempt  *)
(* is a redirect chain (RedirectChain) whose last response has its body    *)
(* read and decoded (BodyDecode).                                          *)
(***************************************************************************)
EXTENDS RedirectChain, BodyDecode

CONSTANTS
    MaxRetries,   \* config.max_retries()
    MinWait,      \* config.retry_wait_min()
    MaxWait,      \* config.retry_wait_max()
    Width,        \* bits the backoff factor is truncated to (u32: 32)
    Bodies        \* the bodies servers send, and how they arrive

ASSUME RetriesAssumption == MaxRetries \in Nat
ASSUME WaitAssumption == MinWait \in Nat /\ MaxWait \in Nat
ASSUME WidthAssumption == Width \in Nat \ {0}
ASSUME BodiesAssumption == \A b \in Bodies : IsBody(b)

VARIABLES
    phase,      \* where send() is
    attempt,    \* the loop variable
    waits,      \* history: the backoffs slept, in order
    parsed,     \* the last response's body: what was sent and what came of it
    result      \* what send() returned

vars == <<chainVars, phase, attempt, waits, parsed, result>>

\* A response with this status, or an error of this kind.
Responses == {"200", "429", "503"}
ErrorKinds == {"connection", "timeout", "tls", "invalid url", "too many redirects", "other"}

NoBody == [got |-> FALSE]

\* Mutant: errors of every kind are retried.
AnyErrorRetryable(o) == o \in ErrorKinds \cup {"429"}

\* ErrorKind::is_retryable
IsRetryable(o) == o \in {"connection", "429"}

-----------------------------------------------------------------------------
\* 2u64.saturating_pow(attempt): u64 is twice as wide as u32
Pow(a) == IF a >= 2 * Width THEN 2 ^ (2 * Width) - 1 ELSE 2 ^ a

\* retry_backoff: the factor is cast to u32 before the multiplication
RetryBackoff(a) ==
    LET backoff == MinWait * (Pow(a) % 2 ^ Width)
    IN  IF backoff < MaxWait THEN backoff ELSE MaxWait

Init ==
    /\ ChainInit
    /\ phase = "validate"
    /\ attempt = 0
    /\ waits = << >>
    /\ parsed = NoBody
    /\ result = "none"

\* config.validate_proxy() fails: no attempt is made.
InvalidProxy ==
    /\ phase = "validate"
    /\ phase' = "done"
    /\ result' = "other"
    /\ UNCHANGED <<chainVars, attempt, waits, parsed>>

\* send_inner is called: the chain starts at the caller's URL.
Attempt ==
    /\ phase' = "attempt"
    /\ pc' = "request"
    /\ outcome' = "none"
    /\ UNCHANGED <<config, locals, sent, attempt, parsed, result>>

FirstAttempt ==
    /\ phase = "validate"
    /\ Attempt
    /\ UNCHANGED waits

\* A step of send_inner.
Chain ==
    /\ phase = "attempt"
    /\ ChainNext
    /\ UNCHANGED <<phase, attempt, waits, parsed, result>>

\* parse_response of the chain's last response (its body is read before the
\* status is looked at; that of a redirect is read and dropped).
ParseBody(b) ==
    /\ phase = "attempt" /\ pc = "final"
    /\ LET response == ParseResponse(b)
       IN  IF response.error
           THEN outcome' = "connection" /\ pc' = "ended" /\ UNCHANGED parsed
           ELSE /\ parsed' = [got |-> TRUE, sent |-> b, body |-> response.body,
                              decode_error |-> response.decode_error]
                /\ pc' = "parsed"
                /\ UNCHANGED outcome
    /\ UNCHANGED <<config, locals, sent, phase, attempt, waits, result>>

\* The match on the attempt's result: go round the loop, or return it.
Conclude(o) ==
    /\ pc' = "idle"
    /\ outcome' = o
    /\ parsed' = NoBody
    /\ IF IsRetryable(o) /\ attempt < MaxRetries
       THEN phase' = "backoff" /\ attempt' = attempt + 1 /\ UNCHANGED result
       ELSE phase' = "done" /\ result' = o /\ UNCHANGED attempt
    /\ UNCHANGED <<config, locals, sent, waits>>

\* send_inner ends within the timeout, with a response or an error.
Responds(status) == phase = "attempt" /\ pc = "parsed" /\ Conclude(status)
Errs == phase = "attempt" /\ pc = "ended" /\ Conclude(outcome)

\* tokio::time::timeout elapses: send_inner is dropped and send() returns.
AttemptTimesOut ==
    /\ phase = "attempt"
    /\ phase' = "done"
    /\ pc' = "idle"
    /\ Dropped
    /\ outcome' = "timeout"
    /\ parsed' = NoBody
    /\ result' = "timeout"
    /\ UNCHANGED <<config, sent, attempt, waits>>

\* The backoff before attempt n is that of the n-1'th retry.
Backoff ==
    /\ phase = "backoff"
    /\ waits' = Append(waits, RetryBackoff(attempt - 1))
    /\ Attempt

Next ==
    \/ InvalidProxy
    \/ FirstAttempt
    \/ Chain
    \/ \E b \in Bodies : ParseBody(b)
    \/ \E status \in Responses : Responds(status)
    \/ Errs
    \/ AttemptTimesOut
    \/ Backoff

Spec == Init /\ [][Next]_vars

-----------------------------------------------------------------------------
\* The n'th wait.  The comment of retry_backoff promises min(2^(n-1) * min_wait,
\* max_wait) (hyper.rs:1559); the cast to u32 keeps that while the factor fits its
\* width only.  From there on the waits are 0, and once the power itself has
\* saturated, a factor of all ones.
NthWait(n) ==
    LET factor == IF n <= Width THEN 2 ^ (n - 1) ELSE IF n <= 2 * Width THEN 0 ELSE 2 ^ Width - 1
        backoff == factor * MinWait
    IN  IF backoff < MaxWait THEN backoff ELSE MaxWait

\* Only a connection error or a 429 is tried again, no 5xx although mod.rs:25 has
\* them "retryable for 429, 500-599 (except 501)"; never more than max_retries
\* times, and each time after the wait that NthWait says, be the retries so many
\* that it is none.  What send() returns is what its last attempt came to, so that
\* a final 429 is a response and not an error and the fall-through after the loop
\* ("all retries exhausted") is dead.
RetryDiscipline ==
    /\ attempt <= MaxRetries
    /\ phase = "backoff" => outcome \in {"connection", "429"}
    /\ phase = "attempt" => Len(waits) = attempt
    /\ \A n \in 1..Len(waits) : waits[n] = NthWait(n)
    /\ phase = "done" => result # "none" /\ (outcome # "none" => result = outcome)

\* One call of send() puts at most so many requests on the wire: a chain ends
\* at redirect_limit, a direct request is one, and each attempt has its own
\* count.  A rate limiter asked once per call is passed by as many.
RequestsBounded ==
    LET chain == IF direct THEN 1 ELSE RedirectLimit + 1
    IN  Len(wire) <= chain /\ sent <= (attempt + 1) * chain

\* A retry repeats the caller's request: its first hop is the caller's URL
\* without a cookie that an earlier attempt, failed or timed out, picked up.
AttemptsStartAfresh ==
    /\ wire # << >> => wire[1].uri = origin /\ wire[1].cookies = << >>
    /\ pc \in {"idle", "ended"} => cookies = << >> /\ hop_cookies = << >>

\* The header names the codings the body has, in their order.
Truthful(b) ==
    LET names == Codecs(b.declared)
        Names(token, flavour) ==
            CASE flavour \in {"zlib", "raw"} -> token = "deflate"
              [] flavour = "gzip" -> token \in {"gzip", "x-gzip"}
              [] flavour = "br" -> token = "br"
    IN  /\ Len(names) = Len(b.codings)
        /\ \A i \in 1..Len(names) : Names(names[i], b.codings[i].flavour)

\* "None when body is content: every declared coding came off, and each decoder
\* read its stream through to a clean end" (hyper.rs, Decoded): a coded body
\* that comes back without a decode_error is the content, or as much of it as
\* the cap holds, wherever the wire or the cap cut it and whatever was damaged.
CleanMeansContent ==
    (parsed.got /\ ~parsed.decode_error /\ parsed.sent.codings # << >> /\ Truthful(parsed.sent)
       /\ OnTheWire(parsed.sent) # << >>)
    => /\ IsPrefix(parsed.body, parsed.sent.content)
       /\ parsed.body = parsed.sent.content \/ Len(parsed.body) = MaxBody

\* A body that arrives whole and fits the cap in every layer is decoded and not
\* flagged: both shapes of deflate, a header split over lines or with identity
\* in it, however the wire was framed; a size that just meets the cap included.
WholeIsNeverFlagged ==
    LET b == parsed.sent
    IN  (parsed.got /\ b.fault = "none" /\ Truthful(b)
           /\ (\A k \in 0..Len(b.codings) : Len(Layers(b)[k]) <= MaxBody)
           /\ (\A k \in 1..Len(b.codings) : ~b.codings[k].bad_sum))
        => ~parsed.decode_error /\ parsed.body = b.content
=============================================================================
