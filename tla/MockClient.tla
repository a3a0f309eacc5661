------------------------------ MODULE MockClient ------------------------------
(***************************************************************************)
(* BlasthttpMock of src/mock.rs, the fixture that stands in for a client,   *)
(* over the streaming batch of the client it passes excluded URLs on to.    *)
(*                                                                         *)
(* A dispatch takes, under the state's mutex, the first registered handler  *)
(* that fits and moves it to the recycled queue, from which it answers      *)
(* again once no fresh handler fits.  The batch iterator answers the        *)
(* intercepted configs one by one and then pulls chunks from the real       *)
(* client's iterator; request() follows redirects through the handlers.     *)
(* In a direct scenario Python iterates over the real client's stream.      *)
(***************************************************************************)
EXTENDS BatchStream

CONSTANTS
    None,            \* Option::None
    Scenarios,       \* what the test does: its client, the handlers it may
                     \* register and the bound on registrations, batch and call
    Excluded         \* hosts for which should_mock_fn returns False

ASSUME NoneAssumption == None \notin Nat

VARIABLES
    scenario,
    registered,      \* history: the handlers in the order of registration
    handlers,        \* MockState, as positions in registered
    recycled,
    log,             \* history: each dispatch and the handler it was given
    pending_mocks,   \* MockBatchIterState, as positions in the batch
    buffered,
    exhausted,
    mock,            \* where __anext__ of the mock's iterator is
    entry,           \* the config whose callback it awaits
    got,             \* history: the configs whose results it returned
    abandoned,       \* real __anext__ calls whose caller was cancelled
    dropped,         \* history: configs whose results cancelled calls lost
    call             \* the request() call

queueVars == <<registered, handlers, recycled, log>>
iterVars == <<pending_mocks, buffered, exhausted, mock, entry, got, abandoned, dropped>>
mockVars == <<vars, scenario, queueVars, iterVars, call>>

-----------------------------------------------------------------------------
(* Which handler fits a request.                                             *)

\* A str pattern is the set of one URL, a regular expression that of the URLs
\* it is found in.
UrlMatches(pattern, url) == pattern = None \/ url \in pattern

\* set_item of each header in turn: a name keeps its last value.
HeaderDict(headers) ==
    {headers[k] : k \in {k \in DOMAIN headers :
                           \A j \in DOMAIN headers : headers[j][1] = headers[k][1] => j <= k}}

\* An expected dict or JSON object asks for its own keys only.
SubsetMatch(expected, actual) == expected \subseteq actual

\* No body at all satisfies {} alone, and a body that is no JSON object nothing.
JsonSubsetMatch(expected, body) ==
    CASE body.kind = "empty" -> expected = {}
      [] body.kind = "other" -> FALSE
      [] body.kind = "object" -> SubsetMatch(expected, body.object)

Fits(h, request) ==
    /\ UrlMatches(h.url, request.url)
    /\ h.method \in {None, request.method}
    /\ h.kind = "response" =>
        /\ h.match_headers # None =>
               SubsetMatch(h.match_headers, HeaderDict(request.headers))
        /\ h.match_json # None => JsonSubsetMatch(h.match_json, request.body)

FirstFit(queue, request) ==
    {k \in DOMAIN queue : /\ Fits(registered[queue[k]], request)
                          /\ \A j \in 1..(k - 1) : ~Fits(registered[queue[j]], request)}

-----------------------------------------------------------------------------
(* Registration and dispatch.                                                *)

\* add_response and add_callback.
AddHandler(h) ==
    /\ Len(registered) < scenario.registrations
    /\ registered' = Append(registered, h)
    /\ handlers' = Append(handlers, Len(registered'))
    /\ UNCHANGED <<vars, scenario, recycled, log, iterVars, call>>

Logged(request, picked) ==
    log' = Append(log, [request |-> request, known |-> Len(registered), picked |-> picked])

\* Mutant: the handler is moved without a copy, so it answers only once.
TakeFreshOnce(k, request) ==
    /\ handlers' = RemoveAt(handlers, k)
    /\ Logged(request, handlers[k])
    /\ UNCHANGED <<registered, recycled>>

TakeFresh(k, request) ==
    /\ handlers' = RemoveAt(handlers, k)
    /\ recycled' = Append(recycled, handlers[k])
    /\ Logged(request, handlers[k])
    /\ UNCHANGED registered

\* pick_handler, under the mutex: a fresh handler, else a recycled one, else
\* "No mock response registered".
PickHandler(request) ==
    \/ \E k \in FirstFit(handlers, request) : TakeFresh(k, request)
    \/ /\ FirstFit(handlers, request) = {}
       /\ \E k \in FirstFit(recycled, request) : Logged(request, recycled[k])
       /\ UNCHANGED <<registered, handlers, recycled>>
    \/ /\ FirstFit(handlers \o recycled, request) = {}
       /\ Logged(request, None)
       /\ UNCHANGED <<registered, handlers, recycled>>

\* Of the dispatch just logged: its handler, whether it awaits a coroutine, and
\* what it may come to, None for an error.  A callback may raise or return
\* something else than a response.
Picked == Last(log').picked
Suspends == Picked # None /\ registered[Picked].kind = "coroutine"
Answers(id) ==
    CASE id = None -> {None}
      [] registered[id].kind = "response" -> {registered[id].answer}
      [] OTHER -> {None, registered[id].answer}

-----------------------------------------------------------------------------
(* request_batch_stream and the iterator it returns.                         *)

ShouldIntercept(url) == url.host \notin Excluded

\* The positions in S in input order: the next one is that with r - 1 before it.
InOrder(S) ==
    [r \in 1..Cardinality(S) |-> CHOOSE k \in S : Cardinality({j \in S : j < k}) = r - 1]

Intercepted(configs) == InOrder({k \in DOMAIN configs : ShouldIntercept(configs[k].url)})
PassedThrough(configs) == InOrder({k \in DOMAIN configs : ~ShouldIntercept(configs[k].url)})

\* The real client's stream is opened, and not yet polled, if there is a client
\* and something for it.  Without a client excluded configs are dropped.
PassthroughIter == scenario.real /\ PassedThrough(scenario.configs) # << >>

\* The configs are a list, and the excluded ones the N requests of the real
\* client's batch.
ASSUME ScenariosAssumption ==
    \A s \in Scenarios : /\ Len(s.configs) \in Nat /\ DOMAIN s.configs = 1..Len(s.configs)
                         /\ Len(PassedThrough(s.configs)) \in {0, N}

\* The configs of a chunk of the real client's results.
ConfigsOf(chunk) == [k \in DOMAIN chunk |-> PassedThrough(scenario.configs)[chunk[k]]]

\* Steps 1 and 2 of __anext__ return at once: a buffered result ...
DrainBuffered ==
    /\ mock = "idle"
    /\ buffered # << >>
    /\ got' = Append(got, Head(buffered))
    /\ buffered' = Tail(buffered)
    /\ UNCHANGED <<vars, scenario, queueVars, pending_mocks, exhausted, mock, entry, abandoned,
                   dropped, call>>

\* ... or the next intercepted config, which is popped and dispatched; an
\* error becomes its result.
DispatchMock ==
    /\ mock = "idle"
    /\ buffered = << >> /\ pending_mocks # << >>
    /\ pending_mocks' = Tail(pending_mocks)
    /\ PickHandler(scenario.configs[Head(pending_mocks)])
    /\ IF Suspends
       THEN mock' = "callback" /\ entry' = Head(pending_mocks) /\ UNCHANGED got
       ELSE got' = Append(got, Head(pending_mocks)) /\ UNCHANGED <<mock, entry>>
    /\ UNCHANGED <<vars, scenario, buffered, exhausted, abandoned, dropped, call>>

CallbackReturns ==
    /\ mock = "callback"
    /\ got' = Append(got, entry)
    /\ mock' = "idle"
    /\ entry' = None
    /\ UNCHANGED <<vars, scenario, queueVars, pending_mocks, buffered, exhausted, abandoned,
                   dropped, call>>

\* Step 3: __anext__ of the real iterator is called in a Python task, or there
\* is nothing (more) to pull.
Pull ==
    /\ mock = "idle" /\ ~scenario.direct
    /\ buffered = << >> /\ pending_mocks = << >>
    /\ IF PassthroughIter /\ ~exhausted
       THEN mock' = "pulling" /\ UNCHANGED exhausted
       ELSE mock' = "stopped" /\ exhausted' = TRUE
    /\ UNCHANGED <<vars, scenario, queueVars, pending_mocks, buffered, entry, got, abandoned,
                   dropped, call>>

\* Mutant: the result returned is the last of the chunk.
HandOverLast(chunk) ==
    /\ got' = Append(got, Last(chunk))
    /\ buffered' = Front(chunk)

\* The first result of the chunk is returned and the rest buffered.
HandOver(chunk) ==
    /\ got' = Append(got, Head(chunk))
    /\ buffered' = buffered \o Tail(chunk)

\* The real iterator runs one __anext__ at a time, in the order of the calls,
\* so its chunk goes to the calls nobody awaits any more before it goes to ours.
ChunkArrives ==
    /\ ~scenario.direct
    /\ Flush \/ EndFlushes
    /\ IF abandoned > 0
       THEN /\ abandoned' = abandoned - 1
            /\ dropped' = dropped \cup ToSet(ConfigsOf(batch))
            /\ UNCHANGED <<got, buffered, mock>>
       ELSE /\ HandOver(ConfigsOf(batch))
            /\ mock' = "idle"
            /\ UNCHANGED <<abandoned, dropped>>
    /\ UNCHANGED <<scenario, queueVars, pending_mocks, exhausted, entry, call>>

\* StopAsyncIteration of the real iterator, which it repeats for every call.
RealEnds ==
    /\ ~scenario.direct
    /\ EndStops
    /\ abandoned' = 0
    /\ UNCHANGED <<scenario, queueVars, pending_mocks, buffered, exhausted, mock, entry, got,
                   dropped, call>>

PullStops ==
    /\ mock = "pulling"
    /\ consumer = "stopped"
    /\ mock' = "stopped"
    /\ exhausted' = TRUE
    /\ UNCHANGED <<vars, scenario, queueVars, pending_mocks, buffered, entry, got, abandoned,
                   dropped, call>>

\* The Python task awaiting the mock's __anext__ is cancelled.  A config whose
\* callback it awaited is lost; the real __anext__ runs on in its own task.
CancelMock ==
    /\ mock \in {"callback", "pulling"}
    /\ cancels < MaxCancels
    /\ cancels' = cancels + 1
    /\ mock' = "idle"
    /\ IF mock = "callback"
       THEN dropped' = dropped \cup {entry} /\ UNCHANGED abandoned
       ELSE abandoned' = abandoned + 1 /\ UNCHANGED dropped
    /\ entry' = None
    /\ UNCHANGED <<producerVars, channel, consumer, batch, elapsed, delivered, completed, lost,
                   scenario, queueVars, pending_mocks, buffered, exhausted, got, call>>

\* The real stream's own steps; its __anext__ is called by the mock, or by a
\* Python that may cancel it or drop the iterator.
RealDriver == Driver /\ UNCHANGED <<scenario, queueVars, iterVars, call>>
RealTask(i) == Task(i) /\ UNCHANGED <<scenario, queueVars, iterVars, call>>
RealPoll ==
    /\ \/ ~scenario.direct /\ Anext /\ (abandoned > 0 \/ mock = "pulling")
       \/ ~scenario.direct /\ (Await \/ Receive)
    /\ UNCHANGED <<scenario, queueVars, iterVars, call>>
DirectIterate == scenario.direct /\ Iterate /\ UNCHANGED <<scenario, queueVars, iterVars, call>>
Meanwhile ==
    /\ \/ Elapse
       \/ scenario.direct /\ (CancelAnext \/ DropIterator)
    /\ UNCHANGED <<scenario, queueVars, iterVars, call>>

-----------------------------------------------------------------------------
(* request().                                                                *)

Ended(result) == call' = [call EXCEPT !.pc = "over", !.result = result]

\* An excluded URL goes to the real client, if there is one; what that client
\* does is its own.
Delegate ==
    /\ call.pc = "start"
    /\ ~ShouldIntercept(call.request.url)
    /\ Ended(IF scenario.real THEN "delegated" ELSE "error")
    /\ UNCHANGED <<vars, scenario, queueVars, iterVars>>

\* A Location that starts with a slash keeps scheme and host of the current URL.
Resolve(location, current) ==
    IF location.host = None THEN [location EXCEPT !.host = current.host] ELSE location

\* hops += 1; more than max_redirects of them are an error.  The next URL is
\* not looked up in should_mock_fn.
Hop(answer) ==
    IF call.hops + 1 > call.max_redirects
    THEN Ended("error")
    ELSE call' = [call EXCEPT !.pc = "next", !.hops = call.hops + 1,
                              !.request.url = Resolve(answer.location, call.request.url)]

\* Only a redirect status with a Location is followed.
Followed(answer) == call.follow_redirects /\ answer.redirect /\ answer.location # None

Answered(answer) ==
    CASE answer = None -> Ended("error")
      [] answer # None /\ ~Followed(answer) -> Ended("response")
      [] OTHER -> Hop(answer)

\* One turn of the loop dispatches the current URL ...
RequestDispatch ==
    /\ \/ call.pc = "start" /\ ShouldIntercept(call.request.url)
       \/ call.pc = "next"
    /\ PickHandler(call.request)
    /\ IF Suspends
       THEN call' = [call EXCEPT !.pc = "callback", !.handler = Picked]
       ELSE \E answer \in Answers(Picked) : Answered(answer)
    /\ UNCHANGED <<vars, scenario, iterVars>>

\* ... and looks at the answer, after the callback's coroutine if need be.
RequestCallbackReturns ==
    /\ call.pc = "callback"
    /\ \E answer \in Answers(call.handler) : Answered(answer)
    /\ UNCHANGED <<vars, scenario, queueVars, iterVars>>

-----------------------------------------------------------------------------
MockInit ==
    /\ Init
    /\ scenario \in Scenarios
    /\ registered = << >>
    /\ handlers = << >>
    /\ recycled = << >>
    /\ log = << >>
    /\ pending_mocks = Intercepted(scenario.configs)
    /\ buffered = << >>
    /\ exhausted = FALSE
    /\ mock = "idle"
    /\ entry = None
    /\ got = << >>
    /\ abandoned = 0
    /\ dropped = {}
    /\ call = scenario.call

\* An async for over the mock's iterator, or request_batch, which drains it.
MockIterate == DrainBuffered \/ DispatchMock \/ CallbackReturns \/ Pull \/ PullStops
Request == Delegate \/ RequestDispatch \/ RequestCallbackReturns

MockNext ==
    \/ \E h \in scenario.registrable : AddHandler(h)
    \/ MockIterate
    \/ ChunkArrives \/ RealEnds
    \/ CancelMock
    \/ RealDriver \/ RealPoll \/ DirectIterate \/ Meanwhile
    \/ \E i \in Requests : RealTask(i)
    \/ Request

MockSpec == MockInit /\ [][MockNext]_mockVars

\* The stream's fairness (FairSpec), and the runtime polls the real __anext__
\* tasks that the mock started.
MockFairSpec ==
    /\ MockSpec
    /\ WF_mockVars(RealDriver)
    /\ \A i \in Requests : WF_mockVars(RealTask(i))
    /\ WF_mockVars(RealPoll \/ ChunkArrives \/ RealEnds)

-----------------------------------------------------------------------------
\* "Mock results stream first (in input order), then passthrough results follow
\* (in completion order from the real client)" (mock.rs): what the iterator
\* returned and what it buffers are the intercepted configs in input order and
\* then the real client's results in its order, each once, less those of
\* cancelled calls; at its end nothing is left behind in any of its queues.
MockOrder ==
    LET kept == got \o buffered
        due == Intercepted(scenario.configs) \o ConfigsOf(delivered)
    IN  /\ ~scenario.direct =>
             /\ ToSet(kept) = ToSet(due) \ (ToSet(pending_mocks) \cup dropped \cup {entry})
             /\ \A j, k \in 1..Len(kept), p, q \in 1..Len(due) :
                  j < k /\ kept[j] = due[p] /\ kept[k] = due[q] => p < q
             /\ \A p, q \in 1..Len(due) : due[p] = due[q] => p = q
        /\ mock = "stopped" =>
             pending_mocks \o buffered = << >> /\ (PassthroughIter => consumer = "stopped")

\* Before dispatch i, g has answered, and that before h first did.
Used(g, i) == \E j \in 1..(i - 1) : log[j].picked = g
UsedBefore(g, h, i) ==
    \E j \in 1..(i - 1) : log[j].picked = g /\ \A l \in 1..j : log[l].picked # h

\* g is due before h: fresh handlers in the order of registration, then the
\* others in the order of their first answer.
DueBefore(g, h, i) ==
    IF Used(g, i)
    THEN Used(h, i) /\ UsedBefore(g, h, i)
    ELSE Used(h, i) \/ g < h

\* "Matches FIFO; once consumed, the response is recycled so subsequent matches
\* can reuse it" (mock.rs), whatever is registered or dispatched in between by
\* the iterator and by request(): a dispatch is given the first registered of
\* the fitting handlers that have not answered yet, else the one of them that
\* answered first, and fails only if none that fits was ever registered.
HandlersFifo ==
    \A i \in DOMAIN log :
        LET fitting == {h \in 1..log[i].known : Fits(registered[h], log[i].request)}
        IN  IF fitting = {}
            THEN log[i].picked = None
            ELSE /\ log[i].picked \in fitting
                 /\ \A h \in fitting \ {log[i].picked} : DueBefore(log[i].picked, h, i)

\* A consumer that keeps iterating reaches the end, of the real client's stream
\* (StreamEnds) or of the mock's, which is drained through to the end of the
\* real one after cancelled calls too; and request() returns even where the
\* handlers redirect in a circle.  Callbacks are taken to return.
CallsEnd ==
    /\ (scenario.direct /\ WF_mockVars(DirectIterate))
           => <>(consumer \in {"stopped", "dropped"})
    /\ (~scenario.direct /\ WF_mockVars(MockIterate) /\ WF_mockVars(Request))
           => <>(mock = "stopped" /\ call.pc = "over")
=============================================================================
