# A TLA+ model of blasthttp

blasthttp is a Rust HTTP client with a Python binding: a tokio/hyper engine
(`src/client`), batch dispatch with rate limiting (`src/batch.rs`), a redirect
loop with its own cookie handling (`src/cookies.rs`), an HTTP/2 probe with its
own HPACK codec (`src/h2`), and the `BlastHTTP` class Python programs use
(`src/python.rs`). This directory models the parts with state, concurrency or
limits, checks them with TLC and proves their safety with TLAPS, the HTTP/2 frames
excepted; liveness is model-checked.
`PROJECT.json` maps every definition to the lines it models.

Paths below are relative to the repository.

## Inventory

| Component | State it keeps | Operations | Works with |
|---|---|---|---|
| Rate limiter, `src/batch.rs` | one `AtomicU64` cursor, the start instant | `new`, `acquire` | called by every request path, from any number of tasks |
| Batch dispatch, `src/batch.rs` | semaphore, join handles, result vector | `send_batch` | limiter, `HttpClient::send` |
| Streaming batch, `src/batch.rs`, iterator in `src/python.rs` | semaphore, unbounded channel, sender clones, the chunk being filled | `send_batch_stream`, `__anext__`, drop, cancellation | limiter, `HttpClient::send`, the asyncio event loop |
| Client rate limits, `src/python.rs`, `merge_limiters` | the client's `Option<Arc<RateLimiter>>` | `set_rate_limit`, `request`, `download`, `request_batch(_stream)`, `raw_connect` and its operations | limiters |
| Retry loop, `src/client/hyper.rs` | attempt counter, last error | `send`, `retry_backoff` | `send_inner`, tokio timeouts |
| Redirect chain, `src/client/hyper.rs` | current URI, hop counter, chain cookies, recorded hops | `send_inner`, `resolve_redirect`, `conn_mode` | cookies, proxy selection, connection cache |
| Chain cookies, `src/cookies.rs` | the cookies of one chain | `store`, `header_for`, `parse_set_cookie`, scoping | redirect chain, Public Suffix List |
| Connection cache, `src/client/hyper.rs` | a client per mode, each with a peer map and a certificate slot | `get_or_build`, the connector's `call`, the reads of both slots | hyper's pool, OpenSSL |
| Proxy selection, `src/config.rs` | none (pure) | `effective_proxy`, `host_bypasses_proxy`, `validate_proxy` | redirect chain |
| Raw connections, `src/client/raw.rs`, `src/python.rs` | a stream behind an async mutex | `connect`, `send_bytes`, `read_raw`, `close` | client limits |
| Proxy handshakes, `src/client/proxy.rs`, `connect_stream` | protocol position on one socket | `perform_http_connect`, `perform_socks5` | connector, raw connections |
| Body decoding, `src/client/hyper.rs` | bytes read and produced so far | `read_body`, `decompress`, `decode_deflate` | response parsing, flate2 and brotli |
| HPACK codec, `src/h2/hpack.rs`, `src/h2/huffman.rs` | the decoder's dynamic table, its size and limit | `encode_headers`, `Decoder::decode_headers` | HTTP/2 probe, Python |
| HTTP/2 frames and probe, `src/h2` | none | frame builders, `build_probe` | HPACK, raw connections |
| Mock client, `src/mock.rs` | fresh and recycled handlers; per iterator the pending configs and buffered results | `add_response`, `add_callback`, `request`, `request_batch(_stream)`, the iterator | Python callbacks, a real client's stream |
| Response object, multipart bodies, command line | values | accessors, encoding, argument parsing | - |

What is hard in this code, and what therefore has to be right:

* **Concurrency without locks.** Callers of one limiter race on a CAS. Slots must
  stay one interval apart, none may be handed out twice, an idle limiter must not
  build up a stockpile, and every caller must get its turn.
* **Permits, tasks and channels.** A permit must be held exactly while a request
  runs, whether it finishes, panics or its caller goes away; the list must come
  in input order, the stream in completion order; the end of the stream must
  mean that nothing is still on its way.
* **State that is replaced or overwritten under somebody's feet.** A changed rate
  limit while batches run, a peer map and a certificate slot shared by all
  requests of a connection mode, a cache filled by whoever comes first.
* **Decisions that have to follow a chain.** For each hop the proxy decision, the
  cookies and the connection mode are those of that hop's target.
* **Limits.** `redirect_limit`, `max_retries`, the cookie ceilings, `max_body_size`
  on both sides of a decoder, the width of the backoff factor, of the cursor and
  of HPACK's integers, and their product: attempts times hops for one token.
* **Two ends that must agree.** The HPACK decoder's table with the peer's, over
  every block of a connection; encoder with decoder; frames with whoever reads
  them; a flag on a body with what the server sent.

`PROJECT.json` lists these as hazards, each at its line, with the properties
that would catch it; a hazard without one says why.

## The modules

    RateLimiter  <---- RateLimiterProofs          (proofs)
    BoundedDispatch  <-- refined by -- SendBatch  <---- SendBatchProofs
                     <-- refined by -- BatchStream  <--- MockClient  <--- MCMock;  StreamProofs
    ClientLimits  <--- MCClientLimits;  ClientLimitsProofs
    ChainCookies  <--- RedirectChain  <---+
                       BodyDecode     <---+-- RetryLoop  <--- MCSend;  SendProofs
    ConnCache     <--- MCConnCache;  ConnCacheProofs
    ProxyTunnel   <--- RawConnection  <--- MCRawConnection;  RawConnectionProofs
    Huffman  <--- Hpack  <--- H2Frames  <--- H2Toolkit  <--- MCH2;  H2Proofs

Definitions marked `Mutant:` are plausible mistakes. They are part of no
specification: each replaces the definition that follows it when one wants to
see that a property notices the mistake.

### RateLimiter

`acquire()` of `src/batch.rs`. Each shared access is an action of its own: the
load of the cursor (`Load`), the first clock reading (`ReadClock`), the weak CAS
(`CasOk`, and `CasFail`, which may also be spurious), the second clock reading
with the decision to sleep (`CheckReturns`, `CheckSleeps`) and the return from
the sleep (`Wake`). So callers interleave between any two of them. `Tick` moves
the monotonic clock. The cursor saturates at `MaxNs` as the `u64` does. All
orderings in the code are `Relaxed`; there is a single atomic, whose
modification order is total, and no other memory is published through it, so
interleaving loses no behaviour. `grants` (slot and time of each successful CAS)
and `returned` are history.

### SendBatch, BatchStream and BoundedDispatch

`SendBatch` is `send_batch`: the caller's future paces and spawns
(`Pace`, `Spawn`), each task waits for a permit (`AcquireFree`, `AcquireQueues`,
`Resume`), sends and ends or panics (`End`), and the future collects the handles
in input order (`Join`, `Return`) unless it is dropped at an await (`Cancel`).

`BatchStream` is `send_batch_stream` with the Python iterator on top. Its driver
takes the permit *before* it spawns (`Dispatch`); a task's end is three steps
(`Send`, `DropPermit`, `DropSender`) because the consumer can run between them,
and `Panic`. The iterator is the loop of `__anext__`: `Flush` at the top, `Await`
(whose first occurrence spawns the driver: `stream::once` is lazy), `Receive`,
`EndFlushes` (a last, partial chunk) and `EndStops`; Python can cancel a call (`CancelAnext`) or drop the iterator
(`DropIterator`). The async mutex around the stream serialises `__anext__` calls,
so there is one consumer.

tokio's semaphore and the channel are external: FIFO queues as far as this code
can tell.

`BoundedDispatch` is what both promise: each request is sent at most once, at
most `Concurrency` are in flight, and a result is delivered at most once and only
for a request that is over. Both modules instantiate it as `Promise` with a
refinement mapping, and TLC checks `Promise!Spec` as the property `PromiseKept`.

### MockClient

`src/mock.rs`, on top of `BatchStream`: the mock's iterator pulls from the real
client's iterator, so that stream is the one of `BatchStream` with all its
actors, and one run covers both ways of using it (`scenario.direct`: Python
iterates the real stream itself). Handlers are registered at any time
(`AddHandler`). `PickHandler` is `pick_handler` under its mutex: the first fresh
handler that fits (URL, method, headers and JSON as subsets), which is recycled;
else the first recycled one; else an error. A coroutine callback suspends its
caller (`CallbackReturns`, `RequestCallbackReturns`), and meanwhile others pick.
`__anext__` is its three steps in order: `DrainBuffered`, `DispatchMock`, `Pull`
with `ChunkArrives` or `PullStops`. `request()` is its loop over redirects
(`RequestDispatch`, `Answered`, `Hop`) or `Delegate`. A handler's answer is what
the loop looks at (a redirect or not, its Location); bodies, headers and their
conversions are left out.

A cancelled `__anext__` (`CancelMock`) is taken from how pyo3_async_runtimes
works: the Rust future is dropped, while the real client's `__anext__`, which
`into_future` wrapped into a Python task of its own, runs on and takes a chunk
with it that nobody awaits (`abandoned`).

### ClientLimits

The limiters of one `BlastHTTP` object. `SetRateLimit` replaces the shared one;
`Request`, `RequestBatch` and `RawConnect` capture the one in place, a batch
after `merge_limiters` (`PrivateWins`). Here an `acquire()` takes its slot in one
step (`Acquire`); that concurrent `acquire()`s amount to this is what `SlotsSpaced`
of `RateLimiter` says. It then reads the clock again and sleeps (`Sleep`), or skips
a sleep shorter than the threshold (`SkipSleep`), so that `Send` may come that much
before its slot. Both properties allow for it (`Within`): of any number of tokens
only the last may be early, and by less than the threshold.

### ChainCookies and RedirectChain

`ChainCookies` is `src/cookies.rs` as operators: the scope a `Domain` attribute
gives a cookie, path matching, and `store`/`header_for` with the three ceilings.
Hosts are sequences of labels and paths sequences of segments, so that suffix
and prefix matching are the real ones. The Public Suffix List is a constant.

`RedirectChain` is the loop of `send_inner`, over these operators and over
`config.rs`' proxy selection. A `store` call is one `Store` step per Set-Cookie
header followed by `Advance`, which chooses the next hop's cookies. Servers
answer anything: any Location among `Uris`, any header among `SetCookies`.
A request with `resolve_ip` or `request_target` takes the other way through
`send_inner` (`direct`): one request on a connection of its own, no redirects and
no chain cookies (`DispatchDirect`, `DirectFails`). `Dropped` is what becomes of
the locals when `send_inner` returns or its future is dropped.

### RetryLoop

`HyperClient::send`: proxy validation, attempts, the timeout around each, backoff.
An attempt is a behaviour of `RedirectChain` (`Chain`) that ends in an error
(`Errs`), in a response whose body is read and decoded (`ParseBody`, `Responds`)
or in the timeout, which can come between any two of its steps
(`AttemptTimesOut`). So it is the composition of the two, with the bodies of
`BodyDecode`. `Width` is the number of bits of the backoff factor (32 in the
code); `Pow` saturates at twice as many.

### BodyDecode

From the frames of a body to what the caller gets: `read_body` with its cap on
the wire, the walk over the declared encodings from the last to the first
(`Unwrap`), `decode_deflate` with its two flavours, and `read_bounded` with the
cap on the output. A body is a sequence of units; a coding makes of it a head,
blocks that each hold as many units as its ratio says, and an end. That is all
the properties need of gzip, zlib, raw deflate and brotli: whether a decoder
starts, how far it gets, whether it ends cleanly. Servers may cut or damage a
body, send a wrong checksum, declare other encodings than they used, or a raw
stream whose first bytes look like a zlib header (`lucky`).

### ConnCache

The `cached` map of `HyperClient`, with several requests running at once. A
request decides its proxy (`EffectiveProxy`) and its mode, anew for each hop (`Begin`,
`Redirect`), gets or builds the client
(`GetOrBuild`, `BuildFails`), dials or reuses a connection (`Dial`, `Handshake`,
`Checkout`, ...), and then reads the two slots that it shares with all other
requests of its mode, each under its own lock and at its own time (`ReadPeer`,
`ReadCert`). The peer map is a function on all authorities, `None` where nothing
was dialled yet. hyper's pool is external and over-approximated: any idle connection
of the client to the target may be used, a dial may go on after its request was
served or given up, and a server may close an idle connection at any time.
Over-approximation is sound for the properties checked here; the violated one
needs no more than two requests, one after the other.

### ProxyTunnel and RawConnection

`ProxyTunnel` is `connect_stream` with `perform_http_connect` and
`perform_socks5`. The peer's bytes are numbers that arrive one at a time, so a
read sees them cut at every possible place: `ReadConnect` takes what is there, as
`tcp.read` does, and the SOCKS5 steps wait for as many bytes as their
`read_exact`. SOCKS5 replies are byte for byte the real ones; a CONNECT reply is
its status line, header lines and the end of its head, one "byte" each, against a
buffer of `BufMax`. The proxy (`Answer`) may answer every code and address type,
fall silent or close; each stage is under a timeout (`TimesOut`).

`RawConnection` continues with the stream this opened: `send_bytes`, `read_raw`
and `close` of several Python tasks behind one mutex, which tokio grants in queue
order. `Write` puts one byte out at a time, so a cancelled `send_bytes` can stop
half way; `read_raw` comes with and without a timeout. The peer may stop reading
at any time (`PeerStalls`): without `room` in the socket `Write` and `Flush` wait, as
does the `close_notify` of a TLS `Shutdown`, under no timeout and with the mutex held.

### Huffman, Hpack, H2Frames and H2Toolkit

On bytes, because bytes are what they are about. `Huffman` and `Hpack` are
`huffman.rs` and `hpack.rs`; the code table and the static table are constants.
The decoder's table is kept by the code's loops (`Evict`, `Add`, `Resize`); the
peer's (`PeerAfter`) by the rule of RFC 7541, as the longest beginning that fits.
`H2Frames` has the builders of `frame.rs` and `probe.rs`, and an independent
reader of frames after RFC 9113. A 32-bit word is its four bytes.

`H2Toolkit` is what Python sees of it: a decoder that lives as long as its
connection (`PeerSends`: any legal block, perhaps cut), and calls without state. A
conforming peer may set its table to any size up to the announced one, and back
up again (`PeerMay`, `Raises`).

## The runs

All of them check deadlock off, because each of these systems really stops: a
batch returns, a chain ends, or the bound on a counter is reached. Where
stopping early would be a fault a liveness property says so.

| Run | Instance | Shows |
|---|---|---|
| `limiter` | 2 callers, 4 slots, cursor of 0..8, clock past one interval, interval 3, threshold 2 | slots are spaced (`SlotsSpaced`), no stockpile (`NoStockpile`), the returned calls are within the rate despite skipped sleeps (`RateCap`), the cursor advances (`CursorAdvances`) and every call returns (`AcquireReturns`) |
| `batch` | 4 requests, 2 permits | `PermitsConserved`, `ResultsInInputOrder`, refinement (`PromiseKept`); `BatchReturns`: the batch returns, and what was spawned ends although tasks panic and callers cancel |
| `stream` | 3 requests of the real client, 2 permits, chunks of 2, one cancelled call; 7 scenarios of configs, handlers and a concurrent `request()` | `CompletionOrder` (the end of the stream included), `MockOrder`, `HandlersFifo`, refinement (`PromiseKept`), `DispatchRunsToCompletion`, `CallsEnd` |
| `stream_starved` | 2 requests | *violated*: `NeverStarved` |
| `send` | 3 retries with a factor of 2 bits, 2 redirects, 6 URIs, 3 Set-Cookies out of 16, an HTTP proxy with exceptions, bodies under up to two codings against a cap of 6 | `RetryDiscipline`, `RequestsBounded`, `AttemptsStartAfresh`, `CookieStaysHome`, `ProxyFollowsHop`, `CallerWins`, `CleanMeansContent`, `WholeIsNeverFlagged`, `RefusalCostsNothing` |
| `conn_cache` | 2 requests of 2 hops, 3 targets on 2 hosts, 2 connections, 2 addresses, 3 settings, 3 kinds of proxy, one host in `no_proxy` or none | `SettingsNotShared`, `PeerIpWasUsed` |
| `conn_cache_cert` | 2 requests, direct | *violated*: `NoCertForPlainHttp` |
| `raw` | 7 configurations, 2 operations, 2 bytes from the target, a 3-"byte" CONNECT buffer, a peer that may stop reading | `TunnelGranted` (a reply at the buffer's limit included), `TunnelAligned`, `WritesDoNotMix`, `ClosedForGood`, `ConnectEnds`, `OperationsReturn` |
| `tunnel` | a plain target behind an HTTP proxy | *violated*: `BytesArriveAsSent` |
| `client_limits` | 2 calls of up to 3 tokens, intervals 1 and 3, threshold 2, a clock of 0..3, 2 changes of the limit | `StricterLimitWins`, `SharedLimitHolds` |
| `client_limits_batches` | the same | *violated*: `BatchesCollectivelyUnderLimit` |
| `h2` | connections of 3 blocks over a table of 110 bytes, 16-bit integers, 9 letters | `EncodedReadsBack`, `PeerInSync`, `HuffmanCanonical`, `IntegerExact`, `FramesReadBack` |

### Why the bounds are enough

* `limiter`: two callers produce every race on one cell (a third can only do what
  either of the two does), and the theorems hold for any number. The fourth slot
  is past `MaxNs`, so saturation is reached; the clock runs past one interval, so
  a caller can be held up between its clock reading and its CAS long enough for a
  back-dated slot to show; the interval is larger than the
  threshold and the threshold larger than one tick, so a sleep is skipped in
  some behaviours and slept in others.
* `batch`, `stream`: one request more than the permits makes somebody wait; `batch`
  has two more so that the queue has an order. Chunks of two fill up, flush on
  time and are left partial. One cancelled call is enough to lose a chunk and
  iterate on.
* `stream`, through the mock: the scenarios mix intercepted and excluded configs,
  handlers that fit by URL, method, headers and JSON, coroutines that suspend, and
  a `request()` whose redirects draw from the same queues. Three real requests in
  chunks of two leave a buffered result and a partial chunk.
* `send`: with three retries a retry is itself followed by one, after either
  retryable ending; the waits are 2, 3 and 0: the second is doubled and meets the
  cap, the third is past the width of the factor. That a power which has itself
  saturated cuts to all ones (from the 65th retry of the code on) is left to the
  theorem. Two redirects visit three
  hosts, so a cookie can be set on the first and travel past the second; the
  ceilings are such that two small cookies fit and a small with a large one do
  not, so a replacement can be too large. Bodies are shorter than the cap,
  exactly as long and longer, before and after decoding, and each fault hits each
  layer.
* `conn_cache`: two connections of two requests over two addresses overwrite each
  other's slots in every order. A redirect between two hosts one of which is in
  `no_proxy` changes the mode on the way.
* `raw`: CONNECT replies are shorter than, as long as and longer than the buffer;
  SOCKS5 replies have each address type, and names of no and of two bytes
  (`NameLengths`; any lengths of 0..255 in the proofs). The
  properties of the operations are about pairs (two writers, a reader and a
  writer, a waiter and a close), so two operations have every race.
* `h2`: three short entries fill the table and a fourth evicts; entries of exactly
  the table's size and one byte more, size updates to nothing, one and two
  entries and back up to the announced size, references to the newest, the oldest and a missing one. Strings have
  lengths on both sides of the prefixes' limits (126, 127, 128, 200, 255), each with
  and without filler that moves them, past the width included. The unary code of
  `MCH2` is complete, as that of RFC 7541 is, and its end-of-string symbol is
  longer than a byte, so padding of seven and of eight ones occurs. Two groups
  and a half fill 16 bits, so the last group is tried with bits on both sides of
  the width.
* `client_limits`: two changes of the limit leave two old limiters in use, next to
  a private one. One interval is below the threshold, so that sleeps are skipped
  until the debt reaches it, and one above; three tokens of a call are enough for
  both.

`MaxTime`, `MaxGrants`, `MaxSetCookies`, `MaxHops`, `MaxConns`, `MaxLimits`,
`MaxElapsed`, `MaxCancels`, `MaxHeaders`, `MaxData`, `MaxBlocks`, `MaxMissing`, the
scenarios' number of registrations and the small sets of inputs in the MC modules
are the only bounds that the code does not have.

### Fairness

* A ready tokio task is polled eventually: weak fairness of the steps of a caller
  inside `acquire()`, of the batch's driver and of each task. A send ends because
  every attempt runs under `tokio::time::timeout`.
* The clock runs: weak fairness of `Tick`.
* A weak CAS that can succeed again and again does succeed: strong fairness of
  `CasOk`. The loop is lock-free and not wait-free, so that a *particular* caller
  gets through rests on the others not winning every race forever; here it also
  follows from the finite number of grants.
* A raw connection's peer owes nothing but the arrival of what it sent: it need
  neither answer nor read. `ConnectEnds` holds because every stage of a handshake is
  under a timeout. `OperationsReturn` rests on the timeout of a read that has one.
  The other waits have none: a read without a timeout, a write or a flush that a
  peer leaves no room for, and a `close` over TLS in the same place may keep the
  mutex forever, and everyone in its queue waits with them. The property names
  exactly these holders (`WaitsOnPeer`).
* Python owes nothing. It may stop iterating, cancel or drop. `CallsEnd` is
  therefore an implication, with weak fairness of the iteration ("`async for`
  keeps asking") and of the callbacks' return as its hypotheses. The real
  `__anext__` tasks that the mock started are tasks of the event loop: they are
  polled (weak fairness) whether or not anybody still awaits them.

### Where the code and its documentation disagree

Each violated run states what a comment or the README says, and TLC refutes it.

* `stream_starved`: `__anext__` looks at its 200ms only between two results. While
  `stream.next()` is pending it is not under a timeout, so a chunk that holds
  results is held back until the next result arrives.
* `conn_cache_cert`: a plain response reports the certificate of the last TLS
  handshake of the same client.
* `client_limits_batches`: a batch with a stricter rate of its own does not count
  towards the client's limit, so two batches can exceed it together. README.md:406
  has the client's limit take precedence over the per-call one; in the code, as in
  the comment of `merge_limiters`, the stricter wins (`StricterLimitWins`).
* `tunnel`: `perform_http_connect` reads into an 8KB buffer and drops it. If the
  target speaks first, what arrives in one read with the end of the proxy's reply
  is lost. Over TLS the target waits for the client; plain targets
  (`raw_connect` to `http://`) are exposed.

Other properties pass because they state what the code does where it departs
from its own text, the departing case included and exact. `PROJECT.json` lists
these as findings too:

* `RetryDiscipline` in `send`. `factor as u32` in `retry_backoff` is 0 from the 33rd
  retry on (and all ones from the 65th), although the comment says
  min(2^attempt * min_wait, max_wait): `NthWait` has each wait, and with
  `Width = 2` the third retry of the run follows at once. The comment on
  `ErrorKind::Status` (`src/client/mod.rs:25`) calls 500-599 retryable, `is_retryable`
  only 429: the property has no 503 retried.
* `PeerInSync` in `h2`. A size update is compared with `max_table_size`, which the
  last size update lowered. A peer that goes back up, within the announced size as
  it may, is refused, although the field is documented as the peer's
  SETTINGS_HEADER_TABLE_SIZE and the error says "exceeds peer-announced max". The
  property says that such an update of a peer in step always is, aloud, and that
  nothing else of a conforming peer is ever refused or misread.
* `EncodedReadsBack` in `h2`. `write_integer` puts its filler bytes in front of the
  last group, which moves that group up by seven bits each, although the comment
  (`src/h2/hpack.rs:126-128`) calls the result an overlong encoding of the same
  number. The property is an equivalence: headers read back if and only if no
  length of theirs is moved (`LengthFits`): no filler, a length below 127, or 127
  while the filler stays within the width.
* `IntegerExact` in `h2`. Of an integer wider than 32 bits `checked_shl` drops bits
  instead of reporting the overflow its error is named for.

Noted while modelling, without a property that turns on it:

* "A cookie may only widen within one registrable domain" (`src/cookies.rs:25`): a
  `Domain` is compared with the registrable domain of the host that *sets* it;
  `header_for` only asks whether the receiving host is that `Domain` or under it.
  So a cookie of `amazonaws.com` for `amazonaws.com` goes to a site under the listed
  suffix `s3.amazonaws.com`, a registrable domain of its own. `CookieStaysHome`
  says what holds, and is proved: the receiver is under the setter's registrable
  domain. An earlier form of that property, with the receiver's, was true of the
  instance and turned out false in the attempt to prove it; `send` now has a URI
  above the suffix.
* The redirect hops and retries of a request take no further token, so the rate on the wire can
  exceed the limit, by the factor of `RequestsBounded`; the `connect_timeout` of
  the config that first builds a client stays with it; `concurrency = 0` makes a
  batch wait forever.
* HPACK: a block that is refused half way leaves what it added in the table. That a
  frame's payload is below 2^24 bytes is asserted, and so the caller's duty.
* Bodies: `GzDecoder` reads the first member of a multi-member gzip body and
  reports nothing about the rest; a checksum is not looked at when the output fills
  the cap exactly. `CleanMeansContent` says what an unflagged body is in these
  cases. The body of a redirect is read, decoded and dropped, so that an error
  while reading it is a connection error of the whole attempt.
* Mock: recycled handlers are used in the order they were first *consumed*, not
  registered; a redirect to an excluded host still goes to the handlers; without a
  real client an excluded config is silently missing from a batch, while
  `request()` raises; `pick_handler` calls into Python (a regular expression's
  `search`, `json.loads`) while it holds the mutex, so two Python threads could
  wait for GIL and mutex crosswise; a cancelled pull loses a chunk. Two `__anext__`
  calls at once on one mock iterator can swap results; the model has one consumer.

## The proofs

`RateLimiterProofs` proves, for any set of callers, any positive interval, any
threshold and any width of the cursor:

| Theorem | States |
|---|---|
| `TypeCorrect` | `Spec => []TypeOK`: nothing leaves the range of a `u64` |
| `SlotsAreSpaced` | `Spec => []SlotsSpaced` |
| `StockpileNeverForms` | `Spec => []NoStockpile` |
| `CursorOnlyAdvances` | `Spec => CursorAdvances` |
| `RateIsCapped` | `Spec => []RateCap` |

They rest on the assumptions of `RateLimiter` alone: `Interval` and `Threshold`
are positive, `MaxNs` and the bounds natural numbers.

`TypeOK` is inductive by itself (`TypeStep`). `SlotsSpaced` is not: whether a new
slot is far enough from the old ones depends on what the caller loaded earlier.
The inductive invariant `IInv` adds

* `CursorPastSlots`: the cursor is at least one interval past every slot handed
  out, or saturated;
* `LoadedCursorNotAhead`: no caller has loaded more than the cursor holds now;
* `GrantsInThePast`: every claim happened at a time that has been;
* `FreshClock`: a caller about to do its CAS, whose loaded cursor is still the
  current one, read its clock no earlier than the last claim was made. This is
  where it matters that the clock is read *after* the load in every round, and it
  is what makes `NoStockpile` go through.

`CasOkStep` proves that a successful CAS keeps `IInv`: a CAS succeeds only on the
value that was loaded, so the new slot is at least the cursor, which is past
all earlier ones. `OtherStep` covers all other actions, which leave cursor and
history alone. `SaturatingAddBounds` and `GrantFields` are the facts about the
data both use.

`RateCap` counts the calls that have returned. Its invariant `RateInv` relates
counts instead of going through the history. A call that holds a slot and has
not returned is pending, and due at a time `t` if it may have returned by then.
`CursorCountsClaims`: the cursor is an interval past the slots of all returned and
pending calls. `DueWithinRate`: for every time still to come, what has returned by
now and what will be due then are together no more than that time allows. So a
claim adds a slot past all that are counted, and a call that returns was due
already.

`SendBatchProofs` proves, for batches of every length and every `Concurrency`
(zero included; the assumptions are that both are natural numbers):

| Theorem | States |
|---|---|
| `TypeCorrect` | `Spec => []TypeOK` |
| `PermitsAreConserved` | `Spec => []PermitsConserved` |
| `ResultsComeInInputOrder` | `Spec => []ResultsInInputOrder` |
| `SendBatchKeepsPromise` | `Spec => PromiseKept`: `SendBatch` implements `BoundedDispatch` |

That free permits and permits held add up to `Concurrency` is not inductive: a
permit that is handed to the first waiter must find a task that has none, or one
would vanish. So its `IInv` adds `WaitersQueued` (the queue holds tasks that
wait, each once) and `Undispatched` (requests from `next` on have no task yet, so
that a spawn never resets a task that holds a permit or is over). There is one
lemma per action; `EndStep` has the cardinality argument, by cases on whether
somebody waits. The refinement maps a task that sends to a request in flight:
`StartRefines` shows that the abstract bound holds when a task starts, because
after the step all senders, that task included, hold permits; `EndRefines` maps
to `Finish`, `ReturnRefines` to one `Deliver` of the whole vector (to a stutter
for an empty batch), and all other steps change neither `Phase` nor `Output`.

`ClientLimitsProofs` proves, for every finite set of calls and all intervals:

| Theorem | States |
|---|---|
| `StricterLimitHolds` | `Spec => []StricterLimitWins` |
| `SharedLimitIsKept` | `Spec => []SharedLimitHolds` |

Its `IInv` says, besides types (`Typed`) and how far a call is (`Progress`), which
limiter a call got and that its interval is the stricter one (`Merged`), how far
the limiter's next slot and a call's own slot are ahead of what the call has sent
(`Paced`), and that the cursor is past all slots a limiter has handed out and at no
time to come more of them will have been used than its age allows (`Accounted`).
Both count the threshold in: a call that skips its sleep uses a slot less than that
much before its time. The last one is
about the number of `Claims` and of `UsedBy`, sets of pairs of a call and the
number of one of its slots (as `Through` is in the property), so that it needs no
sum over calls.

`ConnCacheProofs` proves, for any requests, targets, addresses, settings and
proxies (a target's fields are typed, `None` is no address):

| Theorem | States |
|---|---|
| `SettingsAreNotShared` | `Spec => []SettingsNotShared` |
| `PeerIpIsOneUsed` | `Spec => []PeerIpWasUsed` |

The invariant ties a request to the mode of its target and, once it was answered,
to a connection of that mode to that target (`Decided`, `Served`), a cached client
to its mode (`BuiltForMode`: built for settings with the mode's key), a connection
to the settings of its client (`OfClient`), and the peer map of a client to its
connections (`PeersDialled`: for all it dialled, an address that it dialled for that
authority; under a proxy nothing but the proxy's).

`StreamProofs` proves, for batches of every length, every concurrency and
every chunk size, and for the mock over it with any handlers, requests and
scenarios (the one assumption is that `None` is not a position):

| Theorem | States |
|---|---|
| `ResultsComeInCompletionOrder` | `Spec => []CompletionOrder` |
| `StreamKeepsPromise` | `Spec => PromiseKept`: `BatchStream` implements `BoundedDispatch` |
| `HandlersAnswerInOrder` | `MockSpec => []HandlersFifo` |
| `MocksComeFirst` | `MockSpec => []MockOrder` |
| `StreamOrderUnderMock` | `MockSpec => []CompletionOrder` |
| `PromiseKeptUnderMock` | `MockSpec => PromiseKept` |

`InLine`: `delivered`, `batch` and `channel` put end to end hold what is in
`completed` and not `lost`, in its order; a step moves results from one to the next
or drops some of them. That the end of the stream means the end of all tasks rests on the
senders: the channel ends when the driver and every task have dropped theirs
(`Dispatched`, `AtTheEnd`). The refinement needs the permits as well (`Conserved`), as
in `SendBatch`. Every step of the mock is one of the stream or leaves it alone
(`StreamSteps`), so both results hold under the mock too.

`HandlersFifo` speaks of the log of all dispatches, so `QueueInv` ties the
two queues to it: every registered handler is in one of them, the fresh ones in
the order of registration and without an entry in the log, the recycled ones in
the order of their first entries (`Queued`). Then the first that fits in a queue is
the one due (`FreshIsDue`, `RecycledIsDue`, `NoneIsDue`), and it stays so for the
entries made (`DueStable`), since later registrations and dispatches only append.
`QueueSteps` shows that nothing else in the iterator, in `request()` or in the real
client's stream touches the queues.

`MockOrder` needs `MockInv`, the stream's invariant and four parts more: the entries
that wait are the last ones of the intercepted configs, and the one in the
callback is the one before them (`InTurn`); as long as one is left the real stream
was not touched, and afterwards it moves only for a call of the mock's, ours or
an abandoned one (`PullsAfter`); the iterator stops only with everything drained
(`MockEnds`); and what it returned and what it holds is in the order due, less
what was dropped (`MockLine`). An abandoned pull may still deliver after its call was
cancelled: that is why the last two speak of what is buffered as well.

`RawConnectionProofs` proves, for any operations and configurations, every length
of write, read and buffer, and all name lengths up to 255:

| Theorem | States |
|---|---|
| `WritesNeverMix` | `Spec => []WritesDoNotMix` |
| `CloseIsFinal` | `Spec => ClosedForGood` |
| `OnlyGrantedTunnels` | `Spec => []TunnelGranted` |
| `TunnelsAreAligned` | `Spec => []TunnelAligned` |

There are two invariants. `OpInv` is about the operations: at most one holds the
mutex (`Mutex`), holding it for writing or reading means that there is a stream
(`HasStream`), a writer has as many bytes out as it has written (`Counted`), and
the bytes of one writer are next to each other, those of the one that writes at
the end (`Contiguous`). `TunnelInv` follows the handshake byte by byte: in each
stage it says what of the proxy's answers has been read, what is still to be read
and that the target has sent nothing it may not have sent yet (`Early`,
`Authenticating`, `Replying`, `Connecting`), so that the last byte of the reply is
the last one read (`Aligned`, `Opened`), and why a failed one failed (`Refused`).

`SendProofs` is about `RetryLoop` with `RedirectChain` and `ChainCookies`. It
proves, for every number of retries and redirects, any URIs, Set-Cookie headers,
ceilings, Public Suffix List, proxy and `no_proxy` list:

| Theorem | States |
|---|---|
| `RetriesAreDisciplined` | `Spec => []RetryDiscipline` |
| `RequestsAreBounded` | `Spec => []RequestsBounded` |
| `AttemptsAreFresh` | `Spec => []AttemptsStartAfresh` |
| `CookiesStayHome` | `Spec => []CookieStaysHome` |
| `CallerAlwaysWins` | `Spec => []CallerWins` |
| `ProxyIsDecidedPerHop` | `Spec => []ProxyFollowsHop` |
| `RefusalsCostNothing` | `Spec => RefusalCostsNothing` |

The assumptions type the inputs: hosts and paths are sequences of strings, a
path is not empty, the proxy is none, HTTP or SOCKS5. `LoopInv` is the loop's own
invariant (one wait per retry, as long as its number says, no chain runs between
attempts, a chain that ended has an outcome); `PowersOfTwo` has what the backoff
needs of powers from counting the subsets of 1..n. For the rest `StepShapes` reduces the nineteen actions to what
the chain sees of them: it ends, it is left alone, it starts, or one of its own
five steps. `ChainInv` has the cookies held (`Jar`: distinct keys, none of the
caller's, each homed where it was set), the header prepared for the next hop
(`Headed`), the requests sent (`Sent`) and the state of a chain that is over or has
sent nothing (`Fresh`); `Counted` and `Spent` bound the requests of the running
chain and of the attempts before it. The lemmas about the data carry most of the
weight: `AppliedHolds` (what `store` keeps, replaces and drops), `HeaderHolds` (the
sorted header holds cookies of the chain that apply: `Ranked` shows that in a
finite strict order each rank is taken, by a counting argument), `Scoped` (what
the rules about `Domain` leave) and `Reaches`, with `RegistrableSuffix` and
`SuffixTransitive`: the registrable domain of a cookie's `Domain` is the end of
every host the cookie goes to.

The bodies are the other half of `SendProofs`:

| Theorem | States |
|---|---|
| `CleanBodiesAreContent` | `Spec => []CleanMeansContent` |
| `WholeBodiesAreNotFlagged` | `Spec => []WholeIsNeverFlagged` |

for any cap, any content, any number of codings with any ratios, any cut, damage,
frames and lag (`IsBody`). `BodyKept` is the invariant: the body at hand is what
`ParseResponse` made of one that was sent. `Layers`, `Unwrap` and `ReadBody` are
recursive functions over an initial segment of the numbers. Their existence and
what they are at each place is shown by induction (`UpTo`, from the well-founded
order of the numbers): the library's induction theorems take an operator, a set
of numbers does as well. `Torn` is what the way can do to a layer: it is
right up to some unit, and there it ends or is damaged. A decoder of the right
flavour makes of it a beginning of the layer below, all of it if it ends cleanly
(`OutputIs`: the blocks put together again, `Flattened`), and one of another
flavour nothing, so that both orders of `decode_deflate` come to the same
(`DecodeIs`). `TurnIs` is one turn of the walk, and `WalkKeeps` the walk: without an
error the body is all of the layer or fills the cap (`Filled`), and with every
layer sound there is no error. `ReadBodyIs` has the frames.

`H2Proofs` is about `H2Toolkit`. It proves

| Theorem | States |
|---|---|
| `DecoderKeepsInStep` | `Spec => []PeerInSync` |
| `HeadersReadBack` | `Spec => []EncodedReadsBack` |
| `HuffmanIsCanonical` | `Spec => []HuffmanCanonical` |
| `IntegersAreExact` | `Spec => []IntegerExact` |

for every complete prefix code of words of at most 30 bits whose end-of-string
word is all ones and longer than seven (`CodeAssumption`), every static table,
every width of integers from 8 bits on (`SizesAssumption`), every announced table size,
all header lists and all blocks of a peer whose numbers and string lengths fit
the width (`IsHeader`, `IsOperation`). From the bottom up: the walk down the
code's tree spells the bits it was given, and the padding it accepts is the one
`encode` writes (`WalkSpells`, `HuffmanReads`); conversely what `encode` writes is read
back (`HuffmanBack`, where completeness is used). An integer's groups sum to the
number modulo the width (`ReadModulo`, `ReadExactly`), and the groups that
`write_integer` writes sum, filler included, to what it was given with its last group
moved up (`FilledSums`): the same number if nothing is moved (`IntegerBack`),
otherwise another one or none (`MovedSum`, `LengthMisread`). Eviction in
the code's loop leaves the longest beginning that fits, which is the peer's rule
(`EvictIs`, `FittingIs`, `AddIs`). A representation is read as what it was
written for, whatever follows it (`FieldBack`), and a cut one gives an error or
nothing (`FieldStable`, `CutBack`). One with a length that was moved is read as other
strings or not at all (`LiteralMisread`, `FieldMisread`), and since the headers read so
far only grow, the wrong one stays (`OffStays`, `BlockOff`), which is the other half
of `HeadersReadBack`. An update that goes back up is refused
(`RaiseRefused`, `BlockRefused`). `SyncInv` is the invariant: the books are right
and within the limit whatever came (`Bounded`), the peer's table is one it may have
(`PeerIs`), and while no block was cut or raised the table size both sides have the
same one. The third part is not inductive without the second: that an update or an
insertion leaves both tables equal uses that the peer's size is within its own
limit.

Only model-checked:

* every liveness property: fairness and `ENABLED` are out of the prover's reach;
* `FramesReadBack`: it reads frames back with a reader that jumps from one to the next,
  over probes whose extra frames are bytes of the caller's choice; it holds for
  the ones the run has, and no condition on all of them is as simple as the
  property itself.

## What is not modelled

* Parsing of URLs, headers and Set-Cookie dates: `RedirectChain` starts from
  parsed values, and an expiry is a flag of the header. CIDR arithmetic of
  `no_proxy`: a block is the set of its addresses.
* The response object (`src/response.rs`, most getters of `src/python.rs`): an
  immutable value with caches filled once; conversions without interaction.
* Multipart bodies: the formatting of one byte string.
* The command line, the argument conversions of the Python binding and the
  registration of its submodules.
* `src/client/mock.rs`, the crate's own test double.
* TLS, DNS, the Public Suffix List, the decoders of flate2 and brotli: external.
* Two branches of the mock's `__anext__` (an empty list, a value that is no list):
  the native iterator yields neither.

## Plan

Done: limiter, batches, stream, mock client, client limits, `send()` whole with
retries, redirects, cookies and bodies, connection cache, proxy handshakes, raw
connections, HPACK, frames and probe; the safety proofs of all of them but the
frames, with the refinements of `BoundedDispatch`.

Left:

1. The frame builders against the reader of frames as a theorem.
2. The bit arithmetic of `host_bypasses_proxy` and `parse_http_date` as operators
   against reference definitions.
