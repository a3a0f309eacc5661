---------------------------- MODULE RawConnection ----------------------------
(***************************************************************************)
(* A raw connection (src/client/raw.rs, and PyRawConnection of             *)
(* src/python.rs): the stream connect_stream opened, behind one async      *)
(* mutex, and the operations Python tasks run on it at the same time.      *)
(*                                                                         *)
(* An operation waits for its rate token and queues for the mutex, which   *)
(* tokio's (external) grants in the order of the queue; it keeps the mutex *)
(* until it is over or its Python task is cancelled.                       *)
(***************************************************************************)
EXTENDS ProxyTunnel, FiniteSets

CONSTANTS
    Ops,        \* the operations called on the connection
    WriteLen,   \* bytes of a send_bytes
    MaxBytes    \* max_bytes of a read_raw

ASSUME LenAssumption == WriteLen \in Nat \ {0} /\ MaxBytes \in Nat \ {0}

VARIABLES
    op,         \* the operations: what they are and where
    queue,      \* the mutex: who holds it, and who waits
    stream,     \* Some while the connection is not closed
    out,        \* the bytes written, by which operation
    received,   \* the bytes returned to Python
    room        \* whether the socket takes bytes: a peer that does not read fills it

rawVars == <<op, queue, stream, out, received>>
vars == <<connectVars, rawVars, room>>

\* "read" is given a timeout, "read forever" is not.
Kinds == {"send", "read", "read forever", "close"}

Over == {"ok", "error", "cancelled"}

Holds(o) == queue # << >> /\ Head(queue) = o

-----------------------------------------------------------------------------
Init ==
    /\ ConnectInit
    /\ op = [o \in Ops |-> [kind |-> "none", at |-> "idle", written |-> 0]]
    /\ queue = << >>
    /\ stream = TRUE
    /\ out = << >>
    /\ received = << >>
    /\ room = TRUE

\* Python calls an operation of the connection raw_connect returned.
Call(o, kind) ==
    /\ phase = "open"
    /\ op[o].at = "idle"
    /\ op' = [op EXCEPT ![o] = [kind |-> kind, at |-> "called", written |-> 0]]
    /\ UNCHANGED <<connectVars, queue, stream, out, received>>

\* limiter.acquire() has returned (close takes no token): lock().await.
Enqueue(o) ==
    /\ op[o].at = "called"
    /\ op' = [op EXCEPT ![o].at = "queued"]
    /\ queue' = Append(queue, o)
    /\ UNCHANGED <<connectVars, stream, out, received>>

\* The operation is over and the guard dropped.
Finish(o, how) ==
    /\ op' = [op EXCEPT ![o].at = how]
    /\ queue' = Tail(queue)

\* The connection was closed before the operation got the mutex.
FindsClosed(o) ==
    /\ op[o].at = "queued" /\ Holds(o)
    /\ ~stream
    /\ Finish(o, IF op[o].kind = "close" THEN "ok" ELSE "error")
    /\ UNCHANGED <<connectVars, stream, out, received>>

\* Mutant: the Option is not looked at once the mutex is there.
BeginUnchecked(o) ==
    /\ op[o].at = "queued" /\ Holds(o)
    /\ op' = [op EXCEPT ![o].at = "running"]
    /\ stream' = (stream /\ op[o].kind # "close")
    /\ UNCHANGED <<connectVars, queue, out, received>>

\* It has the stream; close takes it out of the Option first.
Begin(o) ==
    /\ op[o].at = "queued" /\ Holds(o)
    /\ stream
    /\ op' = [op EXCEPT ![o].at = "running"]
    /\ stream' = (op[o].kind # "close")
    /\ UNCHANGED <<connectVars, queue, out, received>>

Running(o, kinds) == op[o].at = "running" /\ op[o].kind \in kinds

\* Mutant: the mutex is taken anew for each write.
WriteReleases(o) ==
    /\ Running(o, {"send"})
    /\ op[o].written < WriteLen /\ ~closed /\ room
    /\ out' = Append(out, o)
    /\ op' = [op EXCEPT ![o].written = @ + 1,
                        ![o].at = IF op[o].written + 1 < WriteLen THEN "called" ELSE "running"]
    /\ queue' = IF op[o].written + 1 < WriteLen THEN Tail(queue) ELSE queue
    /\ UNCHANGED <<connectVars, stream, received>>

\* write_all, under no timeout: the next byte gets out, once there is room ...
Write(o) ==
    /\ Running(o, {"send"})
    /\ op[o].written < WriteLen /\ ~closed /\ room
    /\ out' = Append(out, o)
    /\ op' = [op EXCEPT ![o].written = @ + 1]
    /\ UNCHANGED <<connectVars, queue, stream, received>>

\* ... all are out and flushed, which may wait for room again ...
Flush(o) ==
    /\ Running(o, {"send"})
    /\ op[o].written = WriteLen /\ room
    /\ Finish(o, "ok")
    /\ UNCHANGED <<connectVars, stream, out, received>>

\* ... or the peer has gone.
WriteFails(o) ==
    /\ Running(o, {"send"})
    /\ closed
    /\ Finish(o, "error")
    /\ UNCHANGED <<connectVars, stream, out, received>>

\* stream.read returns what is there, at most max_bytes ...
Read(o) ==
    LET n == Smaller(Len(socket), MaxBytes)
    IN  /\ Running(o, {"read", "read forever"})
        /\ socket # << >>
        /\ received' = received \o SubSeq(socket, 1, n)
        /\ socket' = Drop(socket, n)
        /\ Finish(o, "ok")
        /\ UNCHANGED <<phase, config, todo, asked, up, closed, produced, buf, need, result,
                       stream, out>>

\* ... nothing, at the end of the stream, or an error ...
ReadEnds(o) ==
    /\ Running(o, {"read", "read forever"})
    /\ socket = << >> /\ todo = << >> /\ closed
    /\ \E how \in {"ok", "error"} : Finish(o, how)
    /\ UNCHANGED <<connectVars, stream, out, received>>

\* Mutant: the timeout is only applied between two reads.
ReadNeverTimesOut(o) == FALSE /\ UNCHANGED vars

\* ... or nothing because the timeout elapsed first.
ReadTimesOut(o) ==
    /\ Running(o, {"read"})
    /\ socket = << >>
    /\ Finish(o, "ok")
    /\ UNCHANGED <<connectVars, stream, out, received>>

\* stream.shutdown() returns, its error ignored, and the stream is dropped; on
\* TLS a close_notify has to get out first, and no timeout limits that either.
Shutdown(o) ==
    /\ Running(o, {"close"})
    /\ config.scheme = "https" => room \/ closed
    /\ Finish(o, "ok")
    /\ UNCHANGED <<connectVars, stream, out, received>>

\* The Python task is cancelled and the future dropped, with its place in the
\* queue or with the guard; bytes already written stay written.
Cancel(o) ==
    /\ \/ op[o].at = "called" /\ UNCHANGED queue
       \/ /\ op[o].at \in {"queued", "running"}
          /\ \E k \in 1..Len(queue) : queue[k] = o /\ queue' = RemoveAt(queue, k)
    /\ op' = [op EXCEPT ![o].at = "cancelled"]
    /\ UNCHANGED <<connectVars, stream, out, received>>

\* The peer stops reading and the socket fills, or it reads on.
PeerStalls ==
    /\ phase = "open"
    /\ room' = ~room
    /\ UNCHANGED <<connectVars, rawVars>>

\* A step the runtime owes the operation.
Operate(o) ==
    \/ Enqueue(o) \/ FindsClosed(o) \/ Begin(o)
    \/ Write(o) \/ Flush(o) \/ WriteFails(o)
    \/ Read(o) \/ ReadEnds(o) \/ ReadTimesOut(o)
    \/ Shutdown(o)

Next ==
    \/ (ConnectStep \/ Peer) /\ UNCHANGED <<rawVars, room>>
    \/ PeerStalls
    \/ \E o \in Ops :
         /\ (\E kind \in Kinds : Call(o, kind)) \/ Operate(o) \/ Cancel(o)
         /\ UNCHANGED room

Spec == Init /\ [][Next]_vars

\* connect_stream and the operations are polled when ready, and timeouts
\* elapse.  The peer owes nothing, neither to answer nor to read, except that
\* the bytes it sent arrive.
FairSpec ==
    /\ Spec
    /\ WF_vars(ConnectStep /\ UNCHANGED <<rawVars, room>>)
    /\ WF_vars(Arrive /\ UNCHANGED <<rawVars, room>>)
    /\ \A o \in Ops : WF_vars(Operate(o) /\ UNCHANGED room)

-----------------------------------------------------------------------------
\* What Python has read and what it can still read is what the target sent.
AsSent == received \o socket \o todo = [k \in 1..produced |-> Data(k)]

\* "To establish a byte-transparent tunnel" (proxy.rs): every byte the target
\* sends reaches the reader.
BytesArriveAsSent == phase = "open" => AsSent

\* "Drain bound address + port so the socket position is at the start of
\* tunneled data" (proxy.rs), and from there on nothing is lost, doubled or
\* reordered by concurrent reads, timeouts and cancelled calls.  It holds of
\* direct connections, SOCKS5, and TLS through an HTTP proxy; plain
\* connections through an HTTP proxy are left to BytesArriveAsSent.
TunnelAligned ==
    (phase = "open" /\ ~(config.proxy = "http" /\ config.scheme = "http")) => AsSent

\* "Bytes go out as sent" (raw.rs): the bytes of concurrent send_bytes calls
\* never mix, also when one of them is cancelled half way, and a call that
\* succeeded got all of its bytes out.
WritesDoNotMix ==
    /\ \A i, j, k \in 1..Len(out) : i < j /\ j < k /\ out[i] = out[k] => out[j] = out[i]
    /\ \A o \in Ops : op[o].kind = "send" /\ op[o].at = "ok" =>
         Cardinality({i \in 1..Len(out) : out[i] = o}) = WriteLen

\* "Subsequent send_bytes / read_raw calls error" (close): once close has the
\* stream, calls that were already waiting neither write nor read, and nothing
\* brings the stream back.
ClosedForGood ==
    [][~stream => ~stream' /\ out' = out /\ received' = received]_vars

\* The waits of raw.rs that no timeout limits: a read that was given none ("wait
\* indefinitely"), and writes that a peer which does not read leaves no room for.
WaitsOnPeer(o) ==
    \/ Running(o, {"read forever"})
    \/ /\ ~room /\ ~closed
       /\ Running(o, {"send"}) \/ (Running(o, {"close"}) /\ config.scheme = "https")

\* An operation that queues for the mutex gets through, whatever the peer does,
\* unless the holder comes to one of those waits: it keeps the mutex, and with it
\* everyone, for as long as the peer likes.
OperationsReturn ==
    \A o \in Ops : op[o].at = "queued" ~>
        op[o].at \in Over \/ \E holder \in Ops : WaitsOnPeer(holder)
=============================================================================
