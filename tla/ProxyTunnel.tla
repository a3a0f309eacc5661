----------------------------- MODULE ProxyTunnel -----------------------------
(***************************************************************************)
(* connect_stream of src/client/hyper.rs with the two proxy handshakes of  *)
(* src/client/proxy.rs: a TCP connection to the target or to the proxy,    *)
(* HTTP CONNECT or SOCKS5 on it, then TLS for https.                       *)
(*                                                                         *)
(* The peer's bytes come one by one, so that a read can see them cut       *)
(* anywhere.  A byte is a number: those of SOCKS5 are the real ones; a     *)
(* CONNECT reply is its status, header lines and the empty line that ends  *)
(* its head, each one byte here; Data(k) is the k'th byte of the target.   *)
(* What the proxy answers is the environment's choice.                     *)
(***************************************************************************)
EXTENDS Naturals, Sequences, SequencesExt

CONSTANTS
    Configs,      \* records [proxy, scheme, creds, long_host] of a connection
    BufMax,       \* what CONNECT's buffer holds (8192)
    NameLengths,  \* the lengths of names in a SOCKS5 reply
    MaxHeaders,   \* bound: header lines of a CONNECT reply
    MaxData       \* bound: bytes the target sends

ASSUME BufAssumption == BufMax \in Nat \ {0}
ASSUME ConfigsAssumption == \A c \in Configs : c.proxy \in {"none", "http", "socks5", "bad"}
ASSUME NamesAssumption == NameLengths \subseteq 0..255
ASSUME DataAssumption == MaxHeaders \in Nat /\ MaxData \in Nat

VARIABLES
    phase,      \* what connect_stream waits for
    config,     \* its RequestConfig
    socket,     \* bytes that have arrived and are not read
    todo,       \* bytes the peer has sent that have not arrived
    asked,      \* what the proxy has been asked and not answered
    up,         \* the other end of the socket is the target
    closed,     \* the peer has closed the connection
    produced,   \* bytes the target has sent
    buf,        \* CONNECT's buffer, what it has read
    need,       \* bytes of the SOCKS5 reply left to drain
    result      \* the kind of the error, if it failed

connectVars == <<phase, config, socket, todo, asked, up, closed, produced, buf, need, result>>
peerVars == <<todo, up, closed, produced>>

HeaderLine == 1
EndOfHead == 2
Data(k) == 1000 + k

Drop(s, n) == SubSeq(s, n + 1, Len(s))
Smaller(a, b) == IF a < b THEN a ELSE b

-----------------------------------------------------------------------------
ConnectInit ==
    /\ phase = "start"
    /\ config \in Configs
    /\ socket = << >> /\ todo = << >>
    /\ asked = "nothing"
    /\ up = FALSE /\ closed = FALSE
    /\ produced = 0
    /\ buf = << >> /\ need = 0
    /\ result = "none"

\* An error: the socket is dropped with the locals.
Fail(kind) ==
    /\ phase' = "failed"
    /\ result' = kind
    /\ UNCHANGED <<asked, need>>

\* The socket reaches the target.
Reached ==
    /\ phase' = IF config.scheme = "https" THEN "tls" ELSE "open"
    /\ UNCHANGED <<asked, need, result>>

Ask(question, next) ==
    /\ phase' = next
    /\ asked' = question
    /\ UNCHANGED <<need, result>>

\* validate_proxy and parse_proxy_url accept the proxy ...
Prepare ==
    /\ phase = "start"
    /\ config.proxy # "bad"
    /\ phase' = "tcp"
    /\ UNCHANGED <<config, socket, peerVars, asked, buf, need, result>>

\* ... or not.
BadProxy ==
    /\ phase = "start"
    /\ config.proxy = "bad"
    /\ Fail("other")
    /\ UNCHANGED <<config, socket, peerVars, buf>>

\* TcpStream::connect, to the proxy if there is one.
TcpConnects ==
    /\ phase = "tcp"
    /\ CASE config.proxy = "none" -> Reached /\ up' = TRUE
         [] config.proxy = "http" -> Ask("connect", "connect") /\ UNCHANGED up
         [] config.proxy = "socks5" -> Ask("greeting", "method") /\ UNCHANGED up
    /\ UNCHANGED <<config, socket, todo, closed, produced, buf>>

TcpFails ==
    /\ phase = "tcp"
    /\ Fail("connection")
    /\ UNCHANGED <<config, socket, peerVars, buf>>

-----------------------------------------------------------------------------
\* perform_http_connect

\* tcp.read takes what is there, as far as the buffer has room, until the end
\* of the head is somewhere in it.
ReadConnect ==
    /\ phase = "connect"
    /\ socket # << >> /\ Len(buf) < BufMax
    /\ LET n == Smaller(Len(socket), BufMax - Len(buf))
       IN  /\ buf' = buf \o SubSeq(socket, 1, n)
           /\ socket' = Drop(socket, n)
    /\ phase' = IF EndOfHead \in ToSet(buf') THEN "status" ELSE phase
    /\ UNCHANGED <<config, peerVars, asked, need, result>>

\* "proxy CONNECT response exceeded 8KB"
ConnectTooLong ==
    /\ phase = "connect"
    /\ Len(buf) >= BufMax
    /\ Fail("connection")
    /\ UNCHANGED <<config, socket, peerVars, buf>>

\* Mutant: any status will do.
StatusAccepted(status) == status # 0

\* Only 200 opens the tunnel; 0 stands for a line without a status.
StatusOk(status) == status = 200

\* The status line is judged, and the buffer dropped with all it has read.
CheckStatus ==
    /\ phase = "status"
    /\ IF StatusOk(buf[1])
       THEN Reached /\ buf' = << >>
       ELSE Fail("connection") /\ UNCHANGED buf
    /\ UNCHANGED <<config, socket, peerVars>>

-----------------------------------------------------------------------------
\* perform_socks5

\* The CONNECT command, for a name that fits its length byte.
SendCommand == IF config.long_host THEN Fail("connection") ELSE Ask("command", "reply")

\* The proxy's choice of method; the credentials are sent if it is theirs.
ReadMethod ==
    /\ phase = "method"
    /\ Len(socket) >= 2
    /\ socket' = Drop(socket, 2)
    /\ CASE socket[1] = 5 /\ socket[2] = 0 -> SendCommand
         [] socket[1] = 5 /\ socket[2] = 2 /\ config.creds = "both" -> Ask("auth", "auth")
         [] OTHER -> Fail("connection")
    /\ UNCHANGED <<config, peerVars, buf>>

ReadAuth ==
    /\ phase = "auth"
    /\ Len(socket) >= 2
    /\ socket' = Drop(socket, 2)
    /\ IF socket[2] = 0 THEN SendCommand ELSE Fail("connection")
    /\ UNCHANGED <<config, peerVars, buf>>

Awaiting(next, n) ==
    /\ phase' = next
    /\ need' = n
    /\ UNCHANGED <<asked, result>>

\* The first four bytes of the reply: the address type says what follows.
ReadReply ==
    /\ phase = "reply"
    /\ Len(socket) >= 4
    /\ socket' = Drop(socket, 4)
    /\ LET granted == socket[1] = 5 /\ socket[2] = 0
       IN  CASE granted /\ socket[4] = 1 -> Awaiting("drain", 4 + 2)
             [] granted /\ socket[4] = 4 -> Awaiting("drain", 16 + 2)
             [] granted /\ socket[4] = 3 -> Awaiting("length", 1)
             [] OTHER -> Fail("connection")
    /\ UNCHANGED <<config, peerVars, buf>>

\* Mutant: the two bytes of the port are forgotten.
ReadLengthWithoutPort ==
    /\ phase = "length"
    /\ Len(socket) >= 1
    /\ socket' = Tail(socket)
    /\ Awaiting("drain", Head(socket))
    /\ UNCHANGED <<config, peerVars, buf>>

\* A name has its length before it.
ReadLength ==
    /\ phase = "length"
    /\ Len(socket) >= 1
    /\ socket' = Tail(socket)
    /\ Awaiting("drain", Head(socket) + 2)
    /\ UNCHANGED <<config, peerVars, buf>>

\* The bound address and port are read and forgotten.
Drain ==
    /\ phase = "drain"
    /\ Len(socket) >= need
    /\ socket' = Drop(socket, need)
    /\ phase' = IF config.scheme = "https" THEN "tls" ELSE "open"
    /\ need' = 0
    /\ UNCHANGED <<config, peerVars, asked, buf, result>>

-----------------------------------------------------------------------------
\* The TLS handshake with the target, which speaks only when spoken to.
TlsDone ==
    /\ phase = "tls"
    /\ ~closed
    /\ phase' = "open"
    /\ UNCHANGED <<config, socket, peerVars, asked, buf, need, result>>

\* It fails, or its settings are refused.
TlsFails ==
    /\ phase = "tls"
    /\ Fail("tls")
    /\ UNCHANGED <<config, socket, peerVars, buf>>

\* How many bytes a phase waits for.
Wanted ==
    CASE phase = "connect" -> 1
      [] phase \in {"method", "auth"} -> 2
      [] phase = "reply" -> 4
      [] OTHER -> need

\* The peer closes before the answer is complete.
Broken ==
    /\ phase \in {"connect", "method", "auth", "reply", "length", "drain"}
    /\ closed /\ todo = << >>
    /\ Len(socket) < Wanted
    /\ Fail("connection")
    /\ UNCHANGED <<config, socket, peerVars, buf>>

\* Mutant: the proxy handshake is not under a timeout.
TimesOutWithoutProxy ==
    /\ phase \in {"tcp", "tls"}
    /\ Fail("timeout")
    /\ UNCHANGED <<config, socket, peerVars, buf>>

\* One of the three timeouts: TCP connect, proxy handshake, TLS handshake.
TimesOut ==
    /\ phase \notin {"start", "status", "open", "failed"}
    /\ Fail("timeout")
    /\ UNCHANGED <<config, socket, peerVars, buf>>

ConnectStep ==
    \/ Prepare \/ BadProxy
    \/ TcpConnects \/ TcpFails
    \/ ReadConnect \/ ConnectTooLong \/ CheckStatus
    \/ ReadMethod \/ ReadAuth \/ ReadReply \/ ReadLength \/ Drain
    \/ TlsDone \/ TlsFails
    \/ Broken \/ TimesOut

-----------------------------------------------------------------------------
\* The peer.

\* What a proxy can answer, and whether the target is behind it from then on:
\* every status, method, code and address type, with names of every length.
ConnectReply(s, h) == <<s>> \o [k \in 1..h |-> HeaderLine] \o <<EndOfHead>>

ConnectAnswers ==
    {[bytes |-> ConnectReply(s, h), up |-> s = 200] : s \in {200, 407, 0}, h \in 0..MaxHeaders}

GreetingAnswers == {[bytes |-> <<v, m>>, up |-> FALSE] : v \in {4, 5}, m \in {0, 2, 255}}

AuthAnswers == {[bytes |-> <<1, s>>, up |-> FALSE] : s \in {0, 1}}

Zeros(n) == [k \in 1..n |-> 0]

CommandAnswers ==
    {[bytes |-> <<5, 5, 0, 1>>, up |-> FALSE], [bytes |-> <<5, 0, 0, 9>>, up |-> FALSE],
     [bytes |-> <<5, 0, 0, 1>> \o Zeros(6), up |-> TRUE],
     [bytes |-> <<5, 0, 0, 4>> \o Zeros(18), up |-> TRUE]}
    \cup {[bytes |-> <<5, 0, 0, 3, n>> \o Zeros(n + 2), up |-> TRUE] : n \in NameLengths}

Answers(question) ==
    CASE question = "connect" -> ConnectAnswers
      [] question = "greeting" -> GreetingAnswers
      [] question = "auth" -> AuthAnswers
      [] question = "command" -> CommandAnswers

Answer ==
    /\ asked # "nothing"
    /\ ~closed /\ phase # "failed"
    /\ asked' = "nothing"
    /\ \E a \in Answers(asked) : todo' = todo \o a.bytes /\ up' = a.up
    /\ UNCHANGED <<phase, config, socket, closed, produced, buf, need, result>>

\* The target sends a byte; on TLS it waits for the handshake.
TargetSends ==
    /\ up /\ ~closed /\ phase # "failed"
    /\ config.scheme = "http" \/ phase = "open"
    /\ produced < MaxData
    /\ produced' = produced + 1
    /\ todo' = Append(todo, Data(produced + 1))
    /\ UNCHANGED <<phase, config, socket, asked, up, closed, buf, need, result>>

\* A byte arrives.
Arrive ==
    /\ todo # << >> /\ phase # "failed"
    /\ socket' = Append(socket, Head(todo))
    /\ todo' = Tail(todo)
    /\ UNCHANGED <<phase, config, asked, up, closed, produced, buf, need, result>>

PeerCloses ==
    /\ phase \notin {"start", "tcp", "failed"}
    /\ ~closed
    /\ closed' = TRUE
    /\ UNCHANGED <<phase, config, socket, todo, asked, up, produced, buf, need, result>>

Peer == Answer \/ TargetSends \/ Arrive \/ PeerCloses

-----------------------------------------------------------------------------
\* A tunnel is used only with the proxy's consent: what follows the handshake
\* goes to a proxy that has said it connected us (perform_http_connect,
\* perform_socks5), whatever else it answered on the way; and consent is
\* recognised up to a CONNECT reply that fills the buffer to the last byte,
\* only a longer one is refused for its length.
TunnelGranted ==
    /\ phase \in {"tls", "open"} => up
    /\ (phase = "failed" /\ result = "connection") =>
         (buf # << >> /\ buf[1] = 200 => EndOfHead \notin ToSet(buf))

\* connect_stream always comes to an end: no proxy or target can hold it up by
\* falling silent at any point of the handshakes.
ConnectEnds == <>(phase \in {"open", "failed"})
=============================================================================
