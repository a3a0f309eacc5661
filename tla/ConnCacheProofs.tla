--------------------------- MODULE ConnCacheProofs ---------------------------
(***************************************************************************)
(* What requests share in the client cache, and what they do not: for any  *)
(* number of requests, targets, addresses, settings and connections.       *)
(***************************************************************************)
EXTENDS ConnCache, TLAPS

Locals ==
    [at : {"idle", "mode", "checkout", "sending", "answered", "peer", "done", "failed"},
     target : Targets \cup {None}, proxy : Proxies \cup {None},
     no_proxy : NoProxies \cup {None}, settings : Settings \cup {None}, mode : Modes \cup {None}, conn : Nat, peers : Seq(Addresses \cup {None}),
     cert : {t.host : t \in Targets} \cup {None}]

Conns ==
    [at : {"handshake", "idle", "busy", "closed"}, mode : Modes, target : Targets,
     address : Addresses, tls : Settings, dialled_by : Requests]

Typed ==
    /\ req \in [Requests -> Locals]
    /\ clients \in [Modes -> Clients \cup {None}]
    /\ conns \in Seq(Conns)

\* A request under way has a target and a config, and the mode they decide.
Underway == {"mode", "checkout", "sending", "answered", "peer", "done"}
Decided(r) ==
    req[r].at \in Underway =>
        /\ req[r].target \in Targets
        /\ req[r].proxy \in Proxies
        /\ req[r].settings \in Settings
        /\ req[r].mode = ConnMode(EffectiveProxy(req[r].proxy, req[r].no_proxy, req[r].target),
                                  req[r].settings, req[r].target)

\* Who builds a client builds it for the settings its mode is keyed by.
BuiltForMode ==
    \A m \in Modes : clients[m] # None =>
        m.kind # "forward" /\ m.tls = TlsKey(clients[m].built_for)

\* A request past get_or_build has its client; one that was answered by a
\* connection used one of that client, to its target.
Served(r) ==
    /\ req[r].at \in {"checkout", "sending"} => req[r].mode.kind # "forward"
    /\ req[r].at \in Underway \ {"mode"} /\ req[r].mode.kind # "forward" =>
           clients[req[r].mode] # None
    /\ req[r].at \in {"sending", "answered", "peer"} /\ req[r].mode.kind # "forward" =>
           req[r].conn # 0
    /\ req[r].conn # 0 =>
           /\ req[r].at \in Underway
           /\ req[r].mode.kind # "forward"
           /\ req[r].conn \in 1..Len(conns)
           /\ conns[req[r].conn].mode = req[r].mode
           /\ conns[req[r].conn].target = req[r].target

\* A connection belongs to the client of its mode, and has its settings.
OfClient ==
    \A i \in 1..Len(conns) :
        /\ clients[conns[i].mode] # None
        /\ conns[i].tls = clients[conns[i].mode].built_for

\* Who dialled host and port in mode m, and with which address.
DialledFor(m, k) == {i \in 1..Len(conns) : conns[i].mode = m /\ PeerSlotKey(conns[i].target) = k}

\* The peer slot of a client names addresses it dialled, for all it dialled; under
\* a proxy, only the proxy's.
PeersDialled ==
    \A m \in Modes : clients[m] # None =>
        \A k \in Authorities :
            IF m.kind = "direct"
            THEN DialledFor(m, k) # {} =>
                   \E i \in DialledFor(m, k) : conns[i].address = clients[m].peers[k]
            ELSE k # ProxyAuthority => clients[m].peers[k] = None

\* What a hop reported, as PeerIpWasUsed has it.
Reported(r) ==
    req[r].at = "peer" =>
        LET ip == req[r].peers[Len(req[r].peers)]
            k == PeerSlotKey(req[r].target)
        IN  IF req[r].mode.kind = "direct"
            THEN \E i \in DialledFor(req[r].mode, k) : conns[i].address = ip
            ELSE k # ProxyAuthority => ip = None

Cache == BuiltForMode /\ OfClient /\ PeersDialled
Good(r) == Decided(r) /\ Served(r) /\ Reported(r)
IInv == Typed /\ Cache /\ \A r \in Requests : Good(r)

-----------------------------------------------------------------------------
\* conn_mode is total, and keys every mode but a forward proxy's by all of the
\* TLS settings.
LEMMA ModeFields ==
    ASSUME NEW p \in Proxies, NEW s \in Settings, NEW t \in Targets
    PROVE  /\ ConnMode(p, s, t) \in Modes
           /\ ConnMode(p, s, t).kind # "forward" => ConnMode(p, s, t).tls = TlsKey(s)
<1>1. ConnMode(p, s, t) \in Modes
  BY DEF Modes
<1>2. p \in {"none", "http", "socks5"} /\ t.scheme \in {"http", "https"}
  BY ProxiesAssumption, TargetsAssumption
<1>3. CASE p = "none"
  <2>1. ConnMode(p, s, t) = [kind |-> "direct", tls |-> TlsKey(s)]
    BY <1>3 DEF ConnMode
  <2> QED
    BY <1>1, <2>1
<1>4. CASE p = "http" /\ t.scheme = "http"
  <2>1. ConnMode(p, s, t) = [kind |-> "forward"]
    BY <1>4 DEF ConnMode
  <2> QED
    BY <1>1, <2>1
<1>5. CASE p = "http" /\ t.scheme = "https"
  <2>1. ConnMode(p, s, t) = [kind |-> "tunnel", tls |-> TlsKey(s)]
    BY <1>5 DEF ConnMode
  <2> QED
    BY <1>1, <2>1
<1>6. CASE p = "socks5"
  <2>1. ConnMode(p, s, t) = [kind |-> "socks5", tls |-> TlsKey(s)]
    BY <1>6 DEF ConnMode
  <2> QED
    BY <1>1, <2>1
<1> QED
  BY <1>2, <1>3, <1>4, <1>5, <1>6

LEMMA EffectiveIs ==
    ASSUME NEW p \in Proxies, NEW excluded, NEW t
    PROVE  EffectiveProxy(p, excluded, t) \in Proxies
  BY ProxiesAssumption DEF EffectiveProxy

\* Two configs with the same key have the same settings.
LEMMA TlsKeyInjective ==
    ASSUME NEW s \in Settings, NEW u \in Settings, TlsKey(s) = TlsKey(u)
    PROVE  s = u
<1>1. s = TlsKey(s) /\ u = TlsKey(u)
  BY SettingsAssumption DEF TlsKey
<1> QED
  BY <1>1

\* The mode of a request under way, and the client it has.
LEMMA RequestMode ==
    ASSUME IInv, NEW r \in Requests, req[r].at \in Underway
    PROVE  /\ req[r].mode \in Modes
           /\ req[r].mode.kind # "forward" => req[r].mode.tls = TlsKey(req[r].settings)
           /\ PeerSlotKey(req[r].target) \in Authorities
           /\ req[r].target \in Targets /\ req[r].settings \in Settings
           /\ req[r].proxy \in Proxies
<1>1. /\ req[r].target \in Targets /\ req[r].proxy \in Proxies /\ req[r].settings \in Settings
      /\ req[r].mode = ConnMode(EffectiveProxy(req[r].proxy, req[r].no_proxy, req[r].target),
                                req[r].settings, req[r].target)
  BY DEF IInv, Good, Decided
<1>2. EffectiveProxy(req[r].proxy, req[r].no_proxy, req[r].target) \in Proxies
  BY <1>1, EffectiveIs
<1> QED
  BY <1>1, <1>2, ModeFields DEF Authorities

LEMMA ClientFields ==
    ASSUME IInv, NEW m \in Modes, clients[m] # None
    PROVE  /\ clients[m] \in Clients /\ clients[m].built_for \in Settings
           /\ clients[m].peers \in [Authorities -> Addresses \cup {None}]
           /\ clients[m].cert \in {t.host : t \in Targets} \cup {None}
<1>1. clients[m] \in Clients
  BY DEF IInv, Typed
<1> QED
  BY <1>1 DEF Clients

LEMMA ConnFields ==
    ASSUME IInv, NEW i \in 1..Len(conns)
    PROVE  /\ conns[i] \in Conns /\ conns[i].mode \in Modes /\ conns[i].target \in Targets
           /\ conns[i].dialled_by \in Requests
<1>1. conns[i] \in Conns
  BY DEF IInv, Typed
<1> QED
  BY <1>1 DEF Conns

-----------------------------------------------------------------------------
(* What no step undoes: connections stay what they are, and so do clients.   *)

Kept ==
    /\ Len(conns') \in Nat /\ Len(conns') >= Len(conns)
    /\ \A i \in 1..Len(conns) :
         /\ conns'[i].mode = conns[i].mode /\ conns'[i].target = conns[i].target
         /\ conns'[i].address = conns[i].address /\ conns'[i].tls = conns[i].tls
    /\ \A m \in Modes : clients[m] # None => clients'[m] # None

\* A request that takes no part in a step is as good as before.
LEMMA OthersStayGood ==
    ASSUME IInv, Kept, NEW r \in Requests, req'[r] = req[r]
    PROVE  Good(r)'
<1>1. Decided(r) /\ Served(r) /\ Reported(r) /\ Len(conns) \in Nat
  BY DEF IInv, Good, Typed
<1>2. req[r].at \in Underway => req[r].mode \in Modes
  BY RequestMode
<1>3. Decided(r)'
  BY <1>1 DEF Decided
<1>4. Served(r)'
  BY <1>1, <1>2 DEF Served, Kept
<1>5. Reported(r)'
  <2>1. \A m, k : DialledFor(m, k) \subseteq DialledFor(m, k)'
    BY <1>1 DEF DialledFor, Kept
  <2>2. \A m, k : \A i \in DialledFor(m, k) : conns'[i].address = conns[i].address
    BY DEF DialledFor, Kept
  <2> QED
    BY <1>1, <2>1, <2>2 DEF Reported
<1> QED
  BY <1>3, <1>4, <1>5 DEF Good

\* A step of one request, and what is to be shown of it.
LEMMA RequestStep ==
    ASSUME IInv, Kept, NEW r \in Requests, NEW x \in Locals, req' = [req EXCEPT ![r] = x],
           Good(r)'
    PROVE  req' \in [Requests -> Locals] /\ \A q \in Requests : Good(q)'
<1>1. req \in [Requests -> Locals]
  BY DEF IInv, Typed
<1>2. \A q \in Requests : q # r => req'[q] = req[q]
  BY <1>1
<1> QED
  BY <1>1, <1>2, OthersStayGood

\* Steps that dial nothing and build nothing.
SameConns ==
    /\ conns' \in Seq(Conns) /\ Len(conns') = Len(conns)
    /\ \A i \in 1..Len(conns) :
         /\ conns'[i].mode = conns[i].mode /\ conns'[i].target = conns[i].target
         /\ conns'[i].address = conns[i].address /\ conns'[i].tls = conns[i].tls
SameSlots ==
    /\ clients' \in [Modes -> Clients \cup {None}]
    /\ \A m \in Modes :
         /\ clients'[m] = None <=> clients[m] = None
         /\ clients[m] # None => /\ clients'[m].built_for = clients[m].built_for
                                 /\ clients'[m].peers = clients[m].peers

LEMMA QuietCache ==
    ASSUME IInv, SameConns, SameSlots
    PROVE  Kept /\ Cache'
<1>1. Typed /\ Cache /\ Len(conns) \in Nat
  BY DEF IInv, Typed
<1>2. Kept
  BY <1>1 DEF Kept, SameConns, SameSlots
<1>3. BuiltForMode'
  BY <1>1 DEF Cache, BuiltForMode, SameSlots
<1>4. \A i \in 1..Len(conns) : conns[i].mode \in Modes
  BY ConnFields
<1>5. OfClient'
  BY <1>1, <1>4 DEF Cache, OfClient, SameSlots, SameConns
<1>6. PeersDialled'
  <2>1. \A m, k : DialledFor(m, k)' = DialledFor(m, k)
    BY DEF DialledFor, SameConns
  <2>2. \A m, k : \A i \in DialledFor(m, k) : conns'[i].address = conns[i].address
    BY DEF DialledFor, SameConns
  <2> QED
    BY <1>1, <2>1, <2>2 DEF Cache, PeersDialled, SameSlots
<1> QED
  BY <1>2, <1>3, <1>5, <1>6 DEF Cache

LEMMA SameCache ==
    IInv => /\ UNCHANGED conns => SameConns
            /\ UNCHANGED clients => SameSlots
  BY DEF IInv, Typed, SameConns, SameSlots

\* A connection changes hands, or is closed.
LEMMA MarkConn ==
    ASSUME IInv, NEW i \in 1..Len(conns), NEW at \in {"handshake", "idle", "busy", "closed"},
           conns' = [conns EXCEPT ![i].at = at]
    PROVE  SameConns
<1>1. conns \in Seq(Conns) /\ conns[i] \in Conns
  BY ConnFields DEF IInv, Typed
<1> DEFINE new == [conns[i] EXCEPT !.at = at]
<1>2. new \in Conns /\ new.mode = conns[i].mode /\ new.target = conns[i].target
      /\ new.address = conns[i].address /\ new.tls = conns[i].tls
  BY <1>1 DEF Conns
<1>3. conns' = [conns EXCEPT ![i] = new]
  BY <1>1
<1> HIDE DEF new
<1> QED
  BY <1>1, <1>2, <1>3 DEF SameConns

\* Steps of one request that leave the clients and what was dialled alone.
LEMMA QuietStep ==
    ASSUME IInv, SameConns, SameSlots, NEW r \in Requests, NEW x \in Locals,
           req' = [req EXCEPT ![r] = x],
           Kept /\ Cache' => Good(r)'
    PROVE  IInv'
<1>1. Kept /\ Cache'
  BY QuietCache
<1>2. req' \in [Requests -> Locals] /\ \A q \in Requests : Good(q)'
  BY <1>1, RequestStep
<1>3. Typed'
  BY <1>2 DEF Typed, SameConns, SameSlots
<1> QED
  BY <1>1, <1>2, <1>3 DEF IInv

LEMMA RequestFields ==
    ASSUME IInv, NEW r \in Requests
    PROVE  /\ req[r] \in Locals /\ req[r].peers \in Seq(Addresses \cup {None})
           /\ req[r].conn \in Nat /\ Good(r) /\ req \in [Requests -> Locals]
<1>1. req[r] \in Locals /\ req \in [Requests -> Locals]
  BY DEF IInv, Typed
<1> QED
  BY <1>1 DEF IInv, Locals

\* A request that starts or is given up holds nothing.
LEMMA LocalFields ==
    ASSUME NEW at \in {"idle", "mode", "failed"}
    PROVE  /\ Local(at) \in Locals /\ Local(at).at = at /\ Local(at).conn = 0
           /\ DOMAIN Local(at) = {"at", "target", "proxy", "no_proxy", "settings", "mode", "conn",
                                  "peers", "cert"}
<1>1. << >> \in Seq(Addresses \cup {None})
  OBVIOUS
<1> QED
  BY <1>1 DEF Local, Locals

LEMMA GivenUpGood ==
    ASSUME NEW r \in Requests, req'[r] = Local("failed")
    PROVE  Good(r)'
<1>1. req'[r].at = "failed" /\ req'[r].conn = 0
  BY LocalFields
<1> QED
  BY <1>1 DEF Good, Decided, Served, Reported, Underway

-----------------------------------------------------------------------------
(* The steps of a request.                                                   *)

LEMMA BeginStep ==
    ASSUME IInv, NEW r \in Requests, NEW t \in Targets, NEW p \in Proxies,
           NEW excluded \in NoProxies, NEW s \in Settings, Begin(r, t, p, excluded, s)
    PROVE  IInv'
<1> DEFINE mode == ConnMode(EffectiveProxy(p, excluded, t), s, t)
           x == [Local("mode") EXCEPT !.target = t, !.proxy = p, !.no_proxy = excluded,
                                      !.settings = s, !.mode = mode]
<1> HIDE DEF mode
<1>1. req' = [req EXCEPT ![r] = x] /\ UNCHANGED <<clients, conns>>
  BY DEF Begin, mode
<1>2. /\ x.at = "mode" /\ x.target = t /\ x.proxy = p /\ x.no_proxy = excluded
      /\ x.settings = s /\ x.mode = mode /\ x.conn = 0
  BY DEF Local
<1>3. x \in Locals
  <2>1. << >> \in Seq(Addresses \cup {None}) /\ mode \in Modes
    BY ModeFields, EffectiveIs DEF mode
  <2> QED
    BY <2>1 DEF Local, Locals
<1> HIDE DEF x
<1>4. req'[r] = x
  BY <1>1, RequestFields
<1>5. Good(r)'
  BY <1>2, <1>4 DEF Good, Decided, Served, Reported, Underway, mode
<1> QED
  BY <1>1, <1>3, <1>5, SameCache, QuietStep

LEMMA BuildFailsStep ==
    ASSUME IInv, NEW r \in Requests, BuildFails(r)
    PROVE  IInv'
<1>1. req' = [req EXCEPT ![r] = Local("failed")] /\ UNCHANGED <<clients, conns>>
  BY DEF BuildFails
<1>2. Local("failed") \in Locals
  BY LocalFields
<1>3. req'[r] = Local("failed")
  BY <1>1, RequestFields
<1> QED
  BY <1>1, <1>2, <1>3, GivenUpGood, SameCache, QuietStep

LEMMA ForwardProxyStep ==
    ASSUME IInv, NEW r \in Requests, ForwardProxy(r)
    PROVE  IInv'
<1> DEFINE x == [req[r] EXCEPT !.at = "answered"]
<1>1. /\ req[r] \in Locals /\ Good(r) /\ req[r].at = "mode" /\ req[r].mode.kind = "forward"
      /\ UNCHANGED <<clients, conns>>
  BY RequestFields DEF ForwardProxy
<1>2. req' = [req EXCEPT ![r] = x] /\ req'[r] = x
  BY RequestFields DEF ForwardProxy
<1>3. /\ x \in Locals /\ x.at = "answered" /\ x.target = req[r].target /\ x.proxy = req[r].proxy
      /\ x.no_proxy = req[r].no_proxy
      /\ x.settings = req[r].settings /\ x.mode = req[r].mode /\ x.conn = req[r].conn
  BY <1>1 DEF Locals
<1> HIDE DEF x
<1>4. Good(r)'
  BY <1>1, <1>2, <1>3 DEF Good, Decided, Served, Reported, Underway
<1> QED
  BY <1>1, <1>2, <1>3, <1>4, SameCache, QuietStep

\* A connection is taken from the pool.
LEMMA CheckoutStep ==
    ASSUME IInv, NEW r \in Requests, NEW i \in 1..Len(conns), Checkout(r, i)
    PROVE  IInv'
<1> DEFINE x == [req[r] EXCEPT !.at = "sending", !.conn = i]
<1>1. /\ req[r] \in Locals /\ Good(r) /\ req[r].at = "checkout"
      /\ conns[i].mode = req[r].mode /\ conns[i].target = req[r].target
      /\ conns' = [conns EXCEPT ![i].at = "busy"] /\ UNCHANGED clients
      /\ Len(conns) \in Nat
  BY RequestFields DEF Checkout, IInv, Typed
<1>2. req' = [req EXCEPT ![r] = x] /\ req'[r] = x
  BY RequestFields DEF Checkout
<1>3. /\ x \in Locals /\ x.at = "sending" /\ x.target = req[r].target /\ x.proxy = req[r].proxy
      /\ x.no_proxy = req[r].no_proxy
      /\ x.settings = req[r].settings /\ x.mode = req[r].mode /\ x.conn = i
  <2>1. i \in Nat
    BY <1>1
  <2> QED
    BY <1>1, <2>1 DEF Locals
<1> HIDE DEF x
<1>4. SameConns /\ SameSlots
  BY <1>1, MarkConn, SameCache
<1>5. Good(r)'
  BY <1>1, <1>2, <1>3, <1>4 DEF Good, Decided, Served, Reported, Underway, SameConns
<1> QED
  BY <1>2, <1>3, <1>4, <1>5, QuietStep

LEMMA CompleteStep ==
    ASSUME IInv, NEW r \in Requests, Complete(r)
    PROVE  IInv'
<1> DEFINE x == [req[r] EXCEPT !.at = "answered"]
<1>1. /\ req[r] \in Locals /\ Good(r) /\ req[r].at = "sending" /\ UNCHANGED clients
  BY RequestFields DEF Complete
<1>2. req' = [req EXCEPT ![r] = x] /\ req'[r] = x
  BY RequestFields DEF Complete
<1>3. /\ x \in Locals /\ x.at = "answered" /\ x.target = req[r].target /\ x.proxy = req[r].proxy
      /\ x.no_proxy = req[r].no_proxy
      /\ x.settings = req[r].settings /\ x.mode = req[r].mode /\ x.conn = req[r].conn
  BY <1>1 DEF Locals
<1> HIDE DEF x
<1>4. req[r].conn \in 1..Len(conns)
  BY <1>1 DEF Good, Served
<1>5. SameConns /\ SameSlots
  BY <1>1, <1>4, MarkConn, SameCache DEF Complete
<1>6. Good(r)'
  BY <1>1, <1>2, <1>3, <1>5 DEF Good, Decided, Served, Reported, Underway, SameConns
<1> QED
  BY <1>2, <1>3, <1>5, <1>6, QuietStep

LEMMA FailsStep ==
    ASSUME IInv, NEW r \in Requests, Fails(r)
    PROVE  IInv'
<1>1. req' = [req EXCEPT ![r] = Local("failed")] /\ UNCHANGED clients /\ Good(r)
  BY RequestFields DEF Fails
<1>2. Local("failed") \in Locals
  BY LocalFields
<1>3. req'[r] = Local("failed")
  BY <1>1, RequestFields
<1>4. SameConns
  <2>1. CASE req[r].at = "sending"
    <3>1. req[r].conn \in 1..Len(conns)
      BY <1>1, <2>1 DEF Good, Served
    <3> QED
      BY <2>1, <3>1, MarkConn DEF Fails
  <2>2. CASE req[r].at # "sending"
    BY <2>2, SameCache DEF Fails
  <2> QED
    BY <2>1, <2>2
<1> QED
  BY <1>1, <1>2, <1>3, <1>4, GivenUpGood, SameCache, QuietStep

\* A hop reports what the slot has for its target; a direct hop was answered by
\* a connection, so that the slot has an entry.
LEMMA ReadPeerStep ==
    ASSUME IInv, NEW r \in Requests, ReadPeer(r)
    PROVE  IInv'
<1> DEFINE m == req[r].mode
           k == PeerSlotKey(req[r].target)
           ip == IF m.kind = "forward" THEN None ELSE clients[m].peers[k]
           x == [req[r] EXCEPT !.at = "peer", !.peers = Append(req[r].peers, ip)]
<1>1. /\ req[r] \in Locals /\ Good(r) /\ req[r].at = "answered" /\ UNCHANGED <<clients, conns>>
      /\ req[r].peers \in Seq(Addresses \cup {None})
  BY RequestFields DEF ReadPeer
<1>2. m \in Modes /\ k \in Authorities
  BY <1>1, RequestMode DEF Underway
<1>3. ip \in Addresses \cup {None}
  <2>1. CASE m.kind = "forward"
    BY <2>1
  <2>2. CASE m.kind # "forward"
    <3>1. clients[m] # None
      BY <1>1, <2>2 DEF Good, Served, Underway
    <3> QED
      BY <1>2, <2>2, <3>1, ClientFields
  <2> QED
    BY <2>1, <2>2
<1>4. IF m.kind = "direct"
      THEN \E i \in DialledFor(m, k) : conns[i].address = ip
      ELSE k # ProxyAuthority => ip = None
  <2>1. CASE m.kind = "direct"
    <3>1. clients[m] # None /\ req[r].conn \in DialledFor(m, k)
      BY <1>1, <2>1 DEF Good, Served, Underway, DialledFor
    <3> QED
      BY <1>2, <2>1, <3>1 DEF IInv, Cache, PeersDialled
  <2>2. CASE m.kind = "forward"
    BY <2>2
  <2>3. CASE m.kind \notin {"direct", "forward"}
    <3>1. clients[m] # None
      BY <1>1, <2>3 DEF Good, Served, Underway
    <3> QED
      BY <1>2, <2>3, <3>1 DEF IInv, Cache, PeersDialled
  <2> QED
    BY <2>1, <2>2, <2>3
<1>5. req' = [req EXCEPT ![r] = x] /\ req'[r] = x
  BY RequestFields DEF ReadPeer
<1> HIDE DEF ip
<1>6. /\ x \in Locals /\ x.at = "peer" /\ x.target = req[r].target /\ x.proxy = req[r].proxy
      /\ x.no_proxy = req[r].no_proxy
      /\ x.settings = req[r].settings /\ x.mode = m /\ x.conn = req[r].conn
      /\ x.peers = Append(req[r].peers, ip)
  <2> DEFINE peers == Append(req[r].peers, ip)
  <2>1. peers \in Seq(Addresses \cup {None})
    BY <1>1, <1>3
  <2>2. x = [req[r] EXCEPT !.at = "peer", !.peers = peers]
    OBVIOUS
  <2> HIDE DEF peers
  <2>3. /\ x \in Locals /\ x.at = "peer" /\ x.target = req[r].target /\ x.proxy = req[r].proxy
        /\ x.no_proxy = req[r].no_proxy
        /\ x.settings = req[r].settings /\ x.mode = m /\ x.conn = req[r].conn
        /\ x.peers = peers
    BY <1>1, <2>1, <2>2 DEF Locals
  <2> QED
    BY <2>3 DEF peers
<1> HIDE DEF x
<1>7. x.peers[Len(x.peers)] = ip
  BY <1>1, <1>3, <1>6
<1>8. Decided(r)' /\ Served(r)'
  BY <1>1, <1>5, <1>6 DEF Good, Decided, Served, Underway
<1>9. Reported(r)'
  <2>1. DialledFor(m, k)' = DialledFor(m, k) /\ UNCHANGED conns
    BY <1>1, <1>5, <1>6 DEF DialledFor
  <2> QED
    BY <1>1, <1>4, <1>5, <1>6, <1>7 DEF Reported, DialledFor
<1> QED
  BY <1>1, <1>5, <1>6, <1>8, <1>9, SameCache, QuietStep DEF Good

LEMMA RedirectStep ==
    ASSUME IInv, NEW r \in Requests, NEW t \in Targets, Redirect(r, t)
    PROVE  IInv'
<1> DEFINE mode == ConnMode(EffectiveProxy(req[r].proxy, req[r].no_proxy, t),
                            req[r].settings, t)
           x == [req[r] EXCEPT !.at = "mode", !.target = t, !.conn = 0, !.mode = mode]
<1>1. /\ req[r] \in Locals /\ req[r].at = "peer" /\ UNCHANGED <<clients, conns>>
  BY RequestFields DEF Redirect
<1>2. req[r].proxy \in Proxies /\ req[r].settings \in Settings
  BY <1>1, RequestMode DEF Underway
<1>3. mode \in Modes
  BY <1>2, ModeFields, EffectiveIs
<1>4. req' = [req EXCEPT ![r] = x] /\ req'[r] = x
  BY RequestFields DEF Redirect
<1> HIDE DEF mode
<1>5. /\ x \in Locals /\ x.at = "mode" /\ x.target = t /\ x.proxy = req[r].proxy
      /\ x.no_proxy = req[r].no_proxy
      /\ x.settings = req[r].settings /\ x.mode = mode /\ x.conn = 0
  BY <1>1, <1>3 DEF Locals
<1> HIDE DEF x
<1>6. Good(r)'
  BY <1>2, <1>4, <1>5 DEF Good, Decided, Served, Reported, Underway, mode
<1> QED
  BY <1>1, <1>4, <1>5, <1>6, SameCache, QuietStep

LEMMA ReadCertStep ==
    ASSUME IInv, NEW r \in Requests, ReadCert(r)
    PROVE  IInv'
<1> DEFINE m == req[r].mode
           cert == IF m.kind = "forward" THEN None ELSE clients[m].cert
           x == [req[r] EXCEPT !.at = "done", !.cert = cert]
<1>1. /\ req[r] \in Locals /\ Good(r) /\ req[r].at = "peer" /\ UNCHANGED <<clients, conns>>
  BY RequestFields DEF ReadCert
<1>2. cert \in {t.host : t \in Targets} \cup {None}
  <2>1. CASE m.kind = "forward"
    BY <2>1
  <2>2. CASE m.kind # "forward"
    <3>1. clients[m] # None
      BY <1>1, <2>2 DEF Good, Served, Underway
    <3>2. m \in Modes
      BY <1>1, RequestMode DEF Underway
    <3> QED
      BY <2>2, <3>1, <3>2, ClientFields
  <2> QED
    BY <2>1, <2>2
<1>3. req' = [req EXCEPT ![r] = x] /\ req'[r] = x
  BY RequestFields DEF ReadCert
<1> HIDE DEF cert
<1>4. /\ x \in Locals /\ x.at = "done" /\ x.target = req[r].target /\ x.proxy = req[r].proxy
      /\ x.no_proxy = req[r].no_proxy
      /\ x.settings = req[r].settings /\ x.mode = m /\ x.conn = req[r].conn
  BY <1>1, <1>2 DEF Locals
<1> HIDE DEF x
<1>5. Good(r)'
  BY <1>1, <1>3, <1>4 DEF Good, Decided, Served, Reported, Underway
<1> QED
  BY <1>1, <1>3, <1>4, <1>5, SameCache, QuietStep

\* A client is built for a mode that had none, and so no connection either.
LEMMA GetOrBuildStep ==
    ASSUME IInv, NEW r \in Requests, GetOrBuild(r)
    PROVE  IInv'
<1> DEFINE m == req[r].mode
           x == [req[r] EXCEPT !.at = "checkout"]
<1>1. /\ req[r] \in Locals /\ Good(r) /\ req[r].at = "mode" /\ m.kind # "forward"
      /\ UNCHANGED conns
  BY RequestFields DEF GetOrBuild
<1>2. /\ m \in Modes /\ req[r].settings \in Settings /\ m.tls = TlsKey(req[r].settings)
  BY <1>1, RequestMode DEF Underway
<1>3. req' = [req EXCEPT ![r] = x] /\ req'[r] = x
  BY RequestFields DEF GetOrBuild
<1>4. /\ x \in Locals /\ x.at = "checkout" /\ x.target = req[r].target /\ x.proxy = req[r].proxy
      /\ x.no_proxy = req[r].no_proxy
      /\ x.settings = req[r].settings /\ x.mode = m /\ x.conn = req[r].conn
  BY <1>1 DEF Locals
<1> HIDE DEF x
<1>5. clients'[m] # None /\ Kept => Good(r)'
  <2>1. ASSUME Kept, req[r].conn # 0
        PROVE  /\ conns'[req[r].conn].mode = conns[req[r].conn].mode
               /\ conns'[req[r].conn].target = conns[req[r].conn].target
    BY <1>1
  <2> QED
    BY <1>1, <1>3, <1>4, <2>1 DEF Good, Decided, Served, Reported, Underway
<1>6. CASE clients[m] # None
  <2>1. UNCHANGED clients
    BY <1>6 DEF GetOrBuild
  <2> QED
    BY <1>1, <1>3, <1>4, <1>5, <1>6, <2>1, SameCache, QuietStep
<1>7. CASE clients[m] = None
  <2> DEFINE new == [built_for |-> req[r].settings, cert |-> None,
                     peers |-> [k \in Authorities |-> None]]
  <2>1. clients' = [clients EXCEPT ![m] = new] /\ clients \in [Modes -> Clients \cup {None}]
    BY <1>7 DEF GetOrBuild, IInv, Typed
  <2>2. new \in Clients /\ new # None /\ new.built_for = req[r].settings
        /\ \A k \in Authorities : new.peers[k] = None
    <3>1. new \in Clients
      BY <1>2 DEF Clients
    <3> QED
      BY <3>1, NoneAssumption
  <2> HIDE DEF new
  <2>3. /\ clients'[m] = new /\ \A n \in Modes : n # m => clients'[n] = clients[n]
        /\ clients' \in [Modes -> Clients \cup {None}]
    BY <1>2, <2>1, <2>2
  <2>4. Kept
    BY <1>1, <2>2, <2>3 DEF Kept, IInv, Typed
  <2>5. \A i \in 1..Len(conns) : conns[i].mode \in Modes /\ conns[i].mode # m
    BY <1>7, ConnFields DEF IInv, Cache, OfClient
  <2>6. Cache'
    <3>1. BuiltForMode'
      BY <1>1, <1>2, <2>2, <2>3 DEF IInv, Cache, BuiltForMode
    <3>2. OfClient'
      BY <1>1, <2>3, <2>5 DEF IInv, Cache, OfClient
    <3>3. PeersDialled'
      <4> SUFFICES ASSUME NEW n \in Modes, clients'[n] # None, NEW k \in Authorities
                   PROVE  IF n.kind = "direct"
                          THEN DialledFor(n, k)' # {} =>
                                 \E i \in DialledFor(n, k)' : conns'[i].address = clients'[n].peers[k]
                          ELSE k # ProxyAuthority => clients'[n].peers[k] = None
        BY DEF PeersDialled
      <4>1. DialledFor(n, k)' = DialledFor(n, k)
        BY <1>1 DEF DialledFor
      <4>2. CASE n = m
        <5>1. DialledFor(n, k) = {}
          BY <2>5, <4>2 DEF DialledFor
        <5> QED
          BY <2>2, <2>3, <4>1, <4>2, <5>1
      <4>3. CASE n # m
        BY <1>1, <2>3, <4>1, <4>3 DEF IInv, Cache, PeersDialled
      <4> QED
        BY <4>2, <4>3
    <3> QED
      BY <3>1, <3>2, <3>3 DEF Cache
  <2>7. Good(r)'
    BY <1>5, <2>2, <2>3, <2>4
  <2>8. req' \in [Requests -> Locals] /\ \A q \in Requests : Good(q)'
    BY <1>3, <1>4, <2>4, <2>7, RequestStep
  <2> QED
    BY <1>1, <2>3, <2>6, <2>8 DEF IInv, Typed
<1> QED
  BY <1>6, <1>7

\* A dial records its address where lookups for what it dialled will find it.
LEMMA DialStep ==
    ASSUME IInv, NEW r \in Requests, NEW a \in Addresses, Dial(r, a)
    PROVE  IInv'
<1> DEFINE m == req[r].mode
           t == req[r].target
           key == Dialled(r)
           new == [clients[m] EXCEPT !.peers = [clients[m].peers EXCEPT ![key] = a]]
           n == Len(conns) + 1
           conn == [at |-> IF m.kind = "direct" /\ t.scheme = "https" THEN "handshake" ELSE "idle",
                    mode |-> m, target |-> t, address |-> a, tls |-> clients[m].built_for,
                    dialled_by |-> r]
<1>1. /\ Good(r) /\ req[r].at = "checkout" /\ UNCHANGED req
      /\ conns' = Append(conns, conn) /\ conns \in Seq(Conns) /\ Len(conns) \in Nat
      /\ clients \in [Modes -> Clients \cup {None}]
  BY RequestFields DEF Dial, IInv, Typed
<1>2. m \in Modes /\ t \in Targets /\ PeerSlotKey(t) \in Authorities /\ clients[m] # None
      /\ m.kind # "forward"
  BY <1>1, RequestMode DEF Underway, Good, Served
<1>3. key \in Authorities /\ key = IF m.kind = "direct" THEN PeerSlotKey(t) ELSE ProxyAuthority
  BY <1>2 DEF Dialled, Authorities
<1>4. /\ clients[m] \in Clients /\ clients[m].built_for \in Settings
      /\ clients[m].peers \in [Authorities -> Addresses \cup {None}]
  BY <1>2, ClientFields
<1>5. clients' = [clients EXCEPT ![m] = new]
  BY <1>1, <1>2, <1>4 DEF Dial
<1>6. /\ new \in Clients /\ new.built_for = clients[m].built_for
      /\ new.peers = [clients[m].peers EXCEPT ![key] = a] /\ new # None
  <2> DEFINE peers == [clients[m].peers EXCEPT ![key] = a]
  <2>1. peers \in [Authorities -> Addresses \cup {None}]
    BY <1>3, <1>4
  <2>2. new = [clients[m] EXCEPT !.peers = peers]
    OBVIOUS
  <2> HIDE DEF peers
  <2>3. new \in Clients /\ new.built_for = clients[m].built_for /\ new.peers = peers
    BY <1>4, <2>1, <2>2 DEF Clients
  <2> QED
    BY <2>3, NoneAssumption DEF peers
<1>7. conn \in Conns /\ conn.mode = m /\ conn.target = t /\ conn.address = a
      /\ conn.tls = clients[m].built_for
  BY <1>2, <1>4 DEF Conns
<1> HIDE DEF new, conn, key, m, t
<1>8. /\ clients'[m] = new /\ (\A o \in Modes : o # m => clients'[o] = clients[o])
      /\ clients' \in [Modes -> Clients \cup {None}]
  BY <1>1, <1>2, <1>5, <1>6
<1>9. /\ conns' \in Seq(Conns) /\ Len(conns') = n /\ conns'[n] = conn
      /\ \A i \in 1..Len(conns) : conns'[i] = conns[i]
  BY <1>1, <1>7
<1>10. Kept
  BY <1>1, <1>6, <1>8, <1>9 DEF Kept
<1>11. \A q \in Requests : Good(q)'
  BY <1>1, <1>10, OthersStayGood
<1>12. BuiltForMode'
  BY <1>2, <1>6, <1>8 DEF IInv, Cache, BuiltForMode
<1>13. OfClient'
  <2> SUFFICES ASSUME NEW i \in 1..n
               PROVE  /\ clients'[conns'[i].mode] # None
                      /\ conns'[i].tls = clients'[conns'[i].mode].built_for
    BY <1>9 DEF OfClient
  <2>1. CASE i = n
    BY <1>6, <1>7, <1>8, <1>9, <2>1
  <2>2. CASE i \in 1..Len(conns)
    <3>1. /\ conns'[i] = conns[i] /\ conns[i].mode \in Modes /\ clients[conns[i].mode] # None
          /\ conns[i].tls = clients[conns[i].mode].built_for
      BY <1>9, <2>2, ConnFields DEF IInv, Cache, OfClient
    <3> QED
      BY <1>6, <1>8, <3>1
  <2> QED
    BY <1>1, <2>1, <2>2
<1>14. PeersDialled'
  <2> SUFFICES ASSUME NEW o \in Modes, clients'[o] # None, NEW k \in Authorities
               PROVE  IF o.kind = "direct"
                      THEN DialledFor(o, k)' # {} =>
                             \E i \in DialledFor(o, k)' : conns'[i].address = clients'[o].peers[k]
                      ELSE k # ProxyAuthority => clients'[o].peers[k] = None
    BY DEF PeersDialled
  <2>1. clients[o] # None
    BY <1>2, <1>8
  <2>2. IF o.kind = "direct"
        THEN DialledFor(o, k) # {} =>
               \E i \in DialledFor(o, k) : conns[i].address = clients[o].peers[k]
        ELSE k # ProxyAuthority => clients[o].peers[k] = None
    BY <2>1 DEF IInv, Cache, PeersDialled
  <2>3. /\ DialledFor(o, k) \subseteq DialledFor(o, k)'
        /\ \A i \in DialledFor(o, k) : conns'[i].address = conns[i].address
        /\ \A i \in DialledFor(o, k)' : i \in DialledFor(o, k) \/ i = n
        /\ n \in DialledFor(o, k)' <=> o = m /\ PeerSlotKey(t) = k
    BY <1>1, <1>7, <1>9 DEF DialledFor
  <2>4. CASE o = m /\ k = key
    <3>1. clients'[o].peers[k] = a
      BY <1>3, <1>4, <1>6, <1>8, <2>4
    <3>2. CASE o.kind = "direct"
      <4>1. n \in DialledFor(o, k)' /\ conns'[n].address = a
        BY <1>3, <1>7, <1>9, <2>3, <2>4, <3>2
      <4> QED
        BY <3>1, <3>2, <4>1
    <3>3. CASE o.kind # "direct"
      BY <1>3, <2>4, <3>3
    <3> QED
      BY <3>2, <3>3
  <2>5. CASE ~(o = m /\ k = key)
    <3>1. clients'[o].peers[k] = clients[o].peers[k]
      BY <1>3, <1>4, <1>6, <1>8, <2>5
    <3>2. o.kind = "direct" => n \notin DialledFor(o, k)'
      BY <1>3, <2>3, <2>5
    <3> QED
      BY <2>2, <2>3, <3>1, <3>2
  <2> QED
    BY <2>4, <2>5
<1> QED
  BY <1>1, <1>8, <1>9, <1>11, <1>12, <1>13, <1>14 DEF IInv, Typed, Cache

-----------------------------------------------------------------------------
(* The steps of a connection.                                                *)

\* No request takes part.
LEMMA IdleStep ==
    ASSUME IInv, SameConns, SameSlots, UNCHANGED req
    PROVE  IInv'
<1>1. Kept /\ Cache'
  BY QuietCache
<1>2. \A q \in Requests : Good(q)'
  BY <1>1, OthersStayGood
<1> QED
  BY <1>1, <1>2 DEF IInv, Typed, SameConns, SameSlots

LEMMA ConnectionStep ==
    ASSUME IInv, NEW i \in 1..Len(conns), Handshake(i) \/ HandshakeFails(i) \/ Closed(i)
    PROVE  IInv'
<1>1. conns[i].mode \in Modes /\ conns[i].target \in Targets /\ conns[i].dialled_by \in Requests
  BY ConnFields
<1>2. CASE Handshake(i)
  <2> DEFINE m == conns[i].mode
  <2>1. PICK cert \in {conns[i].target.host, None} : clients' = [clients EXCEPT ![m].cert = cert]
    BY <1>2 DEF Handshake
  <2> DEFINE new == [clients[m] EXCEPT !.cert = cert]
  <2>2. clients[m] # None /\ clients[m] \in Clients
    BY <1>1, ClientFields DEF IInv, Cache, OfClient
  <2>3. clients \in [Modes -> Clients \cup {None}] /\ clients' = [clients EXCEPT ![m] = new]
    BY <1>1, <2>1 DEF IInv, Typed
  <2>4. cert \in {t.host : t \in Targets} \cup {None}
    BY <1>1
  <2>5. new \in Clients /\ new.built_for = clients[m].built_for /\ new.peers = clients[m].peers
    BY <2>2, <2>4 DEF Clients
  <2>6. new # None
    BY <2>5, NoneAssumption
  <2> HIDE DEF new
  <2>7. SameSlots
    BY <1>1, <2>2, <2>3, <2>5, <2>6 DEF SameSlots
  <2>8. SameConns /\ UNCHANGED req
    BY <1>2, MarkConn DEF Handshake
  <2> QED
    BY <2>7, <2>8, IdleStep
<1>3. CASE HandshakeFails(i)
  <2> DEFINE r == conns[i].dialled_by
             x == IF req[r].at = "checkout" THEN Local("failed") ELSE req[r]
  <2>1. SameConns /\ SameSlots
    BY <1>3, MarkConn, SameCache DEF HandshakeFails
  <2>2. req' = [req EXCEPT ![r] = x] /\ req \in [Requests -> Locals] /\ req'[r] = x
    BY <1>1, <1>3 DEF HandshakeFails, IInv, Typed
  <2>3. CASE req[r].at = "checkout"
    BY <1>1, <2>1, <2>2, <2>3, LocalFields, GivenUpGood, QuietStep
  <2>4. CASE req[r].at # "checkout"
    <3>1. req' = req
      BY <1>1, <2>2, <2>4
    <3> QED
      BY <2>1, <3>1, IdleStep
  <2> QED
    BY <2>3, <2>4
<1>4. CASE Closed(i)
  BY <1>4, MarkConn, SameCache, IdleStep DEF Closed
<1> QED
  BY <1>2, <1>3, <1>4

-----------------------------------------------------------------------------
LEMMA InitIInv == Init => IInv
<1> SUFFICES ASSUME Init
             PROVE  IInv
  OBVIOUS
<1>1. Local("idle") \in Locals /\ Local("idle").at = "idle" /\ Local("idle").conn = 0
  BY LocalFields
<1>2. \A r \in Requests : req[r] = Local("idle")
  BY DEF Init
<1>3. Typed /\ Len(conns) = 0
  BY <1>1 DEF Init, Typed
<1>4. Cache
  BY <1>3 DEF Init, Cache, BuiltForMode, OfClient, PeersDialled
<1>5. \A r \in Requests : Good(r)
  BY <1>1, <1>2 DEF Good, Decided, Served, Reported, Underway
<1> QED
  BY <1>3, <1>4, <1>5 DEF IInv

LEMMA NextIInv == IInv /\ [Next]_vars => IInv'
<1> SUFFICES ASSUME IInv, [Next]_vars
             PROVE  IInv'
  OBVIOUS
<1>1. ASSUME NEW r \in Requests, NEW t \in Targets, NEW p \in Proxies,
             NEW excluded \in NoProxies, NEW s \in Settings, Begin(r, t, p, excluded, s)
      PROVE  IInv'
  BY <1>1, BeginStep
<1>2. ASSUME NEW r \in Requests,
             GetOrBuild(r) \/ BuildFails(r) \/ ForwardProxy(r) \/ Complete(r) \/ Fails(r)
             \/ ReadPeer(r) \/ ReadCert(r)
      PROVE  IInv'
  BY <1>2, GetOrBuildStep, BuildFailsStep, ForwardProxyStep, CompleteStep, FailsStep,
     ReadPeerStep, ReadCertStep
<1>3. ASSUME NEW r \in Requests, NEW a \in Addresses, Dial(r, a)
      PROVE  IInv'
  BY <1>3, DialStep
<1>4. ASSUME NEW r \in Requests, NEW i \in 1..Len(conns), Checkout(r, i)
      PROVE  IInv'
  BY <1>4, CheckoutStep
<1>5. ASSUME NEW r \in Requests, NEW t \in Targets, Redirect(r, t)
      PROVE  IInv'
  BY <1>5, RedirectStep
<1>6. ASSUME NEW i \in 1..Len(conns), Handshake(i) \/ HandshakeFails(i) \/ Closed(i)
      PROVE  IInv'
  BY <1>6, ConnectionStep
<1>7. CASE UNCHANGED vars
  BY <1>7, SameCache, IdleStep DEF vars
<1> QED
  BY <1>1, <1>2, <1>3, <1>4, <1>5, <1>6, <1>7 DEF Next

LEMMA InductiveInvariant == Spec => []IInv
  BY InitIInv, NextIInv, PTL DEF Spec

\* The connection that answers a request has exactly the TLS settings of its
\* config: the key of the cache tells all of them apart, and a client is built
\* for the settings of its key, by whichever request comes first.
THEOREM SettingsAreNotShared == Spec => []SettingsNotShared
<1>1. IInv => SettingsNotShared
  <2> SUFFICES ASSUME IInv, NEW r \in Requests, req[r].conn # 0
               PROVE  conns[req[r].conn].tls = req[r].settings
    BY DEF SettingsNotShared
  <2> DEFINE m == req[r].mode
             built == clients[m].built_for
  <2>1. /\ req[r].at \in Underway /\ m.kind # "forward" /\ req[r].conn \in 1..Len(conns)
        /\ conns[req[r].conn].mode = m
    BY RequestFields DEF Good, Served
  <2>2. m \in Modes /\ m.tls = TlsKey(req[r].settings) /\ req[r].settings \in Settings
    BY <2>1, RequestMode
  <2>3. clients[m] # None /\ conns[req[r].conn].tls = built /\ m.tls = TlsKey(built)
    BY <2>1, <2>2 DEF IInv, Cache, OfClient, BuiltForMode
  <2>4. built \in Settings
    BY <2>2, <2>3, ClientFields
  <2> QED
    BY <2>2, <2>3, <2>4, TlsKeyInjective
<1> QED
  BY <1>1, InductiveInvariant, PTL

\* The peer address a direct hop reports was dialled by the client of its mode
\* for its host and port, whichever requests dialled, overwrote the entry or
\* closed the connection in between; a proxied hop reports none.
THEOREM PeerIpIsOneUsed == Spec => []PeerIpWasUsed
<1>1. IInv => PeerIpWasUsed
  BY RequestFields DEF PeerIpWasUsed, Good, Reported, DialledFor, PeerSlotKey
<1> QED
  BY <1>1, InductiveInvariant, PTL
=============================================================================
