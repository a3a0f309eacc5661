------------------------------ MODULE ConnCache ------------------------------
(***************************************************************************)
(* The client cache of HyperClient (src/client/hyper.rs): requests running *)
(* at once get or build a pooled client per connection mode, dial or reuse *)
(* its connections, and read the peer address and the certificate they     *)
(* report from the two slots all users of that client share.               *)
(*                                                                         *)
(* The pool inside a client is hyper's (external): a request waits for an  *)
(* idle connection to its target and dials one meanwhile; a dial nobody    *)
(* waits for any more still ends up in the pool.                           *)
(***************************************************************************)
EXTENDS Naturals, FiniteSets, Sequences

CONSTANTS
    None,         \* what an Option that is not set holds
    Requests,     \* the requests in flight at once
    Targets,      \* records [scheme, host, port]: what a URI names
    Addresses,    \* the addresses a host name can resolve to
    Settings,     \* records [verify, ciphers]: the TLS part of a config
    BadCiphers,   \* the cipher strings OpenSSL refuses
    Proxies,      \* the proxies a config can name: "none", "http", "socks5"
    NoProxies,    \* the lists it can exclude from its proxy: sets of hosts
    MaxHops,      \* bound: hops of a request
    MaxConns      \* bound: connections dialled

\* The authority a proxy's own URI names.
ProxyAuthority == <<"proxy", 3128>>

ASSUME TargetsAssumption == \A t \in Targets : t.scheme \in {"http", "https"}
ASSUME SettingsAssumption ==
    \A s \in Settings : s = [verify |-> s.verify, ciphers |-> s.ciphers]
ASSUME ProxiesAssumption == "none" \in Proxies /\ Proxies \subseteq {"none", "http", "socks5"}

VARIABLES
    req,       \* the requests: where they are, and what they report
    clients,   \* cached: a client (its slots) per mode, or None
    conns      \* the connections, in the order they were dialled

vars == <<req, clients, conns>>

-----------------------------------------------------------------------------
\* Mutant: the cipher string is not part of the key.
TlsKeyWithoutCiphers(s) == [verify |-> s.verify]

\* TlsKey::from_config
TlsKey(s) == [verify |-> s.verify, ciphers |-> s.ciphers]

\* effective_proxy: the proxy the config leaves in effect for the target.
EffectiveProxy(proxy, no_proxy, target) ==
    IF target.host \in no_proxy THEN "none" ELSE proxy

\* conn_mode, for the proxy in effect.
ConnMode(proxy, settings, target) ==
    CASE proxy = "none" -> [kind |-> "direct", tls |-> TlsKey(settings)]
      [] proxy = "http" /\ target.scheme = "http" -> [kind |-> "forward"]
      [] proxy = "http" /\ target.scheme = "https" ->
            [kind |-> "tunnel", tls |-> TlsKey(settings)]
      [] proxy = "socks5" -> [kind |-> "socks5", tls |-> TlsKey(settings)]

Modes == {ConnMode(p, s, t) : p \in Proxies, s \in Settings, t \in Targets}

\* Mutant: connections to different ports of a host share an entry.
PeerSlotKeyWithoutPort(target) == <<target.host, 0>>

\* peer_slot_key
PeerSlotKey(target) == <<target.host, target.port>>

\* A cached client: the settings of its connector, and its two slots.  The peer
\* slot maps the authorities dialled to the last address, None if not dialled.
Authorities == {PeerSlotKey(t) : t \in Targets} \cup {ProxyAuthority}
Clients == [built_for : Settings,
            cert      : {t.host : t \in Targets} \cup {None},
            peers     : [Authorities -> Addresses \cup {None}]]

ASSUME NoneAssumption == None \notin Clients

\* What a request keeps in local variables.  peers is the history of the
\* addresses it reported, one per hop; conn the connection that answered.
Local(at) == [at |-> at, target |-> None, proxy |-> None, no_proxy |-> None,
              settings |-> None, mode |-> None, conn |-> 0, peers |-> << >>, cert |-> None]

Init ==
    /\ req = [r \in Requests |-> Local("idle")]
    /\ clients = [m \in Modes |-> None]
    /\ conns = << >>

\* send_inner starts its first hop: the mode is decided for the hop's target.
\* validate_proxy has refused a no_proxy without a proxy.
Begin(r, t, p, excluded, s) ==
    /\ req[r].at = "idle"
    /\ p = "none" => excluded = {}
    /\ req' = [req EXCEPT ![r] = [Local("mode") EXCEPT
                 !.target = t, !.proxy = p, !.no_proxy = excluded, !.settings = s,
                 !.mode = ConnMode(EffectiveProxy(p, excluded, t), s, t)]]
    /\ UNCHANGED <<clients, conns>>

\* get_or_build, under the lock of cached: the client of the mode, built for
\* the first config that asks.
GetOrBuild(r) ==
    LET m == req[r].mode
    IN  /\ req[r].at = "mode"
        /\ m.kind # "forward"
        /\ clients[m] = None => req[r].settings.ciphers \notin BadCiphers
        /\ clients' = IF clients[m] = None
                      THEN [clients EXCEPT ![m] =
                              [built_for |-> req[r].settings, cert |-> None,
                               peers |-> [k \in Authorities |-> None]]]
                      ELSE clients
        /\ req' = [req EXCEPT ![r].at = "checkout"]
        /\ UNCHANGED conns

\* OpenSslConnector::new refuses the config: nothing is cached.
BuildFails(r) ==
    /\ req[r].at = "mode"
    /\ req[r].mode.kind # "forward"
    /\ clients[req[r].mode] = None
    /\ req[r].settings.ciphers \in BadCiphers
    /\ req' = [req EXCEPT ![r] = Local("failed")]
    /\ UNCHANGED <<clients, conns>>

\* dispatch_forward_proxy: a connection of its own, no client and no slots.
ForwardProxy(r) ==
    /\ req[r].at = "mode"
    /\ req[r].mode.kind = "forward"
    /\ req' = [req EXCEPT ![r].at = "answered"]
    /\ UNCHANGED <<clients, conns>>

-----------------------------------------------------------------------------
\* The connector, called with the target or, under a proxy, with the proxy.

Dialled(r) ==
    IF req[r].mode.kind = "direct"
    THEN PeerSlotKey(req[r].target)
    ELSE ProxyAuthority

\* A dial connects to address a: TCP is up, the peer is recorded at once.  A
\* plain connection is ready; TLS to the target has its handshake to do.
Dial(r, a) ==
    LET m == req[r].mode
    IN  /\ req[r].at = "checkout"
        /\ \A i \in 1..Len(conns) : conns[i].dialled_by = r => conns[i].at # "handshake"
        /\ Len(conns) < MaxConns
        /\ clients' = [clients EXCEPT ![m].peers[Dialled(r)] = a]
        /\ conns' = Append(conns,
             [at |-> IF m.kind = "direct" /\ req[r].target.scheme = "https"
                     THEN "handshake" ELSE "idle",
              mode |-> m, target |-> req[r].target, address |-> a,
              tls |-> clients[m].built_for, dialled_by |-> r])
        /\ UNCHANGED req

\* The handshake succeeds: what certificate the peer showed, if any, goes
\* into the client's slot.
Handshake(i) ==
    /\ conns[i].at = "handshake"
    /\ \E cert \in {conns[i].target.host, None} :
         clients' = [clients EXCEPT ![conns[i].mode].cert = cert]
    /\ conns' = [conns EXCEPT ![i].at = "idle"]
    /\ UNCHANGED req

\* It fails or times out; the recorded peer stays.  The request that dialled
\* fails with it, unless it has been served meanwhile.
HandshakeFails(i) ==
    /\ conns[i].at = "handshake"
    /\ conns' = [conns EXCEPT ![i].at = "closed"]
    /\ LET r == conns[i].dialled_by
       IN  req' = [req EXCEPT ![r] = IF @.at = "checkout" THEN Local("failed") ELSE @]
    /\ UNCHANGED clients

\* The server or the idle timeout closes a pooled connection.
Closed(i) ==
    /\ conns[i].at = "idle"
    /\ conns' = [conns EXCEPT ![i].at = "closed"]
    /\ UNCHANGED <<req, clients>>

-----------------------------------------------------------------------------
\* dispatch_request gets an idle connection of the client to the target ...
Checkout(r, i) ==
    /\ req[r].at = "checkout"
    /\ conns[i].at = "idle"
    /\ conns[i].mode = req[r].mode
    /\ conns[i].target = req[r].target
    /\ conns' = [conns EXCEPT ![i].at = "busy"]
    /\ req' = [req EXCEPT ![r].at = "sending", ![r].conn = i]
    /\ UNCHANGED clients

\* ... and has read the response: the connection is idle again, or given up
\* because it closes or the body was cut short ...
Complete(r) ==
    /\ req[r].at = "sending"
    /\ \E next \in {"idle", "closed"} : conns' = [conns EXCEPT ![req[r].conn].at = next]
    /\ req' = [req EXCEPT ![r].at = "answered"]
    /\ UNCHANGED clients

\* ... or the dial is refused, the connection breaks, or the timeout of send()
\* drops the request; a dial under way goes on.
Fails(r) ==
    /\ req[r].at \in {"checkout", "sending"}
    /\ conns' = IF req[r].at = "sending"
                THEN [conns EXCEPT ![req[r].conn].at = "closed"]
                ELSE conns
    /\ req' = [req EXCEPT ![r] = Local("failed")]
    /\ UNCHANGED clients

\* hop_peer_ip is looked up, under the lock of peer_slot.
ReadPeer(r) ==
    /\ req[r].at = "answered"
    /\ req' = [req EXCEPT
         ![r].at = "peer",
         ![r].peers = Append(@, IF req[r].mode.kind = "forward"
                                THEN None
                                ELSE clients[req[r].mode].peers[PeerSlotKey(req[r].target)])]
    /\ UNCHANGED <<clients, conns>>

\* A redirect: the hop is recorded, the proxy and the mode are decided anew for
\* the next target.
Redirect(r, t) ==
    /\ req[r].at = "peer"
    /\ Len(req[r].peers) < MaxHops
    /\ req' = [req EXCEPT ![r].at = "mode", ![r].target = t, ![r].conn = 0,
                          ![r].mode = ConnMode(EffectiveProxy(req[r].proxy, req[r].no_proxy, t),
                                               req[r].settings, t)]
    /\ UNCHANGED <<clients, conns>>

\* The final response: the certificate is whatever the slot holds now.
ReadCert(r) ==
    /\ req[r].at = "peer"
    /\ req' = [req EXCEPT ![r].at = "done",
                          ![r].cert = IF req[r].mode.kind = "forward"
                                      THEN None ELSE clients[req[r].mode].cert]
    /\ UNCHANGED <<clients, conns>>

Next ==
    \/ \E r \in Requests :
         \/ \E t \in Targets, p \in Proxies, excluded \in NoProxies, s \in Settings :
              Begin(r, t, p, excluded, s)
         \/ GetOrBuild(r)
         \/ BuildFails(r)
         \/ ForwardProxy(r)
         \/ \E a \in Addresses : Dial(r, a)
         \/ \E i \in 1..Len(conns) : Checkout(r, i)
         \/ Complete(r)
         \/ Fails(r)
         \/ ReadPeer(r)
         \/ \E t \in Targets : Redirect(r, t)
         \/ ReadCert(r)
    \/ \E i \in 1..Len(conns) : Handshake(i) \/ HandshakeFails(i) \/ Closed(i)

Spec == Init /\ [][Next]_vars

-----------------------------------------------------------------------------
\* "Requests with different TLS settings must not share a cached client"
\* (TlsKey): the connection that answered a request was set up with exactly
\* the settings the request asked for, whoever built the client.
SettingsNotShared ==
    \A r \in Requests : req[r].conn # 0 => conns[req[r].conn].tls = req[r].settings

\* "The value will always be an IP that *was* used" (PeerSlot), and there is
\* one: a direct hop reports an address this mode's client really dialled for
\* the target's host and port, although other requests overwrite the entry and
\* the connection that answered may be gone; a proxied hop reports none, unless
\* it asks for the proxy itself.
PeerIpWasUsed ==
    \A r \in Requests : req[r].at = "peer" =>
        LET ip == req[r].peers[Len(req[r].peers)]
            target == req[r].target
        IN  IF req[r].mode.kind = "direct"
            THEN \E i \in 1..Len(conns) :
                   /\ conns[i].mode = req[r].mode
                   /\ conns[i].target.host = target.host
                   /\ conns[i].target.port = target.port
                   /\ conns[i].address = ip
            ELSE <<target.host, target.port>> # ProxyAuthority => ip = None

\* "TLS certificate info (None for plain HTTP)" (python.rs, cert_info).
NoCertForPlainHttp ==
    \A r \in Requests :
        req[r].at = "done" /\ req[r].target.scheme = "http" => req[r].cert = None
=============================================================================
