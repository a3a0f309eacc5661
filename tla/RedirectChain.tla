---------------------------- MODULE RedirectChain ----------------------------
(***************************************************************************)
(* One request that follows redirects: the loop of send_inner of           *)
(* src/client/hyper.rs over its three ways to dispatch a request.  For     *)
(* every hop the connection mode is decided anew, the response's           *)
(* Set-Cookie headers are stored and the cookies for the next hop chosen.  *)
(* What the servers answer is the environment's choice.                    *)
(***************************************************************************)
EXTENDS ChainCookies

CONSTANTS
    Origins,           \* the URLs a caller asks for
    Uris,              \* the URIs a Location can name
    SetCookies,        \* the Set-Cookie headers a server can send
    Follow,            \* config.should_follow_redirects()
    ForwardCookies,    \* config.should_forward_redirect_cookies()
    RedirectLimit,     \* config.redirect_limit()
    Proxy,             \* the proxy's scheme: "none", "http" or "socks5"
    NoProxy,           \* config.no_proxy: records of kind "any", "domain" or "net"
    MaxSetCookies      \* bound: Set-Cookie headers in one chain

ASSUME LimitAssumption == RedirectLimit \in Nat /\ MaxSetCookies \in Nat
ASSUME FlagsAssumption == Follow \in BOOLEAN /\ ForwardCookies \in BOOLEAN
ASSUME ProxyAssumption == Proxy \in {"none", "http", "socks5"}
ASSUME UrisAssumption ==
    Origins \cup Uris \subseteq
        [scheme : STRING, host : Seq(STRING), path : Seq(STRING) \ {<< >>}]
ASSUME SetCookiesAssumption ==
    SetCookies \subseteq
        [name : STRING, size : Nat, domain : Seq(STRING), path : Seq(STRING),
         secure : BOOLEAN, expired : BOOLEAN]

VARIABLES
    origin,       \* config.url
    direct,       \* resolve_ip or request_target is set
    pc,           \* "idle", then "request", "response", "store", "final", "ended"
    uri,          \* the hop being made
    next_uri,     \* where its redirect leads
    hops,         \* redirects counted
    cookies,      \* chain_cookies
    hop_cookies,  \* the Cookie header of the next hop
    verdict,      \* what store() decided about the last Set-Cookie
    seen,         \* Set-Cookie headers seen so far
    wire,         \* history: the requests the chain sent
    sent,         \* history: how many requests were sent in all
    outcome       \* what send_inner came to

config == <<origin, direct>>
locals == <<uri, next_uri, hops, cookies, hop_cookies, verdict, seen, wire>>
chainVars == <<origin, direct, pc, uri, next_uri, hops, cookies, hop_cookies, verdict, seen, wire,
               sent, outcome>>

-----------------------------------------------------------------------------
\* host_bypasses_proxy: "*" covers every host, a domain the name itself and its
\* subdomains but no address, an address or a CIDR block the addresses in it.
HostBypasses(host) ==
    \E p \in NoProxy :
        \/ p.kind = "any"
        \/ p.kind = "domain" /\ host \notin Addresses /\ IsSuffix(p.labels, host)
        \/ p.kind = "net" /\ host \in p.members

\* config.effective_proxy
EffectiveProxy(u) == IF HostBypasses(u.host) THEN "none" ELSE Proxy

\* Mutant: the mode of the first hop is kept for the whole chain.
ConnModeFrozen(u) ==
    CASE wire # << >> -> wire[1].mode
      [] wire = << >> /\ EffectiveProxy(u) = "none" -> "direct"
      [] wire = << >> /\ EffectiveProxy(u) # "none" -> "tunnel"

\* conn_mode: an HTTP proxy forwards http and tunnels https.
ConnMode(u) ==
    CASE EffectiveProxy(u) = "none" -> "direct"
      [] EffectiveProxy(u) = "http" -> IF u.scheme = "https" THEN "tunnel" ELSE "forward"
      [] EffectiveProxy(u) = "socks5" -> "socks5"

\* build_request: what of the request the properties look at; the caller's own
\* Cookie headers go out on every hop, before the chain's.
Built == [uri |-> uri, cookies |-> hop_cookies, mode |-> ConnMode(uri)]

ChainInit ==
    /\ origin \in Origins
    /\ direct \in BOOLEAN
    /\ pc = "idle"
    /\ uri = origin
    /\ next_uri = origin
    /\ hops = 0
    /\ cookies = << >>
    /\ hop_cookies = << >>
    /\ verdict = "none"
    /\ seen = 0
    /\ wire = << >>
    /\ sent = 0
    /\ outcome = "none"

\* Mutant: the cookies of the chain outlive it.
DroppedButCookies ==
    /\ uri' = origin
    /\ next_uri' = origin
    /\ hops' = 0
    /\ UNCHANGED <<cookies, hop_cookies>>
    /\ verdict' = "none"
    /\ seen' = 0
    /\ wire' = << >>

\* "Created here and dropped when the request returns": the locals of
\* send_inner, with its future, are gone.
Dropped ==
    /\ uri' = origin
    /\ next_uri' = origin
    /\ hops' = 0
    /\ cookies' = << >>
    /\ hop_cookies' = << >>
    /\ verdict' = "none"
    /\ seen' = 0
    /\ wire' = << >>

\* send_inner returns an error.
Return(r) ==
    /\ pc' = "ended"
    /\ outcome' = r
    /\ Dropped

\* conn_mode refuses the proxy, get_or_build the TLS settings, build_request
\* the headers, or no connection comes about: the hop is never made.
NoRequest ==
    /\ pc = "request" /\ ~direct
    /\ \E r \in {"invalid url", "connection", "tls", "other"} : Return(r)
    /\ UNCHANGED <<config, sent>>

\* Dispatch through the mode's client ...
Dispatch ==
    /\ pc = "request" /\ ~direct
    /\ wire' = Append(wire, Built)
    /\ sent' = sent + 1
    /\ pc' = "response"
    /\ UNCHANGED <<config, uri, next_uri, hops, cookies, hop_cookies, verdict, seen, outcome>>

\* ... and get an error instead of a response, which ends the chain.
DispatchFails ==
    /\ pc = "response"
    /\ \E r \in {"connection", "tls"} : Return(r)
    /\ UNCHANGED <<config, sent>>

\* connect_stream tunnels http through an HTTP proxy, too.
DirectMode(u) == IF EffectiveProxy(u) = "http" THEN "tunnel" ELSE ConnMode(u)

\* dispatch_direct: one request on a connection of its own, with the caller's
\* cookies alone; its answer is returned, whatever its status ...
DispatchDirect ==
    /\ pc = "request" /\ direct
    /\ wire' = Append(wire, [uri |-> uri, cookies |-> << >>, mode |-> DirectMode(uri)])
    /\ sent' = sent + 1
    /\ pc' = "response"
    /\ UNCHANGED <<config, uri, next_uri, hops, cookies, hop_cookies, verdict, seen, outcome>>

\* ... unless the connection fails, or HTTP/2 cannot carry the request target.
DirectFails ==
    /\ pc = "request" /\ direct
    /\ \E r \in {"invalid url", "connection", "timeout", "tls", "other"} : Return(r)
    /\ UNCHANGED <<config, sent>>

\* Not a redirect, or redirects are not followed: the response is returned.
Final ==
    /\ pc = "response"
    /\ pc' = "final"
    /\ Dropped
    /\ UNCHANGED <<config, sent, outcome>>

\* Mutant: the limit is compared before the hop is counted.
OverLimitOffByOne == hops > RedirectLimit

OverLimit == hops + 1 > RedirectLimit

TooManyRedirects ==
    /\ pc = "response" /\ ~direct
    /\ Follow
    /\ OverLimit
    /\ Return("too many redirects")
    /\ UNCHANGED <<config, sent>>

\* No Location header, or one that does not resolve.
NoLocation ==
    /\ pc = "response" /\ ~direct
    /\ Follow
    /\ ~OverLimit
    /\ \E r \in {"other", "invalid url"} : Return(r)
    /\ UNCHANGED <<config, sent>>

\* The Location resolves to u.
Redirect(u) ==
    /\ pc = "response" /\ ~direct
    /\ Follow
    /\ ~OverLimit
    /\ hops' = hops + 1
    /\ next_uri' = u
    /\ pc' = "store"
    /\ UNCHANGED <<config, uri, cookies, hop_cookies, verdict, seen, wire, sent, outcome>>

\* chain.store: one round of its loop over the response's Set-Cookie headers.
Store(h) ==
    /\ pc = "store"
    /\ ForwardCookies
    /\ seen < MaxSetCookies
    /\ seen' = seen + 1
    /\ LET parsed == ParseSetCookie(h, uri)
       IN  \/ /\ parsed = {}
              /\ verdict' = "ignored"
              /\ UNCHANGED cookies
           \/ \E c \in parsed :
                /\ verdict' = Verdict(cookies, c, h.expired)
                /\ cookies' = Apply(cookies, c, verdict')
    /\ UNCHANGED <<config, pc, uri, next_uri, hops, hop_cookies, wire, sent, outcome>>

\* All headers stored: hop_cookies = chain.header_for(&next_uri), and on.
Advance ==
    /\ pc = "store"
    /\ hop_cookies' = IF ForwardCookies THEN HeaderFor(cookies, next_uri) ELSE hop_cookies
    /\ verdict' = "none"
    /\ uri' = next_uri
    /\ pc' = "request"
    /\ UNCHANGED <<config, next_uri, hops, cookies, seen, wire, sent, outcome>>

ChainNext ==
    \/ NoRequest
    \/ Dispatch
    \/ DispatchFails
    \/ DispatchDirect
    \/ DirectFails
    \/ Final
    \/ TooManyRedirects
    \/ NoLocation
    \/ \E u \in Uris : Redirect(u)
    \/ \E h \in SetCookies : Store(h)
    \/ Advance

-----------------------------------------------------------------------------
\* "A cookie is never sent to a host it doesn't belong to" (cookies.rs): every
\* cookie on the wire goes to the host that set it or, if that host widened
\* it, to a name under that host's own registrable domain; and a Secure one
\* only over https.
CookieStaysHome ==
    \A k \in 1..Len(wire) : \A j \in 1..Len(wire[k].cookies) :
        LET c == wire[k].cookies[j]
            to == wire[k].uri
        IN  /\ \/ to.host = c.set_by
               \/ /\ ~c.host_only
                  /\ Registrable(c.set_by) # Unset
                  /\ IsSuffix(Registrable(c.set_by), to.host)
            /\ c.secure => to.scheme = "https"

\* "A cookie the caller set themselves is what gets sent, always"
\* (cookies.rs): the chain neither holds nor sends one of the caller's names,
\* and it never sends two cookies that only differ in value.
CallerWins ==
    /\ \A i \in 1..Len(cookies) : cookies[i].name \notin CallerNames
    /\ \A k \in 1..Len(wire) : \A j \in 1..Len(wire[k].cookies) :
         wire[k].cookies[j].name \notin CallerNames
    /\ \A i, j \in 1..Len(cookies) : i # j => ~SameKey(cookies[i], cookies[j])

\* "If it isn't allowed then dropping the incumbent would mean a refusal costs
\* the caller a cookie they already had" (cookies.rs, store): a cookie's key
\* leaves a chain that goes on only by an expiry.
RefusalCostsNothing ==
    [][\A i \in 1..Len(cookies) :
         \/ \E j \in 1..Len(cookies') : SameKey(cookies[i], cookies'[j])
         \/ verdict' = "expired"
         \/ pc' # "store"]_cookies

\* "The proxy / no_proxy decision has to follow it" (hyper.rs, send_inner): no
\* hop reaches a proxied host directly or a no_proxy host through the proxy.
ProxyFollowsHop ==
    \A k \in 1..Len(wire) :
        wire[k].mode = "direct" <=> (Proxy = "none" \/ HostBypasses(wire[k].uri.host))
=============================================================================
