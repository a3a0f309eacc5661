----------------------------- MODULE ChainCookies -----------------------------
(***************************************************************************)
(* The cookies one redirect chain picks up: ChainCookies of src/cookies.rs *)
(* as operators on the sequence of cookies it holds.                       *)
(*                                                                         *)
(* A host is the sequence of its labels (<<"app", "ex", "com">>), already  *)
(* canonical; a path is what stands between its slashes ("/" is <<"">>,    *)
(* "/a/" is <<"a", "">>), each non-empty segment one character long.  A    *)
(* Set-Cookie carries the empty sequence for an attribute it does not set. *)
(***************************************************************************)
EXTENDS Naturals, Sequences, FiniteSets, SequencesExt

CONSTANTS
    PublicSuffixes,   \* external: the Public Suffix List
    Addresses,        \* the hosts that are IP literals
    CallerNames,      \* the names in the caller's own Cookie headers
    MaxCookieBytes,   \* MAX_COOKIE_BYTES
    MaxCookies,       \* MAX_COOKIES
    MaxChainBytes     \* MAX_CHAIN_BYTES

ASSUME CapsAssumption ==
    MaxCookieBytes \in Nat /\ MaxCookies \in Nat /\ MaxChainBytes \in Nat

Unset == << >>

-----------------------------------------------------------------------------
\* Which names a cookie may be scoped to.

\* External (psl::domain_str): the labels of a host's public suffix; a top
\* level name the list does not know is a suffix too.
SuffixLength(host) ==
    LET listed == {k \in 1..Len(host) :
                     SubSeq(host, Len(host) - k + 1, Len(host)) \in PublicSuffixes}
    IN  IF listed = {} THEN 1 ELSE CHOOSE k \in listed : \A j \in listed : j <= k

IsPublicSuffix(host) == Len(host) <= SuffixLength(host)

\* The registrable domain, one label below the suffix; unset for a suffix.
Registrable(host) ==
    IF IsPublicSuffix(host)
    THEN Unset
    ELSE SubSeq(host, Len(host) - SuffixLength(host), Len(host))

\* host is domain, or a subdomain of it; an address only matches itself.
DomainMatches(host, domain) ==
    \/ host = domain
    \/ host \notin Addresses /\ IsStrictSuffix(domain, host)

\* path_matches: equal, or a prefix that ends at a slash.
PathMatches(request, cookie) ==
    \/ request = cookie
    \/ Last(cookie) = "" /\ Len(request) >= Len(cookie) /\ IsPrefix(Front(cookie), request)
    \/ Last(cookie) # "" /\ IsPrefix(cookie, request)

\* default_path: everything up to the last slash.
DefaultPath(request) == IF Len(request) = 1 THEN <<"">> ELSE Front(request)

PathLength(path) == Len(path) + Cardinality({k \in 1..Len(path) : path[k] # ""})

HostOnly(host) == [domain |-> host, host_only |-> TRUE]

\* Mutant: the shape check alone, without the public suffix rules.
ScopeByShape(domain, host) ==
    IF domain = Unset
    THEN {HostOnly(host)}
    ELSE IF DomainMatches(host, domain)
    THEN {[domain |-> domain, host_only |-> FALSE]}
    ELSE {}

\* The scope a Domain attribute gives a cookie set by host: one, or none when
\* the cookie is refused.
Scope(domain, host) ==
    IF domain = Unset
    THEN {HostOnly(host)}
    ELSE IF ~DomainMatches(host, domain)
    THEN {}
    ELSE IF host \in Addresses \/ (IsPublicSuffix(domain) /\ domain = host)
    THEN {HostOnly(host)}
    ELSE IF IsPublicSuffix(domain) \/ Registrable(host) # Registrable(domain)
    THEN {}
    ELSE {[domain |-> domain, host_only |-> FALSE]}

\* parse_set_cookie: the cookie, unless it is malformed (no name) or its
\* Domain is refused.  set_by is kept for the properties.
ParseSetCookie(h, uri) ==
    {[name |-> h.name, size |-> h.size, secure |-> h.secure,
      domain |-> s.domain, host_only |-> s.host_only,
      path |-> IF h.path = Unset THEN DefaultPath(uri.path) ELSE h.path,
      set_by |-> uri.host]
     : s \in IF h.name = "" THEN {} ELSE Scope(h.domain, uri.host)}

-----------------------------------------------------------------------------
\* The store.

\* size is the length of name and value together
EntrySize(c) == c.size + 3

Bytes(cookies) == FoldLeft(LAMBDA n, c : n + EntrySize(c), 0, cookies)

SameKey(c, d) == c.name = d.name /\ c.domain = d.domain /\ c.path = d.path

Replacing(cookies, c) == {i \in 1..Len(cookies) : SameKey(cookies[i], c)}

Without(cookies, indices) ==
    IF indices = {} THEN cookies ELSE RemoveAt(cookies, CHOOSE i \in indices : TRUE)

\* Room for c once the cookie it replaces is gone.
HasRoom(cookies, c) ==
    LET kept == Without(cookies, Replacing(cookies, c))
    IN  Len(kept) < MaxCookies /\ Bytes(kept) + EntrySize(c) <= MaxChainBytes

\* Mutant: the caller's names are not looked at.
VerdictIgnoringCaller(cookies, c, expired) ==
    IF EntrySize(c) > MaxCookieBytes
    THEN "over_limit"
    ELSE IF expired
    THEN "expired"
    ELSE IF HasRoom(cookies, c) THEN "stored" ELSE "over_limit"

\* What store() decides about one parsed cookie; caller_owned and over_limit
\* are the names it reports as Rejected.
Verdict(cookies, c, expired) ==
    IF c.name \in CallerNames
    THEN "caller_owned"
    ELSE IF EntrySize(c) > MaxCookieBytes
    THEN "over_limit"
    ELSE IF expired
    THEN "expired"
    ELSE IF HasRoom(cookies, c) THEN "stored" ELSE "over_limit"

\* Mutant: the incumbent is dropped before it is known whether there is room.
ApplyDropsFirst(cookies, c, verdict) ==
    LET rest == Without(cookies, Replacing(cookies, c))
    IN  IF verdict = "stored" THEN Append(rest, c) ELSE rest

\* What store() then does with it.
Apply(cookies, c, verdict) ==
    IF verdict = "stored"
    THEN Append(Without(cookies, Replacing(cookies, c)), c)
    ELSE IF verdict = "expired" THEN Without(cookies, Replacing(cookies, c)) ELSE cookies

-----------------------------------------------------------------------------
\* The Cookie header.

\* The filter of header_for.
Applies(c, uri) ==
    /\ c.secure => uri.scheme = "https"
    /\ IF c.host_only THEN uri.host = c.domain ELSE DomainMatches(uri.host, c.domain)
    /\ PathMatches(uri.path, c.path)

\* header_for: the cookies that apply, longer paths first, in the order they
\* were stored where paths are equally long (the sort is stable).
HeaderFor(cookies, uri) ==
    LET matched == {i \in 1..Len(cookies) : Applies(cookies[i], uri)}
        Before(i, j) ==
            \/ PathLength(cookies[i].path) > PathLength(cookies[j].path)
            \/ PathLength(cookies[i].path) = PathLength(cookies[j].path) /\ i < j
        At(k) == CHOOSE i \in matched : Cardinality({j \in matched : Before(j, i)}) = k - 1
    IN  [k \in 1..Cardinality(matched) |-> cookies[At(k)]]
=============================================================================
