------------------------------- MODULE MCSend -------------------------------
(***************************************************************************)
(* A small instance of send(): two hosts of one registrable domain, two    *)
(* sites under a shared public suffix, the name above it, and an address;  *)
(* bodies of up to six units under one or two codings.                     *)
(***************************************************************************)
EXTENDS RetryLoop

ExCom == <<"ex", "com">>
App == <<"app", "ex", "com">>
Site1 == <<"s1", "s3", "aws", "com">>
Site2 == <<"s2", "s3", "aws", "com">>
Aws == <<"aws", "com">>
Address == <<"10", "0", "0", "1">>

MCPublicSuffixes == {<<"com">>, <<"s3", "aws", "com">>}
MCAddresses == {Address}
MCNoProxy == {[kind |-> "domain", labels |-> App], [kind |-> "net", members |-> {Address}]}
MCCallerNames == {"mine"}

MCUri(s, h, p) == [scheme |-> s, host |-> h, path |-> p]
MCSetCookie(n, z, d, p, s, x) ==
    [name |-> n, size |-> z, domain |-> d, path |-> p, secure |-> s, expired |-> x]

MCUris ==
    {MCUri("https", ExCom, <<"">>), MCUri("http", App, <<"a", "b">>),
     MCUri("https", Site1, <<"">>), MCUri("http", Site2, <<"">>),
     MCUri("http", Aws, <<"">>), MCUri("http", Address, <<"">>)}

\* Scoping: widened, host-only, to a public suffix, past a registrable domain,
\* of an address; Secure or not.  Ceilings: cookies that replace, grow, expire,
\* are too large or the caller's, and a malformed one.
MCSetCookies ==
    {MCSetCookie("a", 2, d, Unset, s, FALSE) :
       d \in {Unset, ExCom}, s \in BOOLEAN}
    \cup {MCSetCookie("a", 2, d, Unset, FALSE, FALSE) : d \in {<<"com">>, Aws, Site1, Address}}
    \cup {MCSetCookie("a", 2, Unset, <<"a", "">>, FALSE, FALSE),
          MCSetCookie("a", 5, Unset, Unset, FALSE, FALSE),
          MCSetCookie("a", 2, Unset, Unset, FALSE, TRUE),
          MCSetCookie("b", 5, ExCom, Unset, FALSE, FALSE),
          MCSetCookie("b", 9, Unset, Unset, FALSE, FALSE),
          MCSetCookie("mine", 2, Unset, Unset, FALSE, TRUE),
          MCSetCookie("mine", 2, ExCom, Unset, FALSE, FALSE),
          MCSetCookie("", 1, Unset, Unset, FALSE, FALSE)}

MCOrigins == {MCUri("https", ExCom, <<"">>), MCUri("http", App, <<"a", "b">>)}

-----------------------------------------------------------------------------
\* Codings, and the tokens that name them.
Coding(f, r, lucky, bad) == [flavour |-> f, ratio |-> r, lucky |-> lucky, bad_sum |-> bad]
Flavours == {"gzip", "zlib", "raw", "br"}
Token(f) == IF f \in {"zlib", "raw"} THEN "deflate" ELSE f

SingleCodings ==
    {<<Coding(f, r, FALSE, FALSE)>> : f \in Flavours, r \in {1, 2}}
    \cup {<<Coding("raw", r, TRUE, FALSE)>> : r \in {1, 2}}
    \cup {<<Coding(f, 1, FALSE, TRUE)>> : f \in {"gzip", "zlib"}}
DoubleCodings ==
    {<<Coding(f, r, FALSE, FALSE), Coding(g, q, FALSE, FALSE)>> :
        f \in {"gzip", "raw"}, g \in {"gzip", "br"}, r \in {1, 2}, q \in {1, 2}}
Tokens(codings) == [i \in 1..Len(codings) |-> Token(codings[i].flavour)]

Content(n) == [i \in 1..n |-> Plain(<<"a", "b", "c", "d", "e", "f">>[i])]
Bytes0 == [kind |-> "data", units |-> << >>]
Trailers == [kind |-> "trailers"]
Broken == [kind |-> "error"]

Body(n, codings, declared, fault, at, split, between, end, lag) ==
    [content |-> Content(n), codings |-> codings, declared |-> declared, fault |-> fault, at |-> at,
     split |-> split, between |-> between, last |-> end, lag |-> lag]

\* Undamaged and truthful; however framed; cut or damaged; mislabelled.
MCBodies ==
    {Body(n, c, Tokens(c), "none", 0, 0, Bytes0, Trailers, 0) :
        n \in {0, 1, 3, 4, 5, 6}, c \in SingleCodings \cup DoubleCodings \cup {<< >>}}
    \cup {Body(n, <<Coding("gzip", 1, FALSE, FALSE)>>, <<"identity", "x-gzip", "">>, "none", 0, k, between, end, 0) :
        n \in {2, 4}, k \in 0..4, between \in {Bytes0, Trailers}, end \in {Trailers, Broken}}
    \cup {Body(n, c, Tokens(c), fault, k, 1, Bytes0, Trailers, lag) :
        n \in {3}, c \in SingleCodings \cup DoubleCodings, fault \in {"cut", "damage"}, k \in 1..4,
        lag \in {0, 1}}
    \cup {Body(2, c, d, "none", 0, 0, Bytes0, Trailers, 0) :
        c \in {<< >>, <<Coding("gzip", 1, FALSE, FALSE)>>, <<Coding("zlib", 2, FALSE, FALSE)>>},
        d \in {<<"zstd">>, <<"gzip">>, <<"gzip", "gzip">>, <<"br", "deflate">>, << >>}}
=============================================================================
