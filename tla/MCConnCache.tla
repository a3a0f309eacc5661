----------------------------- MODULE MCConnCache -----------------------------
(***************************************************************************)
(* Small instances of ConnCache.                                           *)
(***************************************************************************)
EXTENDS ConnCache, TLC

MCTarget(s, h, p) == [scheme |-> s, host |-> h, port |-> p]
MCSetting(v, c) == [verify |-> v, ciphers |-> c]

\* Two ports of one host, one of them plain, and another host.
MCOneHost == {MCTarget("https", "a", 443), MCTarget("http", "a", 8080)}
MCTargets == MCOneHost \cup {MCTarget("http", "b", 8080)}

\* A config excludes nothing from its proxy, or the other host.
MCNoProxies == {{}, {"b"}}

\* Two settings that differ only in their ciphers, and one OpenSSL refuses.
MCSettings == {MCSetting(FALSE, "all"), MCSetting(FALSE, "weak"), MCSetting(FALSE, "bogus")}
MCBadCiphers == {"bogus"}

MCSymmetry == Permutations(Requests) \cup Permutations(Addresses)
=============================================================================
