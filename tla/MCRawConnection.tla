--------------------------- MODULE MCRawConnection ---------------------------
(***************************************************************************)
(* Small instances of RawConnection.                                       *)
(***************************************************************************)
EXTENDS RawConnection

MCConfig(p, s, c, l) == [proxy |-> p, scheme |-> s, creds |-> c, long_host |-> l]

\* Direct and proxied, plain and TLS; a proxy nobody accepts, a name too long
\* for SOCKS5, a user name without its password.
MCConfigs ==
    {MCConfig("none", "http", "none", FALSE), MCConfig("http", "https", "none", FALSE),
     MCConfig("http", "http", "none", FALSE), MCConfig("socks5", "http", "both", FALSE),
     MCConfig("socks5", "https", "user", FALSE), MCConfig("socks5", "http", "none", TRUE),
     MCConfig("bad", "http", "none", FALSE)}

MCHttpProxy == {MCConfig("http", "http", "none", FALSE)}
=============================================================================
