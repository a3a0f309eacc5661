\* Two requests of two hops, direct or proxied; DNS answers with two addresses.
CONSTANTS
    None = None
    r1 = r1
    r2 = r2
    Requests = {r1, r2}
    Targets <- MCTargets
    ip1 = ip1
    ip2 = ip2
    Addresses = {ip1, ip2}
    Settings <- MCSettings
    BadCiphers <- MCBadCiphers
    Proxies = {"none", "http", "socks5"}
    NoProxies <- MCNoProxies
    MaxHops = 2
    MaxConns = 2
SYMMETRY MCSymmetry
SPECIFICATION Spec
INVARIANTS SettingsNotShared PeerIpWasUsed
CHECK_DEADLOCK FALSE
