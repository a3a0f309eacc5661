\* An https and a plain request through one client.
CONSTANTS
    None = None
    r1 = r1
    r2 = r2
    Requests = {r1, r2}
    Targets <- MCOneHost
    ip1 = ip1
    Addresses = {ip1}
    Settings <- MCSettings
    BadCiphers <- MCBadCiphers
    Proxies = {"none"}
    NoProxies = {{}}
    MaxHops = 1
    MaxConns = 2
SYMMETRY MCSymmetry
SPECIFICATION Spec
INVARIANT NoCertForPlainHttp
CHECK_DEADLOCK FALSE
