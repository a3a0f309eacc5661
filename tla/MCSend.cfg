\* Up to two redirects between six URIs, through an HTTP proxy; two small
\* cookies fit, a small and a large one do not.  Three retries with a factor of
\* two bits: the second wait is doubled and meets the cap, the third is cut to 0.
CONSTANTS
    PublicSuffixes <- MCPublicSuffixes
    Addresses <- MCAddresses
    CallerNames <- MCCallerNames
    MaxCookieBytes = 10
    MaxCookies = 2
    MaxChainBytes = 12
    Origins <- MCOrigins
    Uris <- MCUris
    SetCookies <- MCSetCookies
    Follow = TRUE
    ForwardCookies = TRUE
    RedirectLimit = 2
    Proxy = "http"
    NoProxy <- MCNoProxy
    MaxSetCookies = 3
    MaxBody = 6
    Bodies <- MCBodies
    MaxRetries = 3
    MinWait = 2
    MaxWait = 3
    Width = 2
SPECIFICATION Spec
INVARIANTS
    RetryDiscipline RequestsBounded AttemptsStartAfresh
    CookieStaysHome ProxyFollowsHop CallerWins
    CleanMeansContent WholeIsNeverFlagged
PROPERTY RefusalCostsNothing
CHECK_DEADLOCK FALSE
