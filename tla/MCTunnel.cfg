\* Two requests, which may outlive their connection, its retry, Close and exit.
CONSTANTS
    MaxRetries = 2
    PingTimeout = 0
    r1 = r1
    r2 = r2
    Requests = {r1, r2}
SPECIFICATION TunnelSpec
INVARIANT AtMostOneLateRequest
PROPERTY ImplementsForward
SYMMETRY RequestSymmetry
