\* create over a WebSocket client whose node answers the status request
\* with a malformed result.
CONSTANTS
    c1 = c1
    c2 = c2
    Callers <- MCCallers
    Methods = {"abciInfo", "block"}
    FirstId = 10000
    MaxIds = 5
    MaxDrops = 2
    None = None
SPECIFICATION Spec
CHECK_DEADLOCK FALSE
INVARIANT
    FailedCreateReleasesSocket
