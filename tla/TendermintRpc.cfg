CONSTANTS
    c1 = c1
    c2 = c2
    Callers <- MCCallers
    Methods = {"abciInfo", "block"}
    FirstId = 10000
    MaxIds = 5
    MaxDrops = 2
    None = None
SPECIFICATION Spec
\* Once the ids are used up and every response is in, nothing more happens.
CHECK_DEADLOCK FALSE
INVARIANTS
    TypeOK
    
PROPERTY
    CallsSettle
