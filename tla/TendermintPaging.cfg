\* Both calls end, so deadlock is not checked.
CONSTANTS
    MinTxs = 0
    MaxTxs = 7
    TxPerPage = 2
    Orders = {"asc"}
    StartPages = {0, 1}
    NoAnswer = NoAnswer
    v1 = v1
    v2 = v2
    v3 = v3
    v4 = v4
    Validators <- MCValidators
    ValSets <- MCValSets
    ValPerPage = 1
    NoHeight = NoHeight
SPECIFICATION Spec
CHECK_DEADLOCK FALSE
INVARIANTS
    TypeOK
    ValidatorsConsistent
PROPERTIES
    TxSearchSpec
    ValidatorsReturn
