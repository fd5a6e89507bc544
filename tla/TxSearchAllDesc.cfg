\* order_by "desc" while the chain grows.
CONSTANTS
    MinTxs = 0
    MaxTxs = 5
    PerPage = 2
    Orders = {"desc"}
    StartPages = {0}
    NoAnswer = NoAnswer
SPECIFICATION Spec
CHECK_DEADLOCK FALSE
PROPERTY TxSearchSpec
