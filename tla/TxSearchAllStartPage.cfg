\* A start page other than the first, as the comment above txSearchAll allows,
\* on a chain with at least three matches, so that page 2 exists.
CONSTANTS
    MinTxs = 3
    MaxTxs = 5
    PerPage = 2
    Orders = {"asc"}
    StartPages = {2}
    NoAnswer = NoAnswer
SPECIFICATION Spec
CHECK_DEADLOCK FALSE
PROPERTY TxSearchSpec
