\* Two fees, so that a signer that changes the fee is seen; safety only.
\* A finite application: once every call has returned and the node has
\* emptied its mempool nothing is left to do, so deadlock is not checked.
CONSTANTS
    MaxCalls = 2
    CallMethods <- MCCallMethods
    Addresses = {a1, a2}
    SignerAccounts = {a1}
    Fees = {f1, f2}
    Memos = {m1, m2}
    InputFee = f1
    InputMemo = m1
    MaxExplicitSeq = 0
    AccountNumber = n1
    ChainId = chain1
    Values = {v1}
    NoTx = NoTx
    NoData = NoData
SPECIFICATION Spec
CHECK_DEADLOCK FALSE
INVARIANTS
    BroadcastTxVerifies
