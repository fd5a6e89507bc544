CONSTANTS
    FractionalDigits = 2
    MantissaBits = 8
    PriceStrings <- MCPriceStrings
    GasLimits <- MCGasLimits
    Unmatched = Unmatched
    None = None
SPECIFICATION Spec
\* calculateFee returns once; the behaviour ends there.
CHECK_DEADLOCK FALSE
INVARIANT
    FeeCoversPrice
