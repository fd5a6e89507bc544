CONSTANTS
    Inputs <- MCInputsSingle
    Bech32Prefixes = {"cosmospub"}
    None = None
    AnyInputs <- MCAnyInputsAll
SPECIFICATION PubkeysSpec
CHECK_DEADLOCK FALSE
INVARIANT SpecEncodeLimits
