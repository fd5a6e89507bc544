CONSTANTS
    Inputs <- MCInputs
    Bech32Prefixes = {"cosmospub"}
    None = None
    AnyInputs <- MCAnyInputsAll
SPECIFICATION PubkeysSpec
\* Encoding and decoding a key ends the behaviour.
CHECK_DEADLOCK FALSE
INVARIANTS
    TypeOK
    EncodeMatchesReference
    EncodeFailsExactly
    DecodeInvertsEncode
    FromAminoNeverAltersKey
