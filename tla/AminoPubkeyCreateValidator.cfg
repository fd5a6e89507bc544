\* The MsgCreateValidator converter with a secp256k1 and an ed25519
\* validator key; the codec runs with single keys only.
CONSTANTS
    Inputs <- MCInputsSingle
    Bech32Prefixes = {"cosmos"}
    None = None
    AnyInputs <- MCAnyInputsAll
SPECIFICATION PubkeysSpec
CHECK_DEADLOCK FALSE
INVARIANT CreateValidatorRoundTrip
