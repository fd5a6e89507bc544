CONSTANTS
    AdditionUrls <- MCAdditionUrls
    AdditionAminoTypes <- MCAdditionAminoTypes
    MaxAdditions = 2
    Values = {v1, v2}
    Malformed = Malformed
    RegistryMiss = RegistryMiss
SPECIFICATION Spec
INVARIANTS
    TypeOK
    RegisterImplementsRef
    OverrideLaw
    RoundTripDistinct
