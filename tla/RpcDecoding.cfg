CONSTANTS
    Data = {d1, d2}
    Sanitary = {d1}
    Info = {i1}
    None = None
    Garbled = Garbled
SPECIFICATION Spec
INVARIANTS
    TypeOK
    DecodeNeverMisreads
    BinaryRequestsRoundTrip
PROPERTY
    ContractSpec
