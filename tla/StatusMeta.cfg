CONSTANTS
    Data = {d1, d2}
    None = None
    Garbled = Garbled
    Errors = {e1}
    Keys = {k1}
SPECIFICATION Spec
INVARIANT
    ConversionRoundTrips
CHECK_DEADLOCK FALSE
