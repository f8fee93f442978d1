CONSTANTS
    Keys = {k1, k2, k3}
    Reserved = {k3}
    Loader = k2
    MaxKeys = 3
    ReservedSets = {{k3}, {}, {k1, k3}}
SPECIFICATION Spec
INVARIANTS
    SourceMatchesOrigin
    ReservedNeverWritable
    
CHECK_DEADLOCK FALSE
