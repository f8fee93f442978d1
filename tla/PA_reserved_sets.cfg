CONSTANTS
    Keys = {k1, k2, k3}
    Reserved = {k3}
    Loader = k2
    MaxKeys = 3
    ReservedSets = {{k3}, {}}
SPECIFICATION Spec
INVARIANT ParsersAgree
CHECK_DEADLOCK FALSE
