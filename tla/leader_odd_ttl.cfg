CONSTANTS
    Instance = {i1, i2}
    NoOne = NoOne
    Gone = Gone
    LeaderTTL = 5
    Delay = 0
    MaxFaults = 1
SPECIFICATION Spec
INVARIANT HoldsAtMostOneTTL
