CONSTANTS
    Instance = {i1, i2}
    NoOne = NoOne
    Gone = Gone
    LeaderTTL = 2
    Delay = 0
    MaxFaults = 1
    NumProviders = 1
    Unreliable <- NoProvider
    FailureThreshold = 1
    FailCap = 1
    MaxAborts = 1
    Staying = {i1}
    Seen = {"up", "down"}
SPECIFICATION HASpec
INVARIANT NoDoubleExecution
