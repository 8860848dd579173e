CONSTANTS
    Runner = {r1}
    NumProviders = 2
    Unreliable <- Everyone
    FailureThreshold = 2
    FailCap = 3
    MaxAborts = 0
SPECIFICATION Spec
INVARIANT ConfirmedReachesSomeone
