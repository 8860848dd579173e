CONSTANTS
    Instance = {i1, i2}
    NoOne = NoOne
    Gone = Gone
    LeaderTTL = 6
    Delay = 1
    MaxFaults = 3
SPECIFICATION FairSpec
INVARIANTS
    TypeOK
    ExclusiveLease
    HoldBound
    TakeoverBound
    SchedulerFollowsLoop
PROPERTIES
    NoSpuriousStepDown
    LeaderElected
