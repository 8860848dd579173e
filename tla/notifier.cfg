CONSTANTS
    Runner = {r1}
    NumProviders = 2
    Unreliable <- FirstOnly
    FailureThreshold = 2
    FailCap = 3
    MaxAborts = 2
SPECIFICATION FairSpec
INVARIANTS
    TypeOK
    ToldAgrees
    NoRepeat
    ConfirmedAfterStreak
PROPERTIES
    ImplementsContract
    EventuallyConfirmed
    OperatorsLearn
