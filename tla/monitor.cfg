SPECIFICATION FairSpec
CONSTANTS
    api = api
    disk = disk
    Name = {api, disk}
    Client = {curl}
    Absent = Absent
    File <- Files
INVARIANTS
    TypeOK
    JobsMatchServices
    SeriesExplained
PROPERTIES
    KeepsChecking
    KeepsProbing
    ResultsStored
    RemovedStops
CHECK_DEADLOCK FALSE
