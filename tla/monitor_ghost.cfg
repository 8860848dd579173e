SPECIFICATION Spec
CONSTANTS
    api = api
    disk = disk
    Name = {api, disk}
    Client = {curl}
    Absent = Absent
    File <- SoundFiles
INVARIANTS
    RemovedNotReported
CHECK_DEADLOCK FALSE
