CONSTANTS
    api = api
    disk = disk
    Name = {api, disk}
    Absent = Absent
    Most <- OnApi
    Optional = {disk}
    MaxFlight = 2
    MaxFailures = 1
SPECIFICATION FairSpec
INVARIANT TypeOK
PROPERTIES
    SidebarSettles
    PageCatchesUp
