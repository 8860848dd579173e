SPECIFICATION Spec
CONSTANTS
    None = None
    site = site
    host = host
    Name = {site, host}
    Config <- Services
    Svc <- Sites
    Probe <- Probes
    Request <- OnlyDashboard
    Settings <- Default
    Window = {1, 2}
    Retention = 1
    MaxRows = 3
    MaxNow = 2
INVARIANT ThresholdsApply
