\* refresh_app takes no lock: it meets a sweep on the same installation.
SPECIFICATION Spec
CONSTANTS
    i1 = i1
    agent = agent
    refresh = refresh
    v1 = v1
    None = None
    Install = {i1}
    App = {i1}
    AppOf <- OwnApp
    Version = {v1}
    FirstVersion = v1
    Initial = {i1}
    Agent = {agent}
    UiSweep = {}
    UiRefresh = {refresh}
    UiInstall = {}
    Error = {"DeviceOffline", "AppleAuth2faRequired"}
    Faults = {}
    Lifetime = 3
    Lead = 1
    BackoffBase = 1
    BackoffCap = 2
    RetryCap = 1
    RecordLag = 0
    MaxTime = 4
INVARIANTS
    NoDoubleRefresh
