\* A statement fails while a failed refresh is written down.
SPECIFICATION Spec
CONSTANTS
    i1 = i1
    agent = agent
    v1 = v1
    None = None
    Install = {i1}
    App = {i1}
    AppOf <- OwnApp
    Version = {v1}
    FirstVersion = v1
    Initial = {i1}
    Agent = {agent}
    UiSweep = {}
    UiRefresh = {}
    UiInstall = {}
    Error = {"DeviceOffline", "AppleAuth2faRequired"}
    Faults = {"db"}
    Lifetime = 3
    Lead = 1
    BackoffBase = 1
    BackoffCap = 2
    RetryCap = 1
    RecordLag = 0
    MaxTime = 4
INVARIANTS
    RefreshingIsBacked
