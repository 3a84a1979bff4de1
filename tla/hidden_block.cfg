\* A job is blocked, then the user installs the app again.
SPECIFICATION Spec
CONSTANTS
    i1 = i1
    agent = agent
    install = install
    v1 = v1
    None = None
    Install = {i1}
    App = {i1}
    AppOf <- OwnApp
    Version = {v1}
    FirstVersion = v1
    Initial = {i1}
    Agent = {agent}
    UiSweep = {}
    UiRefresh = {}
    UiInstall = {install}
    Error = {"DeviceOffline", "AppleAuth2faRequired"}
    Faults = {}
    Lifetime = 3
    Lead = 1
    BackoffBase = 1
    BackoffCap = 2
    RetryCap = 1
    RecordLag = 0
    MaxTime = 4
INVARIANTS
    BlockedIsSurfaced
