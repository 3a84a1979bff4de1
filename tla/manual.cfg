\* From an empty database: one app, installed and refreshed by hand while
\* the agent sweeps.
SPECIFICATION Spec
CONSTANTS
    i1 = i1
    agent = agent
    refresh = refresh
    install = install
    v1 = v1
    None = None
    Install = {i1}
    App = {i1}
    AppOf <- OwnApp
    Version = {v1}
    FirstVersion = v1
    Initial = {}
    Agent = {agent}
    UiSweep = {}
    UiRefresh = {refresh}
    UiInstall = {install}
    Error = {"DeviceOffline", "AppleAuth2faRequired"}
    Faults = {}
    Lifetime = 2
    Lead = 1
    BackoffBase = 1
    BackoffCap = 1
    RetryCap = 0
    RecordLag = 1
    MaxTime = 3
INVARIANTS
    RefreshingIsBacked
    NeverOverpromises
    LapsedNotForgotten
