\* The agent and the UI's "Refresh all" only, everything under the lock, with processes
\* that die, signers that outlive them and statements that fail.
SPECIFICATION FairSpec
CONSTANTS
    i1 = i1
    i2 = i2
    agent = agent
    all = all
    v1 = v1
    None = None
    Install = {i1, i2}
    App = {i1, i2}
    AppOf <- OwnApp
    Version = {v1}
    FirstVersion = v1
    Initial = {i1, i2}
    Agent = {agent}
    UiSweep = {all}
    UiRefresh = {}
    UiInstall = {}
    Error = {"DeviceOffline", "AppleAuth2faRequired"}
    Faults = {"crash", "db"}
    Lifetime = 3
    Lead = 1
    BackoffBase = 1
    BackoffCap = 2
    RetryCap = 1
    RecordLag = 0
    MaxTime = 5
INVARIANTS
    TypeOK
    LockMeansSweep
    OneJobRow
    DueListStaysTrue
    FailedIffBlocked
    NeverOverpromises
PROPERTIES
    KeepsLedger
    ExpiryNeverShrinks
    BlockedNotRetried
    SweepReleasesLock
