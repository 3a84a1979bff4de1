\* The app (a signing run, a Wi-Fi resolve and its exit) beside an agent's sweep,
\* with every fault: a spawn that fails, a bridge that exits, a process that dies.
SPECIFICATION Spec
CONSTANTS
    r1 = r1
    w1 = w1
    s1 = s1
    x1 = x1
    d1 = d1
    None = None
    Proc = {"app", "agent"}
    Route = {r1}
    Resolver = {w1}
    Sweep = {s1}
    Exit = {x1}
    ProcOf <- AppAndAgent
    Device = {d1}
    Faults = {"spawn", "bridge", "crash"}
INVARIANTS
    TypeOK
    LockedWhileChanging
    NothingLingers
PROPERTIES
    CutOnlyByShutdown
