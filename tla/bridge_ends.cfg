\* The app alone, fair: a signing run, a Wi-Fi resolve and its exit contend for
\* the supervised bridge; spawns may fail.
SPECIFICATION FairSpec
CONSTANTS
    r1 = r1
    w1 = w1
    x1 = x1
    d1 = d1
    None = None
    Proc = {"app"}
    Route = {r1}
    Resolver = {w1}
    Sweep = {}
    Exit = {x1}
    ProcOf <- AppAndAgent
    Device = {d1}
    Faults = {"spawn"}
PROPERTIES
    RouteDecides
    ShutdownReturns
