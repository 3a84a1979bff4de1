\* One signing run and one Wi-Fi resolve in the app; nothing fails.
SPECIFICATION Spec
CONSTANTS
    r1 = r1
    w1 = w1
    d1 = d1
    None = None
    Proc = {"app"}
    Route = {r1}
    Resolver = {w1}
    Sweep = {}
    Exit = {}
    ProcOf <- AppAndAgent
    Device = {d1}
    Faults = {}
INVARIANTS
    RouteKeepsBridge
