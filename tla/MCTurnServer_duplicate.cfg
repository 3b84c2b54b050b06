SPECIFICATION Spec
CONSTANTS
    Sessions = {s1, s2}
    Bogus = Bogus
    NoKey = NoKey
    Requests = {r1, r2}
    Headers = {h}
    Messages = {m}
    Faults = {}
    GaugeFloor = 2
INVARIANTS
    NoDuplicateRuns
CHECK_DEADLOCK FALSE
