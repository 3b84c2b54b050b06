SPECIFICATION Spec
CONSTANTS
    Sessions = {s1}
    Bogus = Bogus
    NoKey = NoKey
    Requests = {r1, r2}
    Headers = {}
    Messages = {m}
    Faults = {"read", "leg", "delete", "list", "crash"}
    GaugeFloor = 1
SYMMETRY Symmetry
INVARIANTS
    TypeOK
    CountedSessionsAreTracked
    OrphansAreTracked
    FirstTurnIsUndisturbed
PROPERTIES
    DeadStaysDead
CHECK_DEADLOCK FALSE
