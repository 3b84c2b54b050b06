SPECIFICATION FairSpec
CONSTANTS
    Sessions = {s1}
    Bogus = Bogus
    NoKey = NoKey
    Requests = {r1}
    Headers = {}
    Messages = {m}
    Faults = {"read", "leg", "delete"}
    GaugeFloor = 1
PROPERTIES
    StaleEventuallySwept
CHECK_DEADLOCK FALSE
