SPECIFICATION Spec
CONSTANTS
    Uuids = {u}
    Garbage = Garbage
    Requests = {r1, r2}
    Keys = {k1, k2, k3}
    Service = Service
    OtherService = OtherService
    Secret = Secret
    OtherSecret = OtherSecret
    Sessions = {u, thread}
    Lifetimes = {0, 2}
    CacheTtl = 2
    MaxSize = 2
    MaxTime = 4
    Never = Never
SYMMETRY Symmetry
INVARIANTS
    TypeOK
    TokenLivesToItsExpiry
PROPERTIES
    RetryIsServed
CHECK_DEADLOCK FALSE
