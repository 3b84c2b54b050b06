SPECIFICATION Spec
CONSTANTS
    Threads = {t1, t2}
    Clients = {c1, c2}
    Sweeper = Sweeper
    NoThread = NoThread
    MaxPuts = 1
SYMMETRY Symmetry
INVARIANTS
    TypeOK
    AckedIsDurable
    DeletedStaysDeleted
    TrackedUnlessCrossed
    ClosedWhenUnused
PROPERTIES
    ImplementsStore
CHECK_DEADLOCK FALSE
