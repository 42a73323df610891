SPECIFICATION Spec
CONSTANTS
    Sessions = {s1, s2, s3, s4}
    Loops = {l1, l2}
    Requests = {boot, r1}
    Boot = boot
    Delays = 2
    MaxPositions = 2
    Composite = TRUE
    None = None
INVARIANTS
    TypeOK
    AtMostOneLoop
    ReconnectingHasLoop
    SleeperHearsRetry
    LiveSessionWatched
PROPERTIES
    ImplementsBroker
    RetryHeeded
CHECK_DEADLOCK FALSE
