SPECIFICATION AdapterSpec
CONSTANTS
    Loops = {l1, l2}
    Pollers = {p1, p2}
    Requests = {boot, r1}
    Boot = boot
    Shutdown = shutdown
    Delays = 2
    None = None
    SlowClose = FALSE
INVARIANTS
    TypeOK
    ReconnectingHasLoop
    ConnectedIsPolled
    ShutdownStopsTasks
PROPERTIES
    RowsKept
    ImplementsBroker
CHECK_DEADLOCK FALSE
