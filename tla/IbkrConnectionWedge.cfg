SPECIFICATION Spec
CONSTANTS
    Sessions = {s1, s2, s3}
    Loops = {l1, l2}
    Requests = {boot}
    Boot = boot
    Delays = 2
    MaxPositions = 1
    Composite = FALSE
    None = None
INVARIANTS
    ConnectedIsLive
CHECK_DEADLOCK FALSE
