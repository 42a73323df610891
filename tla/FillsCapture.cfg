SPECIFICATION Spec
CONSTANTS
    Fills = {f1, f2, odd, alien}
    Dropped = {odd}
    Poison = {alien}
    Daily = daily
    Admin = {}
    Composite = FALSE
    None = none
INVARIANTS
    TypeOK
    CapturedFillsKept
PROPERTY EveryFillRecorded
