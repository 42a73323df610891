SPECIFICATION Spec
CONSTANTS
    NYSE = NYSE
    EAST = EAST
    Exchanges = {NYSE, EAST}
    Accounts = {ibkr1}
    Schedule <- MCSchedule
    Offset <- MCOffset
    DayLength = 18
    FirstWeekday = 4
    Extended = {NYSE}
    PreMarket = 4
    AfterHours = 4
    SearchDays = 21
    Horizon = 62
    Pause = 2
    Skew = 1
    Latency = 1
    BaseDelay = 1
    DelayCap = 3
INVARIANTS
    TypeOK
    NoCloseOverlooked
    RailHonest
PROPERTIES
    NoCloseTwice
CHECK_DEADLOCK FALSE
