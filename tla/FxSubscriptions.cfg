SPECIFICATION Spec
CONSTANTS
    Supported = {HKD, JPY}
    Unsupported = {CNY}
    IbExcluded = {}
    Callers = {connect, snapshot}
    MaxSessions = 2
    None = none
INVARIANTS
    TypeOK
    SubscriptionsCurrent
PROPERTY HeldIsSubscribed
