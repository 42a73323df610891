SPECIFICATION Spec
CONSTANTS
    u1 = u1
    u2 = u2
    nas = nas
    tse = tse
    Accounts = {u1, u2}
    Contracts = {tse}
    Holdings <- MCShared
    Reported = {u1}
    Others = {}
    Summarised = {u2}
    Gated = {tse}
    Prices = {1, 2}
    Items <- MCItems
    CloseOf <- MCCloseOf
    MaxDay = 0
    Cash = Cash
    None = None
INVARIANTS
    OwnValuation
CHECK_DEADLOCK FALSE
