SPECIFICATION MCSpec
CONSTANTS
    u1 = u1
    u2 = u2
    nas = nas
    tse = tse
    Accounts = {u1}
    Contracts = {nas, tse}
    Holdings <- MCDisjoint
    Reported = {u1}
    Others = {tiger}
    Summarised = {u1}
    Gated = {tse}
    Prices = {1, 2}
    Items <- MCTwoItems
    CloseOf <- MCCloseOf
    MaxDay = 2
    Cash = Cash
    None = None
INVARIANTS
    TypeOK
    RowsFollowStream
    FreshWhenConnected
    CloseLabelHonest
CHECK_DEADLOCK FALSE
