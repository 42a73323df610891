SPECIFICATION Spec
CONSTANT AttentionAfter = 2
INVARIANTS
    TypeOK
    PendingBounded
PROPERTIES
    AdvancesWhenTold
    QueueDrains
    OutageIsEscalated
    OutageIsClosed
