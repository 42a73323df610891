SPECIFICATION Spec
CONSTANTS
    Brokers = {ibkr, futu}
    Symbols = {aapl}
    Hashed = {h1, h2}
    Unhashed = {u1, u2}
    Clients = {c1, c2}
INVARIANTS
    NoLostWakeup
