SPECIFICATION RatesSpec
CONSTANTS
    FxCurrencies = {HKD, JPY}
    ApiExcluded = {}
    Prices = {p1, p2}
    Instants = {424600, 424670, 424731, 424800}
    MaxWrites = 1
    NoValue = none
INVARIANTS
    RatesTypeOK
    KnownRateServed
PROPERTY QuoteNeverOlder
