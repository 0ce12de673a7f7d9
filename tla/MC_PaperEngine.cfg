CONSTANTS
    btc = btc
    alt = alt
    Symbols <- MCSymbols
    Reference = btc
    Interval = 2
    Horizon = 10
    Forward = 2
    MaxStale = 6
    Lanes = {"jsonl", "sqlite"}
    Order <- MCOrder
    MaxFaults = 1
    Sources <- MCSources
SPECIFICATION Spec
INVARIANT TypeOK
INVARIANT HoldingIsTiled
INVARIANT ChargedInFull
INVARIANT BooksTie
INVARIANT BatchesDoNotMatter
CHECK_DEADLOCK FALSE
PROPERTY EveryBarIsBooked
