CONSTANTS
    s1 = s1
    s2 = s2
    Symbols = {s1, s2}
    Second = 4
    Hour = 4
    SplitCount = 2
    OutlierRate = 5
    HalfSample = 1
    MaxRows = 100
    Invocations <- MCInvocations
    Starts <- MCStarts
    Refreshes <- MCRefreshes
    Drafts <- MCDrafts
    MaxRuns = 1
SPECIFICATION Spec
CHECK_DEADLOCK FALSE
INVARIANT TypeOK
INVARIANT ClosedChainIsBound
INVARIANT ClosedChainIsFrozen
INVARIANT OnlyAPrefixPasses
INVARIANT DiagnosticsAgree
INVARIANT EligibleIsJoined
INVARIANT EveryRowIsValidatedOnce
