CONSTANTS
    Hour = 2
    Warmup = 1
    Purge = 1
    Embargo = 1
    Hold = 1
    Cost = 1
    Scale = 2
    InitialBars <- MCBars
    InitialFunding <- MCFunding
    Invocations <- TwoCommands
    Closes <- CloseValues
    Rates <- RateValues
    BarsAt <- Noted
    FundingAt <- Paid
    MaxEdits = 1
SPECIFICATION Spec
INVARIANT TypeOK
INVARIANT PassIsTrue
INVARIANT SealTellsTheQuarantine
INVARIANT ScoreIsOfTheTrainRows
INVARIANT DecompositionIsOfTheArchive
CHECK_DEADLOCK FALSE
