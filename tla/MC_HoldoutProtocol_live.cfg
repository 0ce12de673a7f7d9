CONSTANTS
    Hour = 2
    Warmup = 1
    Purge = 1
    Embargo = 1
    Hold = 1
    Cost = 1
    Scale = 2
    InitialBars <- MCBars
    InitialFunding <- MCFunding
    Invocations <- OneCommand
    Closes <- CloseValues
    Rates <- RateValues
    BarsAt <- Quarantined
    FundingAt <- Deciding
    MaxEdits = 1
SPECIFICATION FairSpec
PROPERTY RegisteringLeadsToAPass
CHECK_DEADLOCK FALSE
