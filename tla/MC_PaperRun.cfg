SPECIFICATION FairSpec
CONSTANTS
    long = long
    flat = flat
    Rows <- const_Rows
    LongRows <- const_LongRows
    Amount <- const_Amount
    Tolerance = 1
    NBars = 2
    MaxCrashes = 2
    MaxRecomputes = 1
    MaxUnlinkFailures = 1
    MaxInputProblems = 1
    MaxReadFailures = 1
    MaxTogether = 3
INVARIANT TypeOK
INVARIANT OkIsTrue
INVARIANT StateIsBacked
INVARIANT OneSourcePerBar
PROPERTY ImplementsOkCommit
PROPERTY ComesBackToOk
