SPECIFICATION DamageSpec
CONSTANTS
    long = long
    flat = flat
    Rows <- const_Rows
    LongRows <- const_LongRows
    Amount <- const_Amount
    Tolerance = 1
    NBars = 3
    MaxCrashes = 1
    MaxRecomputes = 0
    MaxUnlinkFailures = 0
    MaxInputProblems = 1
    MaxReadFailures = 0
    MaxTogether = 3
    MaxDamages = 1
PROPERTY LossBlocksOk
