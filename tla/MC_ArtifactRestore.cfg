SPECIFICATION Spec
CONSTANTS
    r1 = r1
    r2 = r2
    Restorers = {r1, r2}
    NFiles = 3
    MaxCrashes = 1
    MaxRots = 1
    MaxSyncFailures = 1
    MaxOutsiders = 1
INVARIANT TypeOK
INVARIANT RestoredIsWhole
INVARIANT NoWorkspaceStays
PROPERTY DestinationIsNotReplaced
