SPECIFICATION Spec
CONSTANTS
    r1 = r1
    r2 = r2
    Restorers = {r1, r2}
    NFiles = 2
    MaxCrashes = 0
    MaxRots = 0
    MaxSyncFailures = 0
    MaxOutsiders = 0
INVARIANT MeetingIsHarmless
