SPECIFICATION Spec
CONSTANTS
    w1 = w1
    w2 = w2
    Writers = {w1}
    NBars = 2
    Held <- const_Held
    MaxCrashes = 0
    MaxAborts = 0
    MaxFinishFailures = 0
    MaxTogether = 1
    MaxRevisions = 1
INVARIANT CleanIsCharged
