SPECIFICATION FairSpec
CONSTANTS
    w1 = w1
    w2 = w2
    Writers = {w1, w2}
    NBars = 3
    Held <- const_Held
    MaxCrashes = 1
    MaxAborts = 1
    MaxFinishFailures = 1
    MaxTogether = 2
    MaxRevisions = 1
INVARIANT TypeOK
INVARIANT BatchesChain
INVARIANT PublishedHolds
INVARIANT GapsAreFaults
PROPERTY EvidenceStays
PROPERTY EveryBarAccounted
