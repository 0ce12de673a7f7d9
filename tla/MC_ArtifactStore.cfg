SPECIFICATION FairSpec
CONSTANTS
    p1 = p1
    p2 = p2
    o1 = o1
    o2 = o2
    m1 = m1
    m2 = m2
    Processes = {p1, p2}
    Objects = {o1, o2}
    Artifacts = {m1, m2}
    Files <- const_Files
    Job <- const_Job
    MaxCrashes = 1
    MaxSourceFaults = 1
    MaxMiswrites = 1
    MaxRots = 1
INVARIANT TypeOK
INVARIANT ManifestImpliesObjects
PROPERTY GoodStays
PROPERTY RepeatCompletes
