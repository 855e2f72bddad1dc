CONSTANTS
    Uploads = {u1}
    Registrations = {r1}
    Jobs = {j1}
    a = a
    c1 = c1
    c2 = c2
    bad = bad
    Contents = {c1, c2, bad}
    Undecodable = {bad}
    MaySend <- MCMaySend
    MaxDeletes = 1
    MaxFaults = 1
SPECIFICATION FairSpec
INVARIANTS
    OriginalsAreKept
    VariantsAreCurrent
PROPERTIES
    ThumbnailsAppear
CHECK_DEADLOCK FALSE
