CONSTANTS
    u1 = u1  u2 = u2  u3 = u3  u4 = u4
    g1 = g1  g2 = g2
    p1 = p1  p2 = p2
    c1 = c1  c2 = c2  c3 = c3
    Uploads = {u1, u2, u3}
    Registrations = {g1}
    Paths = {p1, p2}
    Contents = {c1, c2}
    MayUpload <- Anything
    TempZone = {}
    Watched = {p1, p2}
    Overlapping = TRUE
    MaxDeletes = 1
    MaxFaults = 1
SPECIFICATION Spec
SYMMETRY Symmetric
INVARIANTS
    TypeOK
    VersionChain
    AssetHashIsCurrent
    NoLostUpdate
    TempFilesAreOwned
PROPERTIES
    HistoryIsKept
    HistorySpec
CHECK_DEADLOCK FALSE
