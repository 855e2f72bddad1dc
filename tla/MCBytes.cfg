CONSTANTS
    p1 = p1  p2 = p2
    c1 = c1  c2 = c2  c3 = c3
    Uploads = {u1, u2, u3}
    Registrations = {g1}
    Paths = {p1, p2}
    Contents = {c1, c2, c3}
    MayUpload <- DistinctContents
    TempZone = {}
    Watched = {p1}
    Overlapping = TRUE
    MaxDeletes = 1
    MaxFaults = 1
    Downloads = {d1}
    MaxScans = 1
SPECIFICATION MCSpec
SYMMETRY Symmetry
INVARIANTS
    CanonicalIsCurrent
    VersionsLeadToBytes
    BytesPreserved
    AlarmsAreExplained
PROPERTIES
    DuplicatesAreStored
    DownloadsAreCurrent
CHECK_DEADLOCK FALSE
