CONSTANTS
    u1 = u1  u2 = u2  u3 = u3  u4 = u4
    g1 = g1  g2 = g2
    p1 = p1  p2 = p2
    c1 = c1  c2 = c2  c3 = c3
    Uploads = {u1, u2, u3}
    Registrations = {}
    Paths = {p1}
    Contents = {c1, c2, c3}
    MayUpload <- Anything
    TempZone = {}
    Watched = {p1}
    Overlapping = TRUE
    MaxDeletes = 0
    MaxFaults = 0
SPECIFICATION Spec
INVARIANT
    CanonicalIsCurrent
CHECK_DEADLOCK FALSE
