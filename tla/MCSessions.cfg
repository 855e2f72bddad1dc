CONSTANTS
    Nodes = {n1, n2}
    Site = site
    Drift = 2
    Skew = 1
    MaxAge = 2
    Lifetimes <- MCLifetimes
    SessionSpan = 5
    RightSets <- MCRightSets
    MaxNow = 9
SYMMETRY Symmetry
SPECIFICATION Spec
INVARIANTS
    NoFalseRejection
    SignOnsAreTimely
    ActiveUsersStaySignedIn
    IdleSessionsEnd
    SessionsHoldGrantedRights
