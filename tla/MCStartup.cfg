CONSTANTS
    n1 = n1  n2 = n2  n3 = n3
    view = view  allCompanies = allCompanies
    Deployed = Deployed
    Nodes = {n1, n2, n3}
    Permissions = {view, allCompanies}
    Migrations = 2
    MaxCrashes = 1
SPECIFICATION FairSpec
INVARIANTS
    TypeOK
    ReadyToServe
    FailuresAreProgress
PROPERTY
    NodesStart
CHECK_DEADLOCK FALSE
