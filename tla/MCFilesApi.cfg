CONSTANTS
    tenant = tenant
    staff = staff
    guest = guest
    root = root
    rival = rival
    tenant0 = tenant0
    Companies = {tenant, rival}
    Shared = Shared
    Callers = {staff, guest, root}
    Claims <- MCClaims
    companies = companies
    n = n
    CompaniesFolder = companies
    Segments = {rival, companies, tenant, tenant0, n}
    Reading <- MCReading
    Folders <- MCFolders
    Names = {n}
    Elsewhere <- MCElsewhere
    Contents = {x1, x2}
    NoBytes = NoBytes
    Requests = {r1, r2, r3}
SYMMETRY Symmetry
SPECIFICATION Spec
INVARIANTS
    RowsMatchPaths
    DownloadsComeFromTheZone
    AuditMatchesRows
    ListsWhatCanBeOpened

    
CHECK_DEADLOCK FALSE
