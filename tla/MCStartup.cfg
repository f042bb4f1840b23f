\* Two commands at a time; the cache lasts for one unit of time.
CONSTANTS
    Process = {p1, p2}
    File <- MCFile
    Context <- MCContext
    Tenant <- MCTenant
    Backends <- MCBackends
    CacheTTL = 1
    None = None

SPECIFICATION FairSpec

INVARIANTS
    StartupInv
    OwnEdition

PROPERTIES
    RightStays
    EditionConverges
