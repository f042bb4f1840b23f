\* Two commands at a time for one name.
CONSTANTS
    Process = {p1, p2}
    Host <- MCHost
    Port <- MCPort
    Options <- MCOptions
    None = None

SPECIFICATION FairSpec

INVARIANTS
    LoadBalancerInv
    OwnIsAsked
    SuccessTellsAWay

PROPERTIES
    InformedDeletion
    CreateSettles
