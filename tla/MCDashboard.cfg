\* One Ingress, two requests at a time.
CONSTANTS
    Ingress = {i1}
    Slot = {q1, q2}
    None = None
    Outcome = {"converted"}
    Foreign = {}

SPECIFICATION FairSpec

INVARIANTS
    DashboardInv
    OnlyPicked

PROPERTIES
    WritesAreAtomic
    TableFollows
    TableConverges
