\* Two converters race on one Ingress, its policy and one Gateway.
CONSTANTS
    plain = plain
    edited = edited
    skip = skip
    route = route
    policy = policy
    l1 = l1
    l2 = l2
    i1 = i1
    i2 = i2
    None = None
    Listener = {l1, l2}
    PartsOf <- MCPartsOf
    ListenersOf <- MCListenersOf
    Routes = {}
    Ingress = {i1}
    Content = {plain, edited}
    Skipped = {}
    Warned = {}
    Policies = {policy}
    Converter = {c1, c2}
    Polling = {FALSE}
SPECIFICATION Spec
INVARIANTS
    PartsHaveListeners

PROPERTIES
    MergesAreAtomic
    EditsAreKept
    ImplementsCluster
