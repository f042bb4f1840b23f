\* The acceptance of the old route counts for the new one.
CONSTANTS
    plain = plain
    edited = edited
    skip = skip
    route = route
    policy = policy
    l1 = l1
    l2 = l2
    i1 = i1
    i2 = i2
    None = None
    Listener = {l1, l2}
    PartsOf <- MCPartsOf
    ListenersOf <- MCListenersOf
    Routes = {route}
    Ingress = {i1}
    Content = {plain, edited}
    Skipped = {}
    Warned = {}
    Policies = {}
    Converter = {c1}
    Polling = {TRUE}
SPECIFICATION Spec
PROPERTIES
    AcceptanceIsCurrent
