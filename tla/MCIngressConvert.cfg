\* One converter, one Ingress, every content, all that may go wrong.
CONSTANTS
    plain = plain
    edited = edited
    skip = skip
    route = route
    policy = policy
    l1 = l1
    l2 = l2
    i1 = i1
    i2 = i2
    None = None
    Listener = {l1, l2}
    PartsOf <- MCPartsOf
    ListenersOf <- MCListenersOf
    Routes = {route}
    Ingress = {i1}
    Content = {plain, edited, skip}
    Skipped = {skip}
    Warned = {edited}
    Policies = {policy}
    Converter = {c1}
    Polling = {TRUE}
SPECIFICATION FairSpec
INVARIANTS
    ConvertInv
    ReportIsTrue
PROPERTIES
    RunsEnd
    RunsAdvance
    ConversionCompletes
