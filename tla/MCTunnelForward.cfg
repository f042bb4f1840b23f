\* Three requests: one answered, one refused and one lost at the same time.
CONSTANT Requests = {r1, r2, r3}
SPECIFICATION FairSpec
INVARIANTS
    ForwardInv
    OneResponse
PROPERTY RequestsSettle
