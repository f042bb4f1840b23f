\* The five seconds pass while the poller is about to connect.
SPECIFICATION Spec
INVARIANTS
    OneSession
