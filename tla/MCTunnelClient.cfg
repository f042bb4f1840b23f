\* Three attempts: the first, which is special, one in the middle, the last.
CONSTANTS
    MaxRetries = 3
    PingTimeout = 1
SPECIFICATION FairSpec
INVARIANTS
    GracefulEndIsAsked
    AdvertisedState
    IInv
PROPERTIES
    ImplementsSession
    ImplementsConnect
    WindsDown
    InterruptAnswered
