\* A monitor that times out leaves the reader where it is.
CONSTANTS
    MaxRetries = 2
    PingTimeout = 1
SPECIFICATION FairSpec
PROPERTY TimeoutReconnects
