\* A connection that cannot be made.
SPECIFICATION Spec
CONSTANTS
    WIFI_MAX_RETRY = 2
    Addresses = 2
INVARIANT
    OnlySocketsClosed
CHECK_DEADLOCK FALSE
