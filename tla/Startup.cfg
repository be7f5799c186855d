\* Start-up with two retries and two addresses.  app_main may return, and the
\* station may give up, so a run may stop.
SPECIFICATION FairSpec
CONSTANTS
    WIFI_MAX_RETRY = 2
    Addresses = 2
INVARIANTS
    StationKeepsTrying
    GivesUpAfterAllRetries
    OneSocket
PROPERTIES
    WifiWaitEnds
CHECK_DEADLOCK FALSE
