\* A refresh that fails and the pause after it. Units as in Uplink_refresh.cfg.
SPECIFICATION FairSpec
CONSTANTS
    Requested = 20
    Grants = {0, 3, 12, 20}
    MinInterval = 4
    RetryPause = 1
    UnregisterLimit = 1
    RequestLimit = 4
PROPERTIES
    RetrySooner
\* Run returns.
CHECK_DEADLOCK FALSE
