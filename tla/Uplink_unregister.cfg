\* A cancellation and the challenge to the unregister. Units as in Uplink_refresh.cfg.
SPECIFICATION Spec
CONSTANTS
    Requested = 20
    Grants = {0, 3, 12, 20}
    MinInterval = 4
    RetryPause = 1
    UnregisterLimit = 1
    RequestLimit = 4
INVARIANTS
    UnregisterTakesEffect
\* Run returns.
CHECK_DEADLOCK FALSE
