\* A unit of about 8 s: the least interval and sipgo's timeout of 32 s are 4, the
\* pause and the limit of 5 s are 1.  20 is an expiry that is long enough for
\* every refresh to be in time, 12 one that is not, 3 one below the interval.
SPECIFICATION FairSpec
CONSTANTS
    Requested = 20
    Grants = {0, 3, 12, 20}
    MinInterval = 4
    RetryPause = 1
    UnregisterLimit = 1
    RequestLimit = 4
INVARIANTS
    TypeOK
    RefreshInTime
    ShutdownInTime
    BindingOutlivesFailureOnly
PROPERTIES
    KeepsTrying
\* Run returns.
CHECK_DEADLOCK FALSE
