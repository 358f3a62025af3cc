\* A reload and a call. Files, zones and moments as in Server.cfg.
SPECIFICATION Spec
CONSTANTS
    u1 = u1
    u2 = u2
    Users = {u1, u2}
    Stranger = Stranger
    Unknown = Unknown
    Elsewhere = Elsewhere
    Weekdays <- WeekdayNames
    Offset <- Zones
    Contents <- Files
    Instants <- Moments
    MaxEdits = 2
    MaxSignals = 3
INVARIANTS
    RegisteredNumberReachable
\* The process ends.
CHECK_DEADLOCK FALSE
