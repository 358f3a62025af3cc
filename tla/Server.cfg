\* Four files, three of which load; two changes and three signals, so that one
\* signal is handled, one waits and one is dropped.
SPECIFICATION FairSpec
CONSTANTS
    u1 = u1
    u2 = u2
    Users = {u1, u2}
    Stranger = Stranger
    Unknown = Unknown
    Elsewhere = Elsewhere
    Weekdays <- WeekdayNames
    Offset <- Zones
    Contents <- Files
    Instants <- Moments
    MaxEdits = 2
    MaxSignals = 3
INVARIANTS
    TypeOK
    UsersFollowConfig
    RefusedOnlyByRename
    OpenAsWritten
PROPERTIES
    ReloadCutsNoCall
    ReloadTakesEffect
    StopTakesEffect
\* The process ends.
CHECK_DEADLOCK FALSE
