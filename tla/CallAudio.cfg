\* Two units of silence and three in all, so that either limit can come first;
\* two packets may wait, for a drain and for the reader that follows it.
SPECIFICATION FairSpec
CONSTANTS
    MaxDuration = 3
    SilenceTimeout = 2
    Backlog = 2
INVARIANTS
    TypeOK
    DrainTakesOneAtMost
    OneLateSampleEach
    OnePacketOverLimit
PROPERTIES
    KeepsConversation
    DepartureEndsBridge
    GoroutinesEnd
    MessageEnds
\* The call is over.
CHECK_DEADLOCK FALSE
