\* Two phones, so that one can win and one lose; one reload, between any two
\* steps, from any mode to any other.
SPECIFICATION FairSpec
CONSTANTS
    Phones = {p1, p2}
    Trunk = Trunk
    NoPhone = NoPhone
    Configs <- AllModes
    MaxReloads = 1
INVARIANTS
    TypeOK
    ScriptSeesFinishedFiles
    NobodyLeftTalking
    AnsweredAfterCallee
    RecordedAreAnnounced
    UnansweredFileIsAnswerFirst
PROPERTIES
    OneFinalAnswer
    KeepsConversation
    CallerGoneEndsCall
\* The call is over.
CHECK_DEADLOCK FALSE
