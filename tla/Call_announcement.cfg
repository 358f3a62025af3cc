SPECIFICATION Spec
CONSTANTS
    Phones = {p1, p2}
    Trunk = Trunk
    NoPhone = NoPhone
    Configs <- AnswerFirstMode
    MaxReloads = 0
INVARIANTS
    BothPartiesHearAnnouncement
CHECK_DEADLOCK FALSE
