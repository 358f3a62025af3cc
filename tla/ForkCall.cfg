\* Three phones: a winner, a loser and one more that can stand anywhere else,
\* which covers every pair of goroutines the properties compare.
SPECIFICATION FairSpec
CONSTANTS
    Phones = {p1, p2, p3}
    NoPhone = NoPhone
INVARIANTS
    ReturnSettlesEveryPhone
    NoAnswerDropped
PROPERTIES
    ForkReturns
    KeepsPromise
\* After the return and the last hang-up nothing is left to happen.
CHECK_DEADLOCK FALSE
