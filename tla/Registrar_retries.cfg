\* Two registrations of one user, each with a challenge of its own; a live
\* binding is at its limit after one tick and past it after two.  An Expires below
\* zero makes a binding that is over from the start.
SPECIFICATION FairSpec
CONSTANTS
    Users = {alice}
    NoUser = NoUser
    Passwords = {p1}
    NoPassword = NoPassword
    Reqs = {1, 2, 3, 4}
    NoReq = NoReq
    Expiries <- SomeExpiries
    MaxReloads = 1
INVARIANTS
    LatestRegisterWins
PROPERTIES
    LapsedPhonesAreNotCalled
\* A finite set of requests runs out.
CHECK_DEADLOCK FALSE
