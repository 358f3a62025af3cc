\* Two users with different passwords, one challenge and two requests that may
\* present it, a reload between any two of their steps.
SPECIFICATION Spec
CONSTANTS
    Users = {alice, bob}
    NoUser = NoUser
    Passwords = {p1, p2}
    NoPassword = NoPassword
    Reqs = {1, 2, 3}
    NoReq = NoReq
    Expiries = {0, 1}
    MaxReloads = 1
SYMMETRY Symmetry
INVARIANTS
    TypeOK
    NonceSingleUse
    RegistrationAuthentic
    DeletedUserOnlyByOverlap
PROPERTIES
    BindingsChangeByOwner
\* A finite set of requests runs out.
CHECK_DEADLOCK FALSE
