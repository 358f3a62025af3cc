\* A challenge, its answer, and a reload in between.
SPECIFICATION Spec
CONSTANTS
    Users = {alice}
    NoUser = NoUser
    Passwords = {p1}
    NoPassword = NoPassword
    Reqs = {1, 2}
    NoReq = NoReq
    Expiries = {0, 1}
    MaxReloads = 1
INVARIANTS
    RegistrationsAreConfigured
CHECK_DEADLOCK FALSE
