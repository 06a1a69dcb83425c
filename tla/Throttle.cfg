SPECIFICATION Spec
CONSTANTS
    admin = admin
    guest = guest
    home = home
    office = office
    Logins = {admin, guest}
    AdminLogin = admin
    Addresses = {home, office}
    Callers = {home, office}
    Second = 2
    LoginLimit = 1
    LoginWindow = 2
    IpLimit = 2
    IpWindow = 4
    ApiLimit = 2
    ApiWindow = 4
    LockoutBase = 2
    LockoutMax = 6
    MaxClock = 6
SYMMETRY Symmetry
CONSTRAINT OneAtATime
INVARIANTS
    TypeOK
    ApiWindowBound
    RefusedOnlyAtLimit
    RefusalHolds
    FailureSpacing
PROPERTIES
    LockRunsItsTime
CHECK_DEADLOCK FALSE
