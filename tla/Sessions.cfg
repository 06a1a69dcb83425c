SPECIFICATION Spec
CONSTANTS
    t1 = t1
    t2 = t2
    NoToken = NoToken
    Tabs = {t1, t2}
    MaxInFlight = 2
    Ttl = 1
    MaxClock = 1
    MaxLogins = 2
    MaxReloads = 2
SYMMETRY TabsAreAlike
CHECK_DEADLOCK FALSE
INVARIANTS
    ForbiddenOnlyAfterOtherLogin
    WritesUnderOwnSession
PROPERTIES
    PanelLeftForReason
