SPECIFICATION Spec
CONSTANTS
    s1 = s1
    s2 = s2
    k1 = k1
    k2 = k2
    k3 = k3
    local = local
    cookie = cookie
    page = page
    None = None
    Slots = {s1, s2}
    Keys = {k1, k2}
    Rows = {local, cookie}
    Bursts = {page}
    BurstOf <- MCBurstOf
    DedupeWindow = 1
    KeepWindow = 2
    SpikeThreshold = 2
    SpikeWindow = 2
    SeriesDays = 2
    DayLength = 2
    Outages = TRUE
    Overlap = FALSE
    MaxClock = 3
SYMMETRY Symmetry
VIEW WhatMatters
INVARIANTS
    CountedOnce
    BucketBound
    SpikeBound
    DatabaseExact
    FallbackExact
    TotalsMatchDaysWhileSteady
CHECK_DEADLOCK FALSE
