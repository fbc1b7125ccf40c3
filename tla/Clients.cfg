CONSTANTS
    Seats = {s1}
    Tools = {t1, t2}
    Background = bg
    NoSeat = NoSeat
    Interval = 2
    Timeout = 6
    MaxMissed = 1
    OwnSeatsOnly = TRUE
    MayDie = TRUE
    Callers = {c1, c2}
    Nobody = Nobody
    MaxConnections = 1
    MaxRestarts = 1
    Slots = {k1, k2}
    NoSlot = NoSlot
    NoDesktop = NoDesktop
    Desktops = {d1, d2}
    MaxEvents = 3
    LateAnswerFails = FALSE
SPECIFICATION ClientsSpec
INVARIANTS ClientsTypeOK KeptAlive OnlyTargetStreams
PROPERTIES CallPromise TrackedStays ShutdownUnblocks FocusedIsShown
CHECK_DEADLOCK FALSE
