SPECIFICATION Spec
CONSTANTS
    MaxSeatRows = 1
    MaxRequests = 1
    Images = {"arch"}
    DefaultImage = "arch"
    MaxSeats = 1
    MinSeats = 1
    MaxRetries = 1
    HeldTtl = FALSE
    Refusals = TRUE
    JobKinds = {"release", "drop", "reset", "cancel", "export", "retry", "discard"}
    Faults = {"create", "boot", "reset", "export", "teardown", "list"}
    MaxCrashes = 2
INVARIANTS
    NoDecidedWorkLost
