SPECIFICATION Spec
CONSTANTS
    MaxSeatRows = 1
    MaxRequests = 1
    Images = {"arch"}
    DefaultImage = "arch"
    MaxSeats = 1
    MinSeats = 0
    MaxRetries = 0
    HeldTtl = TRUE
    Refusals = TRUE
    JobKinds = {"release", "drop", "reset", "cancel", "export", "retry", "discard", "reconcile"}
    Faults = {"create", "boot", "reset", "export", "teardown", "probe", "vmstop", "vmvanish"}
    MaxCrashes = 2
INVARIANTS
    NothingStuckSilently
    UsableSeatHasVm
PROPERTIES
    OnlyCondemnedVmsDestroyed
