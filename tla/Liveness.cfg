SPECIFICATION FairSpec
CONSTANTS
    MaxSeatRows = 3
    MaxRequests = 1
    Images = {"arch", "pinned"}
    DefaultImage = "arch"
    MaxSeats = 1
    MinSeats = 1
    MaxRetries = 0
    HeldTtl = FALSE
    Refusals = FALSE
    JobKinds = {"drop"}
    Faults = {"boot", "vmstop"}
    MaxCrashes = 1
PROPERTIES
    TransientSettles
    DeadLeaseReclaimed
    FailedSeatClosed
    HeadServed
