SPECIFICATION Spec
CONSTANTS
    MaxSeatRows = 1
    MaxRequests = 1
    Images = {"arch"}
    DefaultImage = "arch"
    MaxSeats = 1
    MinSeats = 0
    MaxRetries = 0
    HeldTtl = FALSE
    Refusals = TRUE
    JobKinds = {"release", "discard"}
    Faults = {"export"}
    MaxCrashes = 1
PROPERTIES
    DiscardNeverExports
