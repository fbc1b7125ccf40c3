SPECIFICATION Spec
CONSTANTS
    MaxSeatRows = 3
    MaxRequests = 3
    Images = {"arch"}
    DefaultImage = "arch"
    MaxSeats = 2
    MinSeats = 0
    MaxRetries = 0
    HeldTtl = FALSE
    Refusals = TRUE
    JobKinds = {"release", "reset", "cancel"}
    Faults = {"create", "export"}
    MaxCrashes = 0
INVARIANTS
    TypeOK
    ReservationInv
    WithinCapacity
PROPERTIES
    Promise
