SPECIFICATION Spec
CONSTANTS
    c1 = c1
    c2 = c2
    a = a
    b = b
    k1 = k1
    k2 = k2
    Seats = {s1}
    Calls = {c1, c2}
    Ids = {a, b}
    IdOf <- OwnIds
    Clients = {k1}
    Nobody = nobody
    MaxPerSeat = 2
    MaxTotal = 2
    MaxHistory = 1
    Jobs = {"release"}
INVARIANT ReleaseCancels
