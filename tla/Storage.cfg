CONSTANTS
    s1 = s1
    s2 = s2
    bv = bv
    i1 = i1
    p1 = p1
    Vms = {s1, s2}
    BuildVm = bv
    PoolSize = 2
    Hash <- SameHash
    MaxIdentities = 3
    MaxCrashes = 1
    BuildsAlone = TRUE
    Names = {i1, i2}
    Packages = {a}
    Derived <- DerivedImage
    Projects = {p1}
    Clients = {c1, c2}
    NoEntry = NoEntry
    Policy = "allowlist"
    Allowlist = {}
    MaxRecords = 1
    MaxCalls = 3
    Defaults = {i2}
    Seats = {s1}
    NoClone = NoClone
    MaxCommits = 3
    MaxExported = 2
    Editors = {e1, e2}
    Nobody = Nobody
    MaxWidth = 1
    MaxEdits = 2
    MaxRestarts = 1
    MaxDeaths = 1
    MaxReloads = 1
    WriteTears = FALSE
SPECIFICATION StorageSpec
INVARIANTS StorageTypeOK SatisfiedIsUsable OwnIdentity DistinctAddresses OkMeansLanded
PROPERTIES StatusIsLive ExportPromise UpdatePromise
SYMMETRY ThreadSymmetry
CHECK_DEADLOCK FALSE
