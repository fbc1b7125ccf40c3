CONSTANTS
    Daemons = {d1, d2}
    Launchers = {l1}
    NoFile = NoFile
    OldFile = OldFile
    Clients = {c1, c2}
    MaxJobs = 1
    MaxRestarts = 1
    Nothing = Nothing
SPECIFICATION ServiceSpec
INVARIANTS ServiceTypeOK UndisputedIsReachable UndisputedActsAlone RunsOnceInOrder HistoryBounded
PROPERTIES StaleSocketRecovered StopObeyed JobsFinish
CHECK_DEADLOCK FALSE
