SPECIFICATION FairSpec
CONSTANTS
    Entries = {1, 2}
    Pids = {1, 2, 3, 4}
    Callers = {c1}
    MaxRestarts = 2
    Adopt = TRUE
    Gated = FALSE
    HasMarker = FALSE
    MaxAged = 0
    MaxHubDeaths = 0
    NoEntry = NoEntry
    NoPid = NoPid
    Outsider = Outsider
PROPERTIES StopCompletes CrashIsHandled
CHECK_DEADLOCK FALSE
