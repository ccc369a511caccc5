SPECIFICATION Spec
CONSTANTS
    Entries = {1, 2}
    Pids = {1, 2, 3}
    Callers = {c1, c2}
    MaxRestarts = 2
    Adopt = TRUE
    Gated = FALSE
    HasMarker = TRUE
    MaxAged = 1
    MaxHubDeaths = 1
    NoEntry = NoEntry
    NoPid = NoPid
    Outsider = Outsider
INVARIANTS TypeOK OneChildPerEntry AdoptTargetUnowned
PROPERTIES StopSticks StrangersSpared SlotsKept
SYMMETRY CallersAlike
CHECK_DEADLOCK FALSE
