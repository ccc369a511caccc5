SPECIFICATION FairSpec
CONSTANTS
    Requests = {r1, r2}
    MaxRelease = 2
    MaxHubDeaths = 1
INVARIANTS TypeOK StrayNeedsOverlap RunsWhatIsStamped
PROPERTIES OutcomesStand OpSettles
CHECK_DEADLOCK FALSE
