SPECIFICATION Spec
CONSTANTS
    Procs = {p1, p2}
    TTL = 2
    Threshold = 1
    Retention = 1
    MaxTokens = 3
    MaxKeys = 2
    MaxTime = 2
    MaxStamp = 1
    MaxEvents = 1
SYMMETRY ProcsAlike
INVARIANTS TypeOK CredentialStands ScopeSetSticks CutIsFinal WeeklyNeverExpires SignedTokensVerify
CHECK_DEADLOCK FALSE
