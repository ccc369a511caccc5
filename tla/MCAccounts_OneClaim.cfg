SPECIFICATION Spec
CONSTANTS
    Reqs = {r1, r2}
    Vaults = {v1, v2}
    Seats = 2
    MaxUsers = 3
    MaxInvites = 1
    MaxMade = 2
    MaxEvents = 3
SYMMETRY Symmetry
PROPERTY OneClaim
CHECK_DEADLOCK FALSE
