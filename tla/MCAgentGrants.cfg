SPECIFICATION Spec
CONSTANTS
    Minted = {m1}
    Remote = {x1}
    Reqs = {r1, r2}
    Flows = {f1}
    Creds = {c1, c2, c3}
    MaxClicks = 2
    Nothing = Nothing
    Pasted = Pasted
    NoGrant = NoGrant
SYMMETRY Alike
INVARIANTS MintedIsRecorded ApprovedOnRequest ApprovedWorks
