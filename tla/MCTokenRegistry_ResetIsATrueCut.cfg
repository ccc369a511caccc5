SPECIFICATION Spec
CONSTANTS
    Users = {alice}
    Vaults = {home, work}
    Codes = {1, 2}
    Jtis = {1, 2, 3}
    Requests = {r1, r2}
    NoUser = NoUser
    NoJti = NoJti
    NoCode = NoCode
    NoVault = NoVault
INVARIANT ResetIsATrueCut
