SPECIFICATION Spec
CONSTANTS
    Users = {u1,u2}
    Nobody = nobody
    Devices = {d1}
    AccessTtl = 1
    RefreshTtl = 2
    TelegramExpireDuration = 1
    RequestTime = 1
    MaxTime = 7
SYMMETRY AnyUser
INVARIANTS
    TypeOK
    AdminsWereAdmins
    PersonWasThere
