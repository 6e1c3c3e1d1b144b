SPECIFICATION BootSpec
CONSTANTS
    Process = {p1, p2, p3}
    UserId = {1, 2, 3}
    Username = {admin, other}
    AdminName = admin
    Nobody = Nobody
    MaxCrashes = 2
INVARIANTS
    BootTypeOK
    IndexNeverFails
    UpWithAccounts
PROPERTIES
    OldestStays
    SeedOnlyWhenEmpty
    AllComeUp
CHECK_DEADLOCK FALSE
