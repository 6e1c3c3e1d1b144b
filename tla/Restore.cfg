SPECIFICATION RestoreSpec
CONSTANTS
    Process = {w1, w2}
    UserId = {1, 2, 3}
    Username = {admin, other}
    AdminName = admin
    Nobody = Nobody
    MaxCrashes = 1
    Kept = {"hosts", "users"}
    Version = {v0, v1}
    v0 = v0
    v1 = v1
    other = other
    Corrupt = Corrupt
    Odd = Odd
    Archive <- MCArchive
    Original <- MCOriginal
    MaxConfirms = 2
    MaxErrors = 1
    DiskMayFail = TRUE
INVARIANTS
    SameArchiveConverges
    CredentialsLast
    OriginalKept
PROPERTIES
    NoLockout
CHECK_DEADLOCK FALSE
