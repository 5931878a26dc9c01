\* Two shares with one native credential key; every call may fail.
SPECIFICATION Spec
CONSTANTS
    a = a
    b = b
    Shares = {a, b}
    MaxMounts = 3
    MaxRequests = 1
    MaxRestarts = 1
    CredKey <- OneKey
    Faults = {"load", "mount", "fsp", "save"}
INVARIANTS
    TypeOK
    RememberedSurvives
    StorageInStep
    ShownIsServed
    RequestsReachMounted
    MountedHasCredentials
SYMMETRY Symmetry
CHECK_DEADLOCK FALSE
