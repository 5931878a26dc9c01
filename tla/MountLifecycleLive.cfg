\* Every call may fail.
SPECIFICATION FairSpec
CONSTANTS
    a = a
    b = b
    Shares = {a, b}
    MaxMounts = 1
    MaxRequests = 2
    MaxRestarts = 1
    CredKey <- OneKey
    Faults = {"load", "mount", "fsp", "save"}
PROPERTIES
    EveryRequestAnswered
CHECK_DEADLOCK FALSE
