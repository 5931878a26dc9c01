\* A deletion while the metadata of the file is under way.
SPECIFICATION Spec
CONSTANTS
    Names = {a}
    BatchSize = 1
    AttemptCount = 2
    MaxRequests = 3
    Operations = {"deleteEntry"}
    Faults = {}
INVARIANTS
    DeletedNotCached
CHECK_DEADLOCK FALSE
