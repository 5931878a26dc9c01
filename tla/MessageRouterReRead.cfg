\* A read that fails after its first batch is sent again from the start.
SPECIFICATION Spec
CONSTANTS
    MaxRequests = 1
    AttemptCount = 3
    MaxBatches = 2
INVARIANTS
    ReadWithinFile
CHECK_DEADLOCK FALSE
