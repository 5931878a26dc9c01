\* Liveness of the handlers; no symmetry, which TLC does not support here.
SPECIFICATION WaitersSpec
CONSTANTS
    Names = {a, b}
    BatchSize = 1
    AttemptCount = 2
    MaxRequests = 4
    Operations = {"deleteEntry"}
    Faults = {"FAILED", "expiry"}
PROPERTIES
    AskersAnswered
    WaitersAnswered
CHECK_DEADLOCK FALSE
