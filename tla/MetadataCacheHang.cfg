\* Two listings and two requests for one name, and nothing fails.
SPECIFICATION FairSpec
CONSTANTS
    Names = {a}
    BatchSize = 1
    AttemptCount = 2
    MaxRequests = 4
    Operations = {}
    Faults = {}
PROPERTIES
    EveryRequestAnswered
CHECK_DEADLOCK FALSE
