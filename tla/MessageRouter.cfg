\* The request path: its safety, its refinement of RequestStream and, under the
\* fairness of the two event loops, its liveness.
SPECIFICATION FairSpec
CONSTANTS
    MaxRequests = 2
    AttemptCount = 3
    MaxBatches = 2
INVARIANTS
    TypeOK
    InOnePlace
    NoDuplicateSend
    NoOrphanReply
    AttemptsAddUp
PROPERTIES
    KeepsPromise
    EveryRequestSettles
    ErrorsDecide
CHECK_DEADLOCK FALSE
