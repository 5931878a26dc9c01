\* Every operation that can race with the cache, batches of two and their resolvers.
SPECIFICATION Spec
CONSTANTS
    Names = {a, b, c}
    BatchSize = 2
    AttemptCount = 2
    MaxRequests = 3
    Operations = {"openFile", "deleteEntry", "truncate", "moveEntry", "copyEntry",
                  "writeFile", "createFile"}
    Faults = {"FAILED", "SHOULD_RETRY", "expiry"}
INVARIANTS
    TypeOK
    FreshUnlessRaced
    CacheConsistent
    ResolverHasOwner
    NoRequestDropped
PROPERTIES
    ResolversFire
SYMMETRY Symmetry
CHECK_DEADLOCK FALSE
