\* A file accessed backwards: the seek that is skipped was needed.
CONSTANTS
    Opens = {1}
    MaxOffset = 3
    MaxLength = 4
    ChunkSize = 2
    MaxInt = 2
    MaxBelief = 5
SPECIFICATION Spec
INVARIANT SkippedSeeksAreRedundant
