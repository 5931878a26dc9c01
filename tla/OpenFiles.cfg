\* One open file; reads, writes, seeks and truncations in any order.
CONSTANTS
    Opens = {1}
    MaxOffset = 3
    MaxLength = 4
    ChunkSize = 2
    MaxInt = 2
    MaxBelief = 5
SPECIFICATION Spec
INVARIANTS
    TypeOK
    ForwardAccessIsExact
    ReadsAreWhole
