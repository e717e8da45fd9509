CONSTANTS
    None = None
    c1 = c1
    c2 = c2
    Cycles = {c1, c2}
    GatedCalls = {g}
    ReadCalls = {r}
    Workloads <- AnyWorkload
    Decisions = {"approved", "rejected"}
    max_read_misses = 2
    MaxIds = 2

SPECIFICATION FairSpec

INVARIANTS
    HolderRunsOnce
    OfferedIsPending
    FruitlessIsBounded

PROPERTY CyclesEnd
