CONSTANTS
    None = None
    c1 = c1
    c2 = c2
    Cycles = {c1, c2}
    GatedCalls = {g}
    ReadCalls = {r}
    Workloads <- TwoCycles
    Decisions = {"rejected"}
    max_read_misses = 2
    MaxIds = 1

SPECIFICATION Spec
INVARIANT ApprovalRunsOnce
