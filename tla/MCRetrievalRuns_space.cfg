\* Two workers, no disturbance: the lock alone arbitrates.
CONSTANTS
    MaxJobs = 3
    MaxAttempts = 2
    Spaces = {s1}
    Keys = {k1, k2}
    Generic = 2
    Ingest = 0
    Vector = 0
    EnqueuedTypes = {}
    MaxStops = 0
    Requests = {r1, r2}
    RequestKinds = {"reindex", "retry_run", "retire_space"}
    Options = {o1}
    Faults = {}
SPECIFICATION RunsSpec
INVARIANT OneRunPerSpace
SYMMETRY RequestSymmetry
