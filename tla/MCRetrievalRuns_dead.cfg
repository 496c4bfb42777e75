\* One worker: a run cancelled as it is claimed, its space taken by another, then its retry.
CONSTANTS
    MaxJobs = 2
    MaxAttempts = 2
    Spaces = {s1}
    Keys = {k1, k2}
    Generic = 1
    Ingest = 0
    Vector = 0
    EnqueuedTypes = {}
    MaxStops = 0
    Requests = {r1}
    RequestKinds = {"reindex"}
    Options = {o1}
    Faults = {"cancel_job"}
SPECIFICATION RunsSpec
INVARIANT WorkersServeUntilShutdown
