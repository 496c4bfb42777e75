\* One worker and the drain, one stop: queued runs, a dry run, every disturbance; the row bound may stop a request.
CONSTANTS
    MaxJobs = 2
    MaxAttempts = 2
    Spaces = {s1}
    Keys = {k1, k2}
    Generic = 1
    Ingest = 0
    Vector = 0
    EnqueuedTypes = {}
    MaxStops = 1
    Requests = {r1}
    RequestKinds = {"reindex", "retry_run", "retry_failed", "preview_retry_failed"}
    Options = {o1}
    Faults = {"stall", "cancel_job", "reprocess"}
CHECK_DEADLOCK FALSE
SPECIFICATION RunsSpec
INVARIANT RunsSafe
SYMMETRY RequestSymmetry
