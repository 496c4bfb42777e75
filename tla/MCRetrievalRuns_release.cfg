\* One worker and the drain, one stop, stalls; maintenance, synchronous and cancel requests and their replays after a crash; every handler and request ends.
CONSTANTS
    MaxJobs = 2
    MaxAttempts = 2
    Spaces = {s1}
    Keys = {k1}
    Generic = 1
    Ingest = 0
    Vector = 0
    EnqueuedTypes = {}
    MaxStops = 1
    Requests = {r1}
    RequestKinds = {"reindex", "run_maintenance", "retire_space", "activate_space", "compare_quality", "cancel_run", "activate_active_space"}
    Options = {o1}
    Faults = {"stall"}
CHECK_DEADLOCK FALSE
SPECIFICATION RunsFairSpec
INVARIANTS RunsTypeOK RunsSafe
PROPERTY LockIsReleased
