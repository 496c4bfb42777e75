\* One worker, no restart: a cancel committed while the handler runs.
CONSTANTS
    MaxJobs = 1
    MaxAttempts = 2
    Spaces = {s1}
    Keys = {k1}
    Generic = 1
    Ingest = 0
    Vector = 0
    EnqueuedTypes = {"digest"}
    MaxStops = 0
SPECIFICATION Spec
PROPERTY CancelHonoured
