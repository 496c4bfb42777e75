\* A generic and an ingest worker, the drain, one restart, cancels, stalls; locked runs, whose requeue the index may refuse; ingest handlers may hang.
CONSTANTS
    MaxJobs = 2
    MaxAttempts = 2
    Spaces = {s1}
    Keys = {k1}
    Generic = 1
    Ingest = 1
    Vector = 0
    EnqueuedTypes = {"digest", "posting_sync", "vector_reconcile"}
    MaxStops = 1
SPECIFICATION HangingIngestSpec
INVARIANTS TypeOK ExclusiveExecution AttemptBudget NoOrphanWhileUp
PROPERTIES SettledStaysSettled OthersSettle
